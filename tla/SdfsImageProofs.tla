-------------------------- MODULE SdfsImageProofs --------------------------
(***************************************************************************)
(* Every sector of the SpartaDOS image has one owner, and the bytes of the *)
(* host directory are the guest's, for any host files, sizes, slots, names *)
(* and lengths, in any order of the guest's writes that SdfsGuest allows   *)
(* and whichever storage call fails.                                       *)
(*                                                                         *)
(* The proof is of SdfsInv, and then of BytesHold, along a write(): its    *)
(* sector is noted or its directory entry passes, then what is complete is *)
(* committed.  Each of the two leaves the operation Going, or finishes it, *)
(* or was refused by a storage call and left the image the same.           *)
(***************************************************************************)
EXTENDS SdfsImageLemmas

-----------------------------------------------------------------------------
(* The commits of write(). *)

(* With nothing pending, the commits of write() change nothing. *)
LEMMA CommitsNone ==
    ASSUME NEW d, NoPending(d)
    PROVE  Commits(d) = d
<1> DEFINE c == CommitEach("create", d, DOMAIN d.pendingCreates)
           a == CommitEach("append", c, DOMAIN c.pendingAppends)
<1>1. c = d
      BY CommitNone DEF NoPending
<1>2. a = d
      BY <1>1, CommitNone DEF NoPending
<1>3. CommitEach("replace", a, DOMAIN a.pendingReplacements) = d
      BY <1>2, CommitNone DEF NoPending
<1> QED
      BY <1>3 DEF Commits, CreateAll, ExtendAll, ReplaceAll

(* With a create pending they are commitCreate. *)
LEMMA CommitsCreate ==
    ASSUME NEW d, d.error = FALSE, NEW m \in Int, Only(d, {m}, {}, {}), NEW e, e = CommitCreate(d, m),
           DOMAIN e.pendingAppends = {}, DOMAIN e.pendingReplacements = {}
    PROVE  Commits(d) = e
<1> DEFINE c == CommitEach("create", d, DOMAIN d.pendingCreates)
           a == CommitEach("append", c, DOMAIN c.pendingAppends)
<1>1. c = e
      BY CommitOne, CommitIs DEF Only
<1>2. a = e
      BY <1>1, CommitNone
<1>3. CommitEach("replace", a, DOMAIN a.pendingReplacements) = e
      BY <1>2, CommitNone
<1> QED
      BY <1>3 DEF Commits, CreateAll, ExtendAll, ReplaceAll

(* With an append pending they are commitAppend. *)
LEMMA CommitsAppend ==
    ASSUME NEW d, d.error = FALSE, NEW m \in Int, Only(d, {}, {m}, {}), NEW e, e = CommitAppend(d, m),
           DOMAIN e.pendingReplacements = {}
    PROVE  Commits(d) = e
<1> DEFINE c == CommitEach("create", d, DOMAIN d.pendingCreates)
           a == CommitEach("append", c, DOMAIN c.pendingAppends)
<1>1. c = d
      BY CommitNone DEF Only
<1>2. a = e
      BY <1>1, CommitOne, CommitIs DEF Only
<1>3. CommitEach("replace", a, DOMAIN a.pendingReplacements) = e
      BY <1>2, CommitNone
<1> QED
      BY <1>3 DEF Commits, CreateAll, ExtendAll, ReplaceAll

(* With a replacement pending they are commitReplacement. *)
LEMMA CommitsReplace ==
    ASSUME NEW d, d.error = FALSE, NEW m \in Int, Only(d, {}, {}, {m})
    PROVE  Commits(d) = CommitReplacement(d, m)
<1> DEFINE c == CommitEach("create", d, DOMAIN d.pendingCreates)
           a == CommitEach("append", c, DOMAIN c.pendingAppends)
<1>1. c = d
      BY CommitNone DEF Only
<1>2. a = d
      BY <1>1, CommitNone DEF Only
<1>3. CommitEach("replace", a, DOMAIN a.pendingReplacements) = CommitReplacement(d, m)
      BY <1>2, CommitOne, CommitIs DEF Only
<1> QED
      BY <1>3 DEF Commits, CreateAll, ExtendAll, ReplaceAll

(* What the commits leave of the operation o. *)
Outcome(d, e, cat, o) ==
    /\ Going(e, cat, o) /\ e.directory = d.directory
    /\ e.error => d.io.fault > 0
    /\ ~e.error /\ o.todo = {} /\ o.phase = "rest" /\ o.kind \in Outputs => Committed(e, cat, o)

(* A commit that finished is an outcome of the operation. *)
LEMMA FinishedGoes ==
    ASSUME NEW d, NEW e, NEW cat, NEW o, Going(d, cat, o), o.kind \in Outputs, o.phase = "rest",
           d.directory[o.file.slot] = EntryOf(o.name, o.file), Finished(d, e, cat, o.name, o.file)
    PROVE  Outcome(d, e, cat, o) /\ Committed(e, cat, o)
<1> DEFINE f == o.file
           n == o.name
           C == Put(cat, n, f)
<1>1. /\ Catalogue(cat) /\ Plan(cat, o) /\ Around(d, cat, o)
      BY DEF Going
<1>2. /\ Image(e) /\ e.error = FALSE /\ e.directory = d.directory /\ NoPending(e)
      /\ Layout(e, C) /\ Reads(e, f) /\ \A m \in DOMAIN cat \ {n} : Reads(d, cat[m]) => Reads(e, cat[m])
      BY DEF Finished
<1>3. After(cat, o) = C
      BY DEF After, Outputs, Whole
<1>4. C[n] = f
      BY DEF Put
<1>5. AtRest(e, C, n)
      BY <1>2, <1>4 DEF AtRest
<1>6. Committed(e, cat, o)
      BY <1>2, <1>3, <1>5 DEF Committed
<1>7. Around(e, cat, o)
  <2>1. \A m \in DOMAIN cat \ {n} : AtRest(e, cat, m)
        BY <1>1, <1>2 DEF Around, AtRest
  <2>2. \A i \in 1 .. Slots : Vacant(e, i) <=> Vacant(d, i)
        BY <1>2 DEF Vacant
  <2> QED
        BY <2>1, <2>2, <1>1 DEF Around
<1>8. Going(e, cat, o)
      BY <1>1, <1>2, <1>6, <1>7 DEF Going
<1> QED
      BY <1>2, <1>6, <1>8 DEF Outcome

(* Going is about Same only. *)
LEMMA SameGoes ==
    ASSUME NEW d, NEW e, NEW cat, NEW o, Going(d, cat, o), Same(d, e)
    PROVE  Going(e, cat, o)
<1>1. /\ Catalogue(cat) /\ Plan(cat, o) /\ Around(d, cat, o) /\ (Underway(d, cat, o) \/ Committed(d, cat, o))
      BY DEF Going
<1>2. Underway(e, cat, o) \/ Committed(e, cat, o)
      BY <1>1, SameUnderway, SameCommitted
<1>3. \A n \in DOMAIN cat \ {o.name} : AtRest(e, cat, n)
      BY <1>1, SameRest DEF Around
<1>4. \A i \in 1 .. Slots : Vacant(d, i) => Vacant(e, i)
      BY SamePending
<1>5. Around(e, cat, o)
      BY <1>1, <1>3, <1>4 DEF Around
<1>6. Image(e)
      BY DEF Same
<1> QED
      BY <1>1, <1>2, <1>5, <1>6 DEF Going

(* A commit that was refused leaves the operation where it was. *)
LEMMA RefusedGoes ==
    ASSUME NEW d, NEW e, NEW cat, NEW o, Going(d, cat, o), Refused(d, e)
    PROVE  Outcome(d, e, cat, o)
<1>1. Same(d, e) /\ e.error = TRUE /\ d.io.fault > 0
      BY DEF Refused
<1>2. Going(e, cat, o) /\ e.directory = d.directory
      BY <1>1, SameGoes DEF Same
<1> QED
      BY <1>1, <1>2 DEF Outcome

(* A create under way waits for its directory entry, or for its sectors.   *)
LEMMA CreateGoes ==
    ASSUME NEW d, NEW cat, NEW o, Going(d, cat, o), Underway(d, cat, o), o.kind = "create"
    PROVE  \/ NoPending(d) /\ (o.todo = {} => o.phase # "rest")
           \/ /\ CreateStaged(d, cat, o.name, o.file) /\ Only(d, {o.file.maps[1]}, {}, {}) /\ o.phase = "rest"
              /\ Linked(d, Bare(o.file.maps[1]), o.file, o.todo)
              /\ d.directory[o.file.slot] = EntryOf(o.name, o.file)
<1> DEFINE f == o.file
           n == o.name
           m == f.maps[1]
<1>1. /\ Catalogue(cat) /\ Image(d) /\ Plan(cat, o) /\ Around(d, cat, o)
      BY DEF Going
<1>2. /\ o \in Ops /\ n \notin DOMAIN cat /\ f.host = n /\ Fits(cat, n, f)
      BY <1>1, PlanFacts
<1>3. Layout(d, cat) /\ Creating(d, o) /\ (o.phase = "rest" => Linked(d, Start(cat, o), f, o.todo))
      BY DEF Underway, Outputs, Whole
<1>4. Alone(d, f.slot, n)
      BY <1>1, AloneIs
<1>5. o.phase \in {"open", "empty", "rest"}
      BY <1>2 DEF Ops
<1>6. Start(cat, o) = Bare(m)
      BY DEF Start, Bare
<1>7. CASE o.phase # "rest"
      BY <1>7, <1>3, <1>5 DEF Creating
<1>8. CASE o.phase = "rest"
  <2>1. \/ NoPending(d) /\ Dir \in o.todo
        \/ /\ Only(d, {m}, {}, {}) /\ d.directory[f.slot] = EntryOf(n, f)
           /\ d.pendingCreates[m] = [name |-> n, length |-> Len(f.bytes)]
        BY <1>8, <1>3 DEF Creating
  <2>2. CASE NoPending(d) /\ Dir \in o.todo
        BY <2>2
  <2>3. CASE /\ Only(d, {m}, {}, {}) /\ d.directory[f.slot] = EntryOf(n, f)
             /\ d.pendingCreates[m] = [name |-> n, length |-> Len(f.bytes)]
    <3>1. CreateStaged(d, cat, n, f)
          BY <2>3, <1>1, <1>2, <1>3, <1>4 DEF CreateStaged, Only
    <3> QED
          BY <3>1, <2>3, <1>3, <1>6, <1>8
  <2> QED
        BY <2>1, <2>2, <2>3
<1> QED
      BY <1>7, <1>8

(* The commits of write() during a create. *)
LEMMA CreateOutcome ==
    ASSUME SdfsGuest, NEW d, NEW cat, NEW o, Going(d, cat, o), Underway(d, cat, o), o.kind = "create",
           d.error = FALSE
    PROVE  Outcome(d, Commits(d), cat, o)
<1> DEFINE f == o.file
           n == o.name
           m == f.maps[1]
           e == CommitCreate(d, m)
<1>1. CASE NoPending(d) /\ (o.todo = {} => o.phase # "rest")
      BY <1>1, CommitsNone DEF Outcome
<1>2. CASE /\ CreateStaged(d, cat, n, f) /\ Only(d, {m}, {}, {}) /\ o.phase = "rest"
           /\ Linked(d, Bare(m), f, o.todo) /\ d.directory[f.slot] = EntryOf(n, f)
  <2>1. Sound(f)
        BY <1>2 DEF CreateStaged, Fits
  <2>2. m \in Int /\ Len(f.data) \in Nat \ {0} /\ f.data \in Seq(Sectors)
        BY <2>1, SoundFacts DEF Sectors
  <2>3. Reads(d, Bare(m)) \/ Reads(d, f) \/ Gap(d, Bare(m), f)
        BY <1>2 DEF Linked
  <2>4. o.todo = {} => Reads(d, f) /\ Elems(f.data) \subseteq DOMAIN d.pendingSectorWrites
    <3> SUFFICES ASSUME o.todo = {} PROVE Reads(d, f) /\ Elems(f.data) \subseteq DOMAIN d.pendingSectorWrites
          OBVIOUS
    <3>1. Len(Bare(m).data) = 0
          BY DEF Bare
    <3>5. ~Gap(d, Bare(m), f)
      <4> HIDE DEF f
      <4> QED
          BY <1>2, GapWaits
    <3>2. Reads(d, f)
          BY <1>2, <2>2, <3>1, <3>5 DEF Linked
    <3>3. \A k \in 1 .. Len(f.data) : f.data[k] \in DOMAIN d.pendingSectorWrites
          BY <1>2, <2>2, <3>1 DEF Linked
    <3>4. \A x \in Elems(f.data) : \E k \in 1 .. Len(f.data) : f.data[k] = x
          BY <2>1, SectorsAt
    <3> QED
          BY <3>2, <3>3, <3>4
  <2>5. CASE e = d /\ o.todo # {}
    <3>1. Commits(d) = d
          BY <2>5, <1>2, <2>2, CommitsCreate DEF Only
    <3> QED
          BY <3>1, <2>5 DEF Outcome
  <2>6. CASE Reads(d, f) /\ Elems(f.data) \subseteq DOMAIN d.pendingSectorWrites
    <3>1. Refused(d, e) \/ Finished(d, e, cat, n, f)
          BY <2>6, <1>2, CreateCommits
    <3>2. DOMAIN e.pendingAppends = {} /\ DOMAIN e.pendingReplacements = {}
          BY <3>1, <1>2 DEF Refused, Finished, Same, Only, NoPending
    <3>3. Commits(d) = e
          BY <3>2, <1>2, <2>2, CommitsCreate
    <3>4. o.kind \in Outputs
          BY DEF Outputs, Whole
    <3>5. Outcome(d, e, cat, o)
          BY <3>1, <3>4, <1>2, FinishedGoes, RefusedGoes
    <3> QED
          BY <3>3, <3>5
  <2>7. CASE Reads(d, f) /\ ~(Elems(f.data) \subseteq DOMAIN d.pendingSectorWrites)
    <3>1. e = d
          BY <2>7, <1>2, CreateSteps
    <3> QED
          BY <3>1, <2>4, <2>5, <2>7
  <2>8. CASE ~Reads(d, f)
    <3>1. e = d
          BY <2>8, <2>3, <1>2, CreateWaits
    <3> QED
          BY <3>1, <2>4, <2>5, <2>8
  <2> QED
        BY <2>6, <2>7, <2>8
<1> QED
      BY <1>1, <1>2, CreateGoes

(* An append under way waits for its directory entry, or for its sectors.  *)
AppendingAt(d, cat, o, i) ==
    /\ AppendStaged(d, cat, o, i) /\ Only(d, {}, {o.file.maps[1]}, {})
    /\ Linked(d, cat[o.name], o.file, o.todo)
    /\ d.directory[o.file.slot] = EntryOf(o.name, o.file)

(* An append is not noted yet, or noted with its file's number. *)
LEMMA AppendGoes ==
    ASSUME NEW d, NEW cat, NEW o, Going(d, cat, o), Underway(d, cat, o), o.kind = "append"
    PROVE  \/ NoPending(d) /\ o.todo # {}
           \/ \E i \in DOMAIN d.files : AppendingAt(d, cat, o, i)
<1> DEFINE f == o.file
           n == o.name
           m == f.maps[1]
           old == cat[n]
<1>1. /\ Catalogue(cat) /\ Image(d) /\ Plan(cat, o) /\ Around(d, cat, o)
      BY DEF Going
<1>2. /\ o \in Ops /\ n \in DOMAIN cat /\ old.host = f.host /\ Fits(cat, n, f)
      BY <1>1, PlanFacts
<1>3. Begins(old, f) /\ Len(old.bytes) < Len(f.bytes) /\ o.phase = "rest"
      BY <1>1 DEF Plan, Whole
<1>4. Layout(d, cat) /\ Appending(d, old, o) /\ Linked(d, Start(cat, o), f, o.todo)
      BY <1>3 DEF Underway, Outputs
<1>5. Alone(d, f.slot, n)
      BY <1>1, AloneIs
<1>6. Start(cat, o) = old
      BY DEF Start
<1>7. \/ NoPending(d) /\ Dir \in o.todo
      \/ /\ Only(d, {}, {m}, {}) /\ d.directory[f.slot] = EntryOf(n, f)
         /\ \E i \in DOMAIN d.files, b \in BOOLEAN :
               d.files[i] = Record(n, old) /\ d.pendingAppends[m] = PendingAppend(old, o, i, b)
      BY <1>4 DEF Appending
<1>8. ASSUME Only(d, {}, {m}, {}), d.directory[f.slot] = EntryOf(n, f),
             NEW i \in DOMAIN d.files, NEW b \in BOOLEAN,
             d.files[i] = Record(n, old), d.pendingAppends[m] = PendingAppend(old, o, i, b)
      PROVE  AppendingAt(d, cat, o, i)
  <2>1. AppendNoted(d, old, o, i)
        BY <1>8 DEF AppendNoted
  <2>2. AppendStaged(d, cat, o, i)
        BY <2>1, <1>1, <1>2, <1>3, <1>4, <1>5, <1>8 DEF AppendStaged, Only
  <2> QED
        BY <2>2, <1>4, <1>6, <1>8 DEF AppendingAt
<1> QED
      BY <1>7, <1>8

(* The image of an append that waits. *)
LEMMA StillGoes ==
    ASSUME NEW d, NEW e, NEW cat, NEW o, NEW i, Going(d, cat, o), Underway(d, cat, o), o.kind = "append",
           AppendingAt(d, cat, o, i), StillAppending(d, e, cat[o.name], o, i)
    PROVE  Going(e, cat, o) /\ Underway(e, cat, o) /\ e.directory = d.directory
<1> DEFINE f == o.file
           n == o.name
           m == f.maps[1]
           old == cat[n]
<1>1. /\ Catalogue(cat) /\ Plan(cat, o) /\ Around(d, cat, o)
      BY DEF Going
<1>2. /\ Image(e) /\ Kept(d, e) /\ e.directory = d.directory /\ e.pendingCreates = d.pendingCreates
      /\ e.pendingReplacements = d.pendingReplacements
      /\ DOMAIN e.pendingAppends = {m} /\ AppendNoted(e, old, o, i)
      BY DEF StillAppending
<1>3. i \in DOMAIN d.files /\ d.files[i] = Record(n, old) /\ Only(d, {}, {m}, {})
      /\ d.directory[f.slot] = EntryOf(n, f)
      BY DEF AppendingAt, AppendStaged
<1>4. Layout(d, cat) /\ Appending(d, old, o) /\ (o.phase = "rest" => Linked(d, Start(cat, o), f, o.todo))
      BY DEF Underway, Outputs
<1>5. Layout(e, cat) /\ (o.phase = "rest" => Linked(e, Start(cat, o), f, o.todo))
      BY <1>2, <1>4, KeptIs
<1>6. e.files = d.files /\ e.pendingSectorWrites = d.pendingSectorWrites
      BY <1>2 DEF Kept
<1>7. Only(e, {}, {m}, {})
      BY <1>2, <1>3 DEF Only
<1>8. \E b \in BOOLEAN : e.pendingAppends[m] = PendingAppend(old, o, i, b)
      BY <1>2 DEF AppendNoted
<1>9. Appending(e, old, o)
  <2>1. Len(old.bytes) % SectorSize # 0 /\ old.data[Len(old.data)] \notin o.todo =>
                old.data[Len(old.data)] \in DOMAIN e.pendingSectorWrites
        BY <1>4, <1>6 DEF Appending
  <2>2. i \in DOMAIN e.files /\ e.files[i] = Record(n, old) /\ e.directory[f.slot] = EntryOf(n, f)
        BY <1>2, <1>3, <1>6
  <2> QED
        BY <2>1, <2>2, <1>7, <1>8 DEF Appending
<1>10. Underway(e, cat, o)
      BY <1>5, <1>9 DEF Underway, Outputs
<1>11. Around(e, cat, o)
  <2>1. \A k \in DOMAIN cat \ {n} : AtRest(e, cat, k)
        BY <1>1, <1>2, KeptIs DEF Around, AtRest
  <2>2. \A k \in 1 .. Slots : Vacant(e, k) <=> Vacant(d, k)
        BY <1>2 DEF Vacant
  <2> QED
        BY <2>1, <2>2, <1>1 DEF Around
<1> QED
      BY <1>1, <1>2, <1>10, <1>11 DEF Going

(* commitAppend during an append. *)
LEMMA AppendOutcome ==
    ASSUME NEW d, NEW cat, NEW o, Going(d, cat, o), Underway(d, cat, o), o.kind = "append", d.error = FALSE,
           NEW i \in DOMAIN d.files, AppendingAt(d, cat, o, i)
    PROVE  LET e == CommitAppend(d, o.file.maps[1])
           IN  Outcome(d, e, cat, o) /\ DOMAIN e.pendingReplacements = {}
<1> DEFINE f == o.file
           n == o.name
           m == f.maps[1]
           old == cat[n]
           e == CommitAppend(d, m)
<1>1. /\ AppendStaged(d, cat, o, i) /\ Only(d, {}, {m}, {}) /\ Linked(d, old, f, o.todo)
      /\ d.directory[f.slot] = EntryOf(n, f)
      BY DEF AppendingAt
<1>2. Sound(f) /\ Sound(old) /\ Begins(old, f) /\ Catalogue(cat) /\ n \in DOMAIN cat
      BY <1>1 DEF AppendStaged, Fits, Catalogue
<1>3. Plan(cat, o) /\ Image(d)
      BY DEF Going
<1>4. o.phase = "rest" /\ o.kind \in Outputs
      BY <1>3 DEF Plan, Whole, Outputs
<1>5. Len(old.data) \in Nat /\ Len(f.data) \in Nat
      BY <1>2, SoundFacts
<1>6. Reads(d, old) \/ Reads(d, f) \/ Gap(d, old, f)
      BY <1>1 DEF Linked
<1>7. ~Reads(d, f) => (Gap(d, old, f) \/ (Reads(d, old) /\ Len(old.data) < Len(f.data))) /\ o.todo # {}
  <2> SUFFICES ASSUME ~Reads(d, f)
               PROVE  (Gap(d, old, f) \/ (Reads(d, old) /\ Len(old.data) < Len(f.data))) /\ o.todo # {}
        OBVIOUS
  <2>1. CASE Gap(d, old, f)
    <3> HIDE DEF f, old
    <3> QED
        BY <1>1, <2>1, GapWaits
  <2>2. CASE ~Gap(d, old, f)
    <3>1. Reads(d, old)
          BY <1>6, <2>2
    <3>2. Len(old.data) < Len(f.data)
      <4> SUFFICES ASSUME ~(Len(old.data) < Len(f.data)) PROVE FALSE
          OBVIOUS
      <4>1. old.data = f.data /\ old.maps = f.maps
          BY <1>2, SameSectors
      <4>2. Reads(d, f)
          BY <3>1, <4>1 DEF Reads
      <4> QED
          BY <4>2
    <3> QED
        BY <2>2, <3>1, <3>2, <1>1 DEF Linked
  <2> QED
        BY <2>1, <2>2
<1>8. ASSUME o.todo = {}
      PROVE  Elems(NewData(old, f)) \cup Elems(TailOf(old)) \subseteq DOMAIN d.pendingSectorWrites
  <2>1. \A k \in Len(old.data) + 1 .. Len(f.data) : f.data[k] \in DOMAIN d.pendingSectorWrites
        BY <1>8, <1>1 DEF Linked
  <2>2. \A x \in Elems(NewData(old, f)) : \E k \in Len(old.data) + 1 .. Len(f.data) : f.data[k] = x
        BY <1>2, Additions
  <2>3. Appending(d, old, o)
        BY DEF Underway
  <2>4. Len(old.bytes) % SectorSize # 0 => old.data[Len(old.data)] \in DOMAIN d.pendingSectorWrites
        BY <2>3, <1>8 DEF Appending
  <2>5. Elems(TailOf(old)) \subseteq DOMAIN d.pendingSectorWrites
    <3>1. CASE Len(old.bytes) % SectorSize = 0
          BY <3>1 DEF TailOf, Elems
    <3>2. CASE Len(old.bytes) % SectorSize # 0
          BY <3>2, <2>4 DEF TailOf, Elems
    <3> QED
          BY <3>1, <3>2
  <2> QED
        BY <2>1, <2>2, <2>5
<1>9. CASE ~Reads(d, f)
  <2>1. e = d
        BY <1>9, <1>7, <1>1, AppendWaits
  <2> QED
        BY <2>1, <1>7, <1>9, <1>1 DEF Outcome, Only
<1>10. CASE Reads(d, f)
  <2>1. \/ StillAppending(d, e, old, o, i) /\ e.error = TRUE /\ d.io.fault > 0
        \/ /\ StillAppending(d, e, old, o, i) /\ e.error = FALSE /\ e.io = d.io
           /\ ~(Elems(NewData(old, f)) \cup Elems(TailOf(old)) \subseteq DOMAIN d.pendingSectorWrites)
        \/ Finished(d, e, cat, n, f)
        BY <1>10, <1>1, AppendCommits
  <2>2. CASE StillAppending(d, e, old, o, i)
    <3>1. Going(e, cat, o) /\ e.directory = d.directory
          BY <2>2, StillGoes
    <3>2. DOMAIN e.pendingReplacements = {}
          BY <2>2, <1>1 DEF StillAppending, Only
    <3>3. e.error => d.io.fault > 0
          BY <2>1 DEF Finished
    <3>4. ~e.error => o.todo # {} \/ Finished(d, e, cat, n, f)
          BY <2>1, <1>8
    <3>5. Finished(d, e, cat, n, f) => Outcome(d, e, cat, o)
          BY <1>1, <1>4, FinishedGoes
    <3> QED
          BY <3>1, <3>2, <3>3, <3>4, <3>5 DEF Outcome
  <2>3. CASE Finished(d, e, cat, n, f)
    <3>1. DOMAIN e.pendingReplacements = {}
          BY <2>3 DEF Finished, NoPending
    <3> QED
          BY <3>1, <2>3, <1>1, <1>4, FinishedGoes
  <2> QED
        BY <2>1, <2>2, <2>3
<1> QED
      BY <1>9, <1>10

(* The commits of write() during an append. *)
LEMMA AppendCommitsOutcome ==
    ASSUME NEW d, NEW cat, NEW o, Going(d, cat, o), Underway(d, cat, o), o.kind = "append", d.error = FALSE
    PROVE  Outcome(d, Commits(d), cat, o)
<1>1. CASE NoPending(d) /\ o.todo # {}
      BY <1>1, CommitsNone DEF Outcome
<1>2. ASSUME NEW i \in DOMAIN d.files, AppendingAt(d, cat, o, i)
      PROVE  Outcome(d, Commits(d), cat, o)
  <2> DEFINE m == o.file.maps[1]
             e == CommitAppend(d, m)
  <2>1. Outcome(d, e, cat, o) /\ DOMAIN e.pendingReplacements = {}
        BY <1>2, AppendOutcome
  <2>2. Only(d, {}, {m}, {})
        BY <1>2 DEF AppendingAt
  <2>3. m \in Int
        BY <1>2, SoundFacts DEF AppendingAt, AppendStaged, Fits, Sectors
  <2>4. Commits(d) = e
        BY <2>1, <2>2, <2>3, CommitsAppend
  <2> QED
        BY <2>1, <2>4
<1> QED
      BY <1>1, <1>2, AppendGoes

(* Where a replacement stands. *)
LEMMA ReplaceGoes ==
    ASSUME NEW d, NEW cat, NEW o, Going(d, cat, o), Underway(d, cat, o), o.kind = "replace"
    PROVE  \/ NoPending(d) /\ o.phase = "open"
           \/ \E i \in DOMAIN d.files : ReplaceStaged(d, cat, o, i) /\ Only(d, {}, {}, {o.file.maps[1]})
                /\ \/ d.directory[o.file.slot] = Opened(o.name, o.file) /\ (o.todo = {} => o.phase # "rest")
                   \/ d.directory[o.file.slot] = EntryOf(o.name, o.file) /\ o.phase = "rest"
                      /\ Linked(d, Bare(o.file.maps[1]), o.file, o.todo)
<1> DEFINE f == o.file
           n == o.name
           m == f.maps[1]
           old == cat[n]
<1>1. /\ Catalogue(cat) /\ Image(d) /\ Plan(cat, o) /\ Around(d, cat, o)
      BY DEF Going
<1>2. /\ o \in Ops /\ n \in DOMAIN cat /\ old.host = f.host /\ Fits(cat, n, f)
      BY <1>1, PlanFacts
<1>3. Begins(f, old)
      BY <1>1 DEF Plan
<1>4. Layout(d, cat) /\ Replacing(d, old, o) /\ (o.phase = "rest" => Linked(d, Start(cat, o), f, o.todo))
      BY DEF Underway, Outputs, Whole
<1>5. Alone(d, f.slot, n)
      BY <1>1, AloneIs
<1>6. Start(cat, o) = Bare(m)
      BY DEF Start, Bare
<1>7. o.phase \in {"open", "empty", "rest"}
      BY <1>2 DEF Ops
<1>8. CASE o.phase = "open"
      BY <1>8, <1>4 DEF Replacing
<1>9. CASE o.phase # "open"
  <2>1. /\ Only(d, {}, {}, {m})
        /\ \E i \in DOMAIN d.files : d.files[i] = Record(n, old)
               /\ d.pendingReplacements[m] = [file |-> i, name |-> old.host]
        BY <1>9, <1>7, <1>4 DEF Replacing
  <2>2. PICK i \in DOMAIN d.files : d.files[i] = Record(n, old)
               /\ d.pendingReplacements[m] = [file |-> i, name |-> old.host]
        BY <2>1
  <2>3. ReplaceStaged(d, cat, o, i)
        BY <2>1, <2>2, <1>1, <1>2, <1>3, <1>4, <1>5 DEF ReplaceStaged, Only
  <2>4. \/ d.directory[f.slot] = Opened(n, f) /\ (o.todo = {} => o.phase # "rest")
        \/ d.directory[f.slot] = EntryOf(n, f) /\ o.phase = "rest"
        BY <1>9, <1>7, <1>4 DEF Replacing
  <2> QED
        BY <2>1, <2>3, <2>4, <1>4, <1>6
<1> QED
      BY <1>8, <1>9

(* The commits of write() during a replacement. *)
LEMMA ReplaceOutcome ==
    ASSUME NEW d, NEW cat, NEW o, Going(d, cat, o), Underway(d, cat, o), o.kind = "replace", d.error = FALSE
    PROVE  Outcome(d, Commits(d), cat, o)
<1> DEFINE f == o.file
           n == o.name
           m == f.maps[1]
           e == CommitReplacement(d, m)
<1>1. CASE NoPending(d) /\ o.phase = "open"
      BY <1>1, CommitsNone DEF Outcome
<1>2. ASSUME NEW i \in DOMAIN d.files, ReplaceStaged(d, cat, o, i), Only(d, {}, {}, {m})
      PROVE  Commits(d) = e
  <2>1. m \in Int
        BY <1>2, SoundFacts DEF ReplaceStaged, Fits, Sectors
  <2> QED
        BY <1>2, <2>1, CommitsReplace
<1>3. ASSUME NEW i \in DOMAIN d.files, ReplaceStaged(d, cat, o, i), Only(d, {}, {}, {m}),
             d.directory[f.slot] = Opened(n, f), o.todo = {} => o.phase # "rest"
      PROVE  Outcome(d, Commits(d), cat, o)
  <2>1. e = d
        BY <1>3, ReplaceOpened
  <2>2. Commits(d) = e
        BY <1>2, <1>3
  <2> QED
        BY <2>1, <2>2, <1>3 DEF Outcome
<1>4. ASSUME NEW i \in DOMAIN d.files, ReplaceStaged(d, cat, o, i), Only(d, {}, {}, {m}),
             d.directory[f.slot] = EntryOf(n, f), o.phase = "rest", Linked(d, Bare(m), f, o.todo)
      PROVE  Outcome(d, Commits(d), cat, o)
  <2>1. Sound(f)
        BY <1>4 DEF ReplaceStaged, Fits
  <2>2. Len(f.data) \in Nat \ {0}
        BY <2>1, SoundFacts
  <2>9. ~Gap(d, Bare(m), f)
    <3>1. Len(Bare(m).maps) \in Nat
          BY DEF Bare
    <3> QED
          BY <1>4, <3>1, ReplaceNoGap
  <2>3. Reads(d, Bare(m)) \/ Reads(d, f)
        BY <1>4, <2>9 DEF Linked
  <2>4. o.todo = {} => Reads(d, f) /\ Elems(f.data) \subseteq DOMAIN d.pendingSectorWrites
    <3> SUFFICES ASSUME o.todo = {} PROVE Reads(d, f) /\ Elems(f.data) \subseteq DOMAIN d.pendingSectorWrites
          OBVIOUS
    <3>1. Len(Bare(m).data) = 0
          BY DEF Bare
    <3>2. Reads(d, f)
          BY <1>4, <2>2, <2>9, <3>1 DEF Linked
    <3>3. \A k \in 1 .. Len(f.data) : f.data[k] \in DOMAIN d.pendingSectorWrites
          BY <1>4, <2>2, <3>1 DEF Linked
    <3>4. \A x \in Elems(f.data) : \E k \in 1 .. Len(f.data) : f.data[k] = x
          BY <2>1, SectorsAt
    <3> QED
          BY <3>2, <3>3, <3>4
  <2>5. Commits(d) = e
        BY <1>2, <1>4
  <2>6. e = d /\ o.todo # {} => Outcome(d, e, cat, o)
        BY <1>4 DEF Outcome
  <2>7. CASE Reads(d, f)
    <3>1. \/ e = d /\ ~(Elems(f.data) \subseteq DOMAIN d.pendingSectorWrites)
          \/ Refused(d, e)
          \/ Finished(d, e, cat, n, f)
          BY <2>7, <1>4, ReplaceCommits
    <3>2. o.kind \in Outputs
          BY DEF Outputs, Whole
    <3>3. Refused(d, e) \/ Finished(d, e, cat, n, f) => Outcome(d, e, cat, o)
          BY <3>2, <1>4, FinishedGoes, RefusedGoes
    <3> QED
          BY <3>1, <3>3, <2>4, <2>5, <2>6
  <2>8. CASE ~Reads(d, f)
    <3>1. e = d
          BY <2>8, <2>3, <1>4, ReplaceWaits
    <3> QED
          BY <3>1, <2>4, <2>5, <2>6, <2>8
  <2> QED
        BY <2>7, <2>8
<1> QED
      BY <1>1, <1>3, <1>4, ReplaceGoes

(* The commits at the end of a write: what an operation needs is still     *)
(* there, and all its sectors written complete it.                         *)
LEMMA CommitsGoing ==
    ASSUME SdfsGuest, NEW d, NEW cat, NEW o, Going(d, cat, o), d.error = FALSE
    PROVE  Outcome(d, Commits(d), cat, o)
<1>1. Underway(d, cat, o) \/ Committed(d, cat, o)
      BY DEF Going
<1>2. CASE Committed(d, cat, o)
  <2>1. Commits(d) = d
        BY <1>2, CommitsNone DEF Committed
  <2> QED
        BY <2>1, <1>2 DEF Outcome
<1>3. CASE Underway(d, cat, o) /\ o.kind = "create"
      BY <1>3, CreateOutcome
<1>4. CASE Underway(d, cat, o) /\ o.kind = "append"
      BY <1>4, AppendCommitsOutcome
<1>5. CASE Underway(d, cat, o) /\ o.kind = "replace"
      BY <1>5, ReplaceOutcome
<1>6. CASE Underway(d, cat, o) /\ o.kind \notin {"create", "append", "replace"}
  <2>1. NoPending(d) /\ o.kind \notin Outputs
        BY <1>6 DEF Underway, Outputs, Whole
  <2>2. Commits(d) = d
        BY <2>1, CommitsNone
  <2> QED
        BY <2>1, <2>2 DEF Outcome
<1> QED
      BY <1>1, <1>2, <1>3, <1>4, <1>5, <1>6

-----------------------------------------------------------------------------
(* A write of the directory. *)

(* A write of the directory that changes one entry, pass by pass. *)
Passing(g, b, a, s, r, p, q, t) ==
    /\ s \in 1 .. Slots /\ \A i \in 1 .. Slots : i # s => b[i] = a[i]
    /\ g.error = FALSE /\ r.error = FALSE /\ p.error = FALSE /\ q.error = FALSE
    /\ r = CommitRename(g, b[s], a[s]) /\ p = BeginReplacement(r, b[s], a[s])
    /\ q = StageHypothesis(p, b[s], a[s]) /\ t = CommitDelete(q, b[s], a[s])

(* A directory write with one entry changed: its four passes, and the      *)
(* appends that wait.                                                      *)
LEMMA DirectoryIs ==
    ASSUME NEW g, NEW b, NEW a, NEW s, NEW r, NEW p, NEW q, NEW t, Passing(g, b, a, s, r, p, q, t)
    PROVE  DirectoryWrite(g, b, a) = CommitEach("append", t, Waiting(t))
<1> /\ s \in 1 .. Slots /\ \A i \in 1 .. Slots : i # s => b[i] = a[i]
    /\ g.error = FALSE /\ r.error = FALSE /\ p.error = FALSE /\ q.error = FALSE
    /\ r = CommitRename(g, b[s], a[s]) /\ p = BeginReplacement(r, b[s], a[s])
    /\ q = StageHypothesis(p, b[s], a[s]) /\ t = CommitDelete(q, b[s], a[s])
      BY DEF Passing
<1>0. "rename" \in Passes /\ "open" \in Passes /\ "stage" \in Passes /\ "delete" \in Passes
      BY DEF Passes
<1>1. Pass("rename", g, b, a) = r
  <2>0. OnePlace("rename", g, b, a, s)
        BY <1>0 DEF OnePlace
  <2>1. Pass("rename", g, b, a) = Change("rename", g, b[s], a[s])
        BY <2>0, OnePass
  <2>2. Change("rename", g, b[s], a[s]) = r
        BY ChangeIs
  <2> QED
        BY <2>1, <2>2
<1>2. Pass("open", r, b, a) = p
  <2>0. OnePlace("open", r, b, a, s)
        BY <1>0 DEF OnePlace
  <2>1. Pass("open", r, b, a) = Change("open", r, b[s], a[s])
        BY <2>0, OnePass
  <2>2. Change("open", r, b[s], a[s]) = p
        BY ChangeIs
  <2> QED
        BY <2>1, <2>2
<1>3. Pass("stage", p, b, a) = q
  <2>0. OnePlace("stage", p, b, a, s)
        BY <1>0 DEF OnePlace
  <2>1. Pass("stage", p, b, a) = Change("stage", p, b[s], a[s])
        BY <2>0, OnePass
  <2>2. Change("stage", p, b[s], a[s]) = q
        BY ChangeIs
  <2> QED
        BY <2>1, <2>2
<1>4. Pass("delete", q, b, a) = t
  <2>0. OnePlace("delete", q, b, a, s)
        BY <1>0 DEF OnePlace
  <2>1. Pass("delete", q, b, a) = Change("delete", q, b[s], a[s])
        BY <2>0, OnePass
  <2>2. Change("delete", q, b[s], a[s]) = t
        BY ChangeIs
  <2> QED
        BY <2>1, <2>2
<1> QED
      BY <1>1, <1>2, <1>3, <1>4 DEF DirectoryWrite, ExtendWaiting

(* The image with another entry in its directory. *)
Entered(d, s, a) == [d EXCEPT !.directory = [d.directory EXCEPT ![s] = a]]

(* A directory entry leaves the rest of the image. *)
LEMMA EnteredIs ==
    ASSUME NEW d, Image(d), NEW s \in 1 .. Slots, NEW a
    PROVE  LET g == Entered(d, s, a)
           IN  /\ Image(g) /\ Kept(d, g) /\ g.pendingCreates = d.pendingCreates
               /\ g.pendingAppends = d.pendingAppends /\ g.pendingReplacements = d.pendingReplacements
               /\ g.io = d.io /\ g.error = d.error /\ g.directory[s] = a
               /\ \A i \in 1 .. Slots : i # s => g.directory[i] = d.directory[i]
<1> DEFINE D == [d.directory EXCEPT ![s] = a]
           g == Entered(d, s, a)
<1>1. DOMAIN d.directory = 1 .. Slots /\ d.files \in Seq(FileRecs) /\ DOMAIN d.pendingSectorWrites \subseteq Sectors
      /\ d.error \in BOOLEAN
      BY DEF Image
<1>2. DOMAIN D = 1 .. Slots /\ D[s] = a /\ \A i \in 1 .. Slots : i # s => D[i] = d.directory[i]
      BY <1>1
<1>3. Storage(d.io, DOMAIN d.io.host)
      BY ImageStorage
<1> HIDE DEF D
<1>4. g = Made(d.files, d.allocated, d.metadata, d.dataRefs, D, d.pendingSectorWrites, d.pendingCreates,
               d.pendingAppends, d.pendingReplacements, d.io, d.error)
  <2>1. g = [d EXCEPT !.directory = D]
        BY DEF Entered, D
  <2> HIDE DEF g
  <2> QED
        BY <2>1, EditDirectory
<1> HIDE DEF g
<1>5. /\ g.files = d.files /\ g.allocated = d.allocated /\ g.metadata = d.metadata /\ g.dataRefs = d.dataRefs
      /\ g.directory = D /\ g.pendingSectorWrites = d.pendingSectorWrites /\ g.pendingCreates = d.pendingCreates
      /\ g.pendingAppends = d.pendingAppends /\ g.pendingReplacements = d.pendingReplacements /\ g.io = d.io
      /\ g.error = d.error
      BY <1>4, MadeIs
<1>6. Image(g)
      BY <1>1, <1>2, <1>3, <1>4, MadeIs
<1>7. Kept(d, g)
      BY <1>5 DEF Kept
<1> QED
      BY <1>2, <1>5, <1>6, <1>7 DEF g

(* e is d, entry by entry. *)
Alike(d, e) ==
    /\ Image(e) /\ Kept(d, e) /\ e.pendingCreates = d.pendingCreates
    /\ e.pendingAppends = d.pendingAppends /\ e.pendingReplacements = d.pendingReplacements
    /\ \A i \in 1 .. Slots : e.directory[i] = d.directory[i]

(* Going is about what is Alike only. *)
LEMMA AlikeGoes ==
    ASSUME NEW d, NEW e, NEW cat, NEW o, Going(d, cat, o), Alike(d, e)
    PROVE  /\ Going(e, cat, o) /\ (Underway(d, cat, o) => Underway(e, cat, o))
           /\ (Committed(d, cat, o) => Committed(e, cat, o))
<1> DEFINE f == o.file
           n == o.name
           old == cat[n]
<1>1. /\ Catalogue(cat) /\ Plan(cat, o) /\ Around(d, cat, o) /\ (Underway(d, cat, o) \/ Committed(d, cat, o))
      BY DEF Going
<1>2. f.slot \in 1 .. Slots /\ (\A k \in DOMAIN cat : cat[k].slot \in 1 .. Slots)
      BY <1>1, PlanFacts, SoundFacts
<1>3. /\ \A C : Layout(d, C) => Layout(e, C)
      /\ \A k : Reads(d, k) => Reads(e, k)
      /\ \A s, k, todo : Linked(d, s, k, todo) => Linked(e, s, k, todo)
      BY KeptIs DEF Alike
<1>4. /\ e.files = d.files /\ e.pendingSectorWrites = d.pendingSectorWrites /\ e.pendingCreates = d.pendingCreates
      /\ e.pendingAppends = d.pendingAppends /\ e.pendingReplacements = d.pendingReplacements
      /\ e.directory[f.slot] = d.directory[f.slot] /\ Image(e)
      /\ \A i \in 1 .. Slots : e.directory[i] = d.directory[i]
      BY <1>2 DEF Alike, Kept
<1>5. /\ NoPending(d) => NoPending(e)
      /\ \A c, a, r : Only(d, c, a, r) => Only(e, c, a, r)
      /\ \A i \in 1 .. Slots : Vacant(d, i) <=> Vacant(e, i)
      BY <1>4 DEF NoPending, Only, Vacant
<1>6. \A k \in DOMAIN cat : AtRest(d, cat, k) => AtRest(e, cat, k)
      BY <1>2, <1>3, <1>4 DEF AtRest
<1>7. Around(e, cat, o)
      BY <1>1, <1>5, <1>6 DEF Around
<1>8. ASSUME Underway(d, cat, o) PROVE Underway(e, cat, o)
  <2>1. Layout(e, cat) /\ (o.kind \in Outputs /\ o.phase = "rest" => Linked(e, Start(cat, o), f, o.todo))
        BY <1>3, <1>8 DEF Underway
  <2>2. CASE o.kind = "create"
    <3>1. Creating(d, o)
          BY <2>2, <1>8 DEF Underway
    <3>2. Creating(e, o)
          BY <3>1, <1>2, <1>4, <1>5 DEF Creating
    <3> QED
          BY <2>1, <2>2, <3>2 DEF Underway
  <2>3. CASE o.kind = "append"
    <3>1. Appending(d, old, o)
          BY <2>3, <1>8 DEF Underway
    <3>2. Appending(e, old, o)
          BY <3>1, <1>4, <1>5 DEF Appending
    <3> QED
          BY <2>1, <2>3, <3>2 DEF Underway
  <2>4. CASE o.kind = "replace"
    <3>1. Replacing(d, old, o)
          BY <2>4, <1>8 DEF Underway
    <3>2. Replacing(e, old, o)
          BY <3>1, <1>3, <1>4, <1>5 DEF Replacing
    <3> QED
          BY <2>1, <2>4, <3>2 DEF Underway
  <2>5. CASE o.kind \notin {"create", "append", "replace"}
    <3>1. NoPending(d) /\ AtRest(d, cat, n)
          BY <2>5, <1>8 DEF Underway
    <3>2. n \in DOMAIN cat
          BY <2>5, <1>1, PlanFacts
    <3>3. NoPending(e) /\ AtRest(e, cat, n)
          BY <3>1, <3>2, <1>5, <1>6
    <3> QED
          BY <2>1, <2>5, <3>3 DEF Underway
  <2> QED
        BY <2>2, <2>3, <2>4, <2>5
<1>9. ASSUME Committed(d, cat, o) PROVE Committed(e, cat, o)
  <2>1. After(cat, o) = Put(cat, n, f)
        BY <1>9 DEF Committed, After, Outputs, Whole
  <2>2. After(cat, o)[n] = f
        BY <2>1 DEF Put
  <2>3. AtRest(e, After(cat, o), n)
        BY <2>2, <1>9, <1>3, <1>4 DEF Committed, AtRest
  <2> QED
        BY <2>3, <1>9, <1>3, <1>5 DEF Committed
<1> QED
      BY <1>1, <1>4, <1>7, <1>8, <1>9 DEF Going

(* The directory is none of the sectors of a file. *)
LEMMA LinkedDir ==
    ASSUME NEW d, NEW s, Len(s.maps) \in Nat \ {0}, Len(s.data) \in Nat, NEW f, Sound(f), Len(s.maps) <= Len(f.maps),
           NEW todo, Linked(d, s, f, todo)
    PROVE  Linked(d, s, f, todo \ {Dir})
<1>1. \A i \in 1 .. Len(f.maps) : f.maps[i] # Dir
      BY SoundFacts, ElemsAre
<1>2. \A k \in 1 .. Len(f.data) : f.data[k] # Dir
      BY SoundFacts, ElemsAre
<1>3. Len(f.maps) \in Nat /\ Len(f.data) \in Nat
      BY SoundFacts
<1>4. Len(s.maps) \in 1 .. Len(f.maps)
      BY <1>3
<1>5. \A i \in Len(s.maps) + 1 .. Len(f.maps) : f.maps[i] # Dir
      BY <1>1, <1>3
<1>6. \A k \in Len(s.data) + 1 .. Len(f.data) : f.data[k] # Dir
      BY <1>2, <1>3
<1>7. f.maps[Len(s.maps)] # Dir
      BY <1>1, <1>4
<1> QED
      BY <1>5, <1>6, <1>7 DEF Linked

(* The guest's entry for the file of the operation. *)
EntryFor(o) ==
    [status |-> CASE o.phase = "open" -> "open" [] o.kind = "erase" -> "deleted" [] OTHER -> "active",
     map    |-> o.file.maps[1],
     length |-> IF o.phase = "open" THEN 0 ELSE Len(o.file.bytes),
     name   |-> o.as]

(* The entry the guest writes for its operation. *)
LEMMA EntryForIs ==
    ASSUME NEW cat, Catalogue(cat), NEW o, Plan(cat, o)
    PROVE  /\ o.phase = "open" => EntryFor(o) = Opened(o.as, o.file)
           /\ o.phase # "open" /\ o.kind # "erase" => EntryFor(o) = EntryOf(o.as, o.file)
           /\ o.kind = "erase" => EntryFor(o).status = "deleted"
<1>1. o.kind = "erase" => o.phase = "rest"
      BY DEF Plan, Whole
<1> QED
      BY <1>1 DEF EntryFor, Opened, EntryOf

(* Entries that are no change of each kind. *)
LEMMA NoChange ==
    ASSUME NEW d, NEW b, NEW a
    PROVE  /\ b.status # "active" \/ a.status # "active" \/ b.name = a.name => CommitRename(d, b, a) = d
           /\ b.status # "active" \/ a.status # "open" => BeginReplacement(d, b, a) = d
           /\ a.status # "active" => StageHypothesis(d, b, a) = d
           /\ b.status # "active" \/ a.status # "deleted" => CommitDelete(d, b, a) = d
<1>1. b.status # "active" \/ a.status # "active" \/ b.name = a.name => CommitRename(d, b, a) = d
      BY DEF CommitRename
<1>2. b.status # "active" \/ a.status # "open" => BeginReplacement(d, b, a) = d
      BY DEF BeginReplacement
<1>3. a.status # "active" => StageHypothesis(d, b, a) = d
      BY DEF StageHypothesis
<1>4. b.status # "active" \/ a.status # "deleted" => CommitDelete(d, b, a) = d
      BY DEF CommitDelete
<1> QED
      BY <1>1, <1>2, <1>3, <1>4

(* The guest's entry for its file written to the directory. *)
Before(d, o)     == d.directory[o.file.slot]

Entering(d, o)   == Entered(d, o.file.slot, EntryFor(o))

DirWritten(d, o) ==
    DirectoryWrite(Entering(d, o), d.directory, [d.directory EXCEPT ![o.file.slot] = EntryFor(o)])

(* Writing the operation's entry. *)
LEMMA EnteringIs ==
    ASSUME NEW d, NEW cat, NEW o, Going(d, cat, o)
    PROVE  LET g == Entering(d, o)
           IN  /\ Image(g) /\ Kept(d, g) /\ g.pendingCreates = d.pendingCreates
               /\ g.pendingAppends = d.pendingAppends /\ g.pendingReplacements = d.pendingReplacements
               /\ g.io = d.io /\ g.error = d.error /\ g.directory[o.file.slot] = EntryFor(o)
               /\ \A i \in 1 .. Slots : i # o.file.slot => g.directory[i] = d.directory[i]
<1>1. Image(d) /\ o.file.slot \in 1 .. Slots
      BY PlanFacts DEF Going
<1> DEFINE s == o.file.slot
           a == EntryFor(o)
<1>2. Entering(d, o) = Entered(d, s, a)
      BY DEF Entering
<1>3. s \in 1 .. Slots
      BY <1>1
<1> HIDE DEF s, a
<1>4. LET g == Entered(d, s, a)
      IN  /\ Image(g) /\ Kept(d, g) /\ g.pendingCreates = d.pendingCreates
          /\ g.pendingAppends = d.pendingAppends /\ g.pendingReplacements = d.pendingReplacements
          /\ g.io = d.io /\ g.error = d.error /\ g.directory[s] = a
          /\ \A i \in 1 .. Slots : i # s => g.directory[i] = d.directory[i]
      BY <1>1, <1>3, EnteredIs
<1> QED
      BY <1>2, <1>4 DEF s, a

(* The passes of that write, each without an error. *)
Passed(d, o, r, p, q, t) ==
    /\ r = CommitRename(Entering(d, o), Before(d, o), EntryFor(o)) /\ r.error = FALSE
    /\ p = BeginReplacement(r, Before(d, o), EntryFor(o)) /\ p.error = FALSE
    /\ q = StageHypothesis(p, Before(d, o), EntryFor(o)) /\ q.error = FALSE
    /\ t = CommitDelete(q, Before(d, o), EntryFor(o))

(* The guest's directory write, pass by pass. *)
LEMMA DirWrittenIs ==
    ASSUME NEW d, NEW cat, NEW o, Going(d, cat, o), d.error = FALSE,
           NEW r, NEW p, NEW q, NEW t, Passed(d, o, r, p, q, t)
    PROVE  DirWritten(d, o) = CommitEach("append", t, Waiting(t))
<1> DEFINE s == o.file.slot
           b == d.directory
           x == EntryFor(o)
           a == [b EXCEPT ![s] = x]
           g == Entering(d, o)
<1>1. s \in 1 .. Slots /\ DOMAIN b = 1 .. Slots
      BY PlanFacts DEF Going, Image
<1>2. a[s] = x /\ \A i \in 1 .. Slots : i # s => b[i] = a[i]
      BY <1>1
<1>3. g.error = FALSE
      BY EnteringIs
<1>4. DirWritten(d, o) = DirectoryWrite(g, b, a)
      BY DEF DirWritten
<1>5. b[s] = Before(d, o)
      BY DEF Before
<1>6. /\ r = CommitRename(g, b[s], a[s]) /\ p = BeginReplacement(r, b[s], a[s])
      /\ q = StageHypothesis(p, b[s], a[s]) /\ t = CommitDelete(q, b[s], a[s])
      /\ r.error = FALSE /\ p.error = FALSE /\ q.error = FALSE
      BY <1>2, <1>5 DEF Passed
<1> HIDE DEF s, b, x, a, g
<1>7. Passing(g, b, a, s, r, p, q, t)
      BY <1>1, <1>2, <1>3, <1>6 DEF Passing
<1>8. DirectoryWrite(g, b, a) = CommitEach("append", t, Waiting(t))
      BY <1>7, DirectoryIs
<1> QED
      BY <1>4, <1>8

(* The operation once its entry is written. *)
Then(o) == At(o, o.todo \ {Dir})

(* The operation once its directory sector is written. *)
LEMMA ThenIs ==
    ASSUME NEW cat, Catalogue(cat), NEW o, Plan(cat, o)
    PROVE  /\ Plan(cat, Then(o)) /\ Then(o).kind = o.kind /\ Then(o).name = o.name /\ Then(o).as = o.as
           /\ Then(o).file = o.file /\ Then(o).phase = o.phase /\ Then(o).todo = o.todo \ {Dir}
           /\ Start(cat, Then(o)) = Start(cat, o) /\ After(cat, Then(o)) = After(cat, o)
           /\ Then(o) = At(o, o.todo \ {Dir})
<1>1. o \in Ops
      BY PlanFacts
<1>2. o.todo \ {Dir} \subseteq 1 .. LastSector
      BY <1>1 DEF Ops
<1>3. /\ Then(o).kind = o.kind /\ Then(o).name = o.name /\ Then(o).as = o.as
      /\ Then(o).file = o.file /\ Then(o).phase = o.phase /\ Then(o).todo = o.todo \ {Dir}
      BY <1>1, <1>2, AtIs DEF Then
<1>4. Plan(cat, Then(o))
      BY PlanShrinks DEF Then
<1>5. Start(cat, Then(o)) = Start(cat, o)
      BY <1>3 DEF Start
<1>6. After(cat, Then(o)) = After(cat, o)
      BY <1>3 DEF After
<1> QED
      BY <1>3, <1>4, <1>5, <1>6 DEF Then

(* Its sectors stay linked. *)
LEMMA LinkedOn ==
    ASSUME NEW d, NEW e, NEW cat, NEW o, Going(d, cat, o), Underway(d, cat, o), Kept(d, e)
    PROVE  /\ Layout(e, cat)
           /\ o.kind \in Outputs /\ o.phase = "rest" => Linked(e, Start(cat, o), o.file, o.todo \ {Dir})
<1>1. Catalogue(cat) /\ Plan(cat, o)
      BY DEF Going
<1>2. Layout(e, cat)
      BY KeptIs DEF Underway
<1>3. ASSUME o.kind \in Outputs, o.phase = "rest"
      PROVE  Linked(e, Start(cat, o), o.file, o.todo \ {Dir})
  <2> DEFINE s == Start(cat, o)
             f == o.file
  <2>1. Stems(s, f)
        BY <1>1, <1>3, StartStems
  <2>2. Sound(f) /\ Len(f.maps) \in Nat /\ Len(f.data) \in Nat
        BY <1>1, PlanFacts, SoundFacts
  <2>3. Len(s.maps) \in Nat \ {0} /\ Len(s.data) \in Nat /\ Len(s.maps) <= Len(f.maps)
        BY <2>1, <2>2 DEF Stems
  <2>4. Linked(d, s, f, o.todo)
        BY <1>3 DEF Underway
  <2> HIDE DEF s, f
  <2>5. Linked(d, s, f, o.todo \ {Dir})
        BY <2>2, <2>3, <2>4, LinkedDir
  <2>6. Linked(e, s, f, o.todo \ {Dir})
        BY <2>5, KeptIs
  <2> QED
        BY <2>6 DEF s, f
<1> QED
      BY <1>2, <1>3

(* e is d but for what is pending and for the entry of the operation.      *)
Entrant(d, e, o) ==
    /\ Image(e) /\ Kept(d, e) /\ \A i \in 1 .. Slots : i # o.file.slot => e.directory[i] = d.directory[i]

(* The files around it stay at rest. *)
LEMMA EntrantGoes ==
    ASSUME NEW d, NEW e, NEW cat, NEW o, Going(d, cat, o), Entrant(d, e, o),
           NEW u, Plan(cat, u), u.name = o.name, u.file = o.file, Underway(e, cat, u) \/ Committed(e, cat, u)
    PROVE  Going(e, cat, u)
<1>1. Catalogue(cat) /\ Plan(cat, o) /\ Around(d, cat, o)
      BY DEF Going
<1>3. Image(e) /\ Kept(d, e) /\ \A i \in 1 .. Slots : i # o.file.slot => e.directory[i] = d.directory[i]
      BY DEF Entrant
<1>4. \A n \in DOMAIN cat \ {o.name} : AtRest(e, cat, n)
  <2> SUFFICES ASSUME NEW n \in DOMAIN cat \ {o.name} PROVE AtRest(e, cat, n)
        OBVIOUS
  <2>1. AtRest(d, cat, n)
        BY <1>1 DEF Around
  <2>2. cat[n].slot \in 1 .. Slots /\ cat[n].slot # o.file.slot
        BY <1>1, PlanFacts, SoundFacts DEF Apart
  <2>3. Reads(e, cat[n])
        BY <2>1, <1>3, KeptIs DEF AtRest
  <2> QED
        BY <2>1, <2>2, <2>3, <1>3 DEF AtRest
<1>5. \A i \in 1 .. Slots : i # o.file.slot => (Vacant(e, i) <=> Vacant(d, i))
      BY <1>3 DEF Vacant
<1>6. Around(e, cat, u)
      BY <1>1, <1>4, <1>5 DEF Around
<1> QED
      BY <1>1, <1>3, <1>6 DEF Going

(* Appends that wait are tried again, and only a storage call can fail     *)
(* them.                                                                   *)
LEMMA WaitingDone ==
    ASSUME NEW d, NEW cat, NEW o, Going(d, cat, o), d.error = FALSE
    PROVE  LET e == CommitEach("append", d, Waiting(d))
           IN  Going(e, cat, o) /\ (e.error => d.io.fault > 0) /\ (o.kind # "append" => e.error = FALSE)
<1> DEFINE e == CommitEach("append", d, Waiting(d))
<1>1. Underway(d, cat, o) \/ Committed(d, cat, o)
      BY DEF Going
<1>2. ASSUME DOMAIN d.pendingAppends = {}
      PROVE  Going(e, cat, o) /\ (e.error => d.io.fault > 0) /\ e.error = FALSE
  <2>1. Waiting(d) = {}
        BY <1>2 DEF Waiting
  <2>2. e = d
        BY <2>1, CommitNone
  <2> QED
        BY <2>2
<1>3. CASE Committed(d, cat, o)
      BY <1>2, <1>3 DEF Committed, NoPending
<1>4. CASE Underway(d, cat, o) /\ o.kind = "create"
      BY <1>2, <1>4, CreateGoes DEF NoPending, Only
<1>5. CASE Underway(d, cat, o) /\ o.kind = "replace"
      BY <1>2, <1>5, ReplaceGoes DEF NoPending, Only
<1>6. CASE Underway(d, cat, o) /\ o.kind \notin {"create", "append", "replace"}
      BY <1>2, <1>6 DEF Underway, NoPending
<1>7. CASE Underway(d, cat, o) /\ o.kind = "append"
  <2>1. CASE NoPending(d)
        BY <2>1, <1>2 DEF NoPending
  <2>2. ASSUME NEW i \in DOMAIN d.files, AppendingAt(d, cat, o, i)
        PROVE  Going(e, cat, o) /\ (e.error => d.io.fault > 0)
    <3> DEFINE m == o.file.maps[1]
    <3>1. DOMAIN d.pendingAppends = {m}
          BY <2>2 DEF AppendingAt, Only
    <3>2. Waiting(d) = {} \/ Waiting(d) = {m}
          BY <3>1 DEF Waiting
    <3>3. m \in Int
          BY <2>2, SoundFacts DEF AppendingAt, AppendStaged, Fits, Sectors
    <3>4. CASE Waiting(d) = {}
          BY <3>4, CommitNone
    <3>5. CASE Waiting(d) = {m}
      <4>1. e = CommitAppend(d, m)
            BY <3>3, <3>5, CommitOne, CommitIs
      <4>2. Outcome(d, CommitAppend(d, m), cat, o)
            BY <1>7, <2>2, AppendOutcome
      <4> QED
            BY <4>1, <4>2 DEF Outcome
    <3> QED
          BY <3>2, <3>4, <3>5
  <2> QED
        BY <2>1, <2>2, <1>7, AppendGoes
<1> QED
      BY <1>1, <1>3, <1>4, <1>5, <1>6, <1>7

(* A write of the directory leaves the sectors and the host as they are,   *)
(* but for what the appends that waited do from there.                     *)
Leading(d, t, cat, o, u) ==
    /\ t.error = FALSE /\ t.io = d.io /\ Kept(d, t) /\ Going(t, cat, u)
    /\ \/ Underway(d, cat, o) /\ Underway(t, cat, u)
       \/ Committed(d, cat, o) /\ Committed(t, cat, u)
    /\ DirWritten(d, o) = CommitEach("append", t, Waiting(t))
EntersAs(d, cat, o, u) == \E t : Leading(d, t, cat, o, u)

(* A write of the directory whose passes lead to t, where the operation    *)
(* goes on.                                                                *)
LEMMA StepTo ==
    ASSUME NEW d, NEW cat, NEW o, Going(d, cat, o), d.error = FALSE,
           NEW r, NEW p, NEW q, NEW t, Passed(d, o, r, p, q, t), t.error = FALSE, t.io = d.io, Entrant(d, t, o),
           NEW u, Plan(cat, u), u.name = o.name, u.file = o.file,
           (Underway(d, cat, o) /\ Underway(t, cat, u)) \/ (Committed(d, cat, o) /\ Committed(t, cat, u))
    PROVE  /\ Going(DirWritten(d, o), cat, u) /\ (DirWritten(d, o).error => d.io.fault > 0)
           /\ u.kind # "append" => DirWritten(d, o).error = FALSE
           /\ EntersAs(d, cat, o, u)
<1>1. Going(t, cat, u)
      BY EntrantGoes
<1>2. DirWritten(d, o) = CommitEach("append", t, Waiting(t))
      BY DirWrittenIs
<1>3. /\ Going(CommitEach("append", t, Waiting(t)), cat, u)
      /\ CommitEach("append", t, Waiting(t)).error => t.io.fault > 0
      /\ u.kind # "append" => CommitEach("append", t, Waiting(t)).error = FALSE
      BY ONLY <1>1, t.error = FALSE, WaitingDone
<1>4. Leading(d, t, cat, o, u)
      BY <1>1, <1>2 DEF Leading, Entrant
<1> QED
      BY <1>2, <1>3, <1>4 DEF EntersAs

(* With its entry written, the operation goes on without the directory.    *)
LEMMA UnderwayThen ==
    ASSUME NEW d, NEW cat, NEW o, Going(d, cat, o), Underway(d, cat, o), o.kind \in Outputs, o.phase = "rest",
           d.directory[o.file.slot] = EntryOf(o.name, o.file)
    PROVE  Underway(d, cat, Then(o))
<1> DEFINE f == o.file
           n == o.name
           m == f.maps[1]
           old == cat[n]
           u == Then(o)
<1>1. Catalogue(cat) /\ Plan(cat, o) /\ Image(d)
      BY DEF Going
<1>2. /\ u.kind = o.kind /\ u.name = n /\ u.file = f /\ u.phase = o.phase /\ u.todo = o.todo \ {Dir}
      /\ Start(cat, u) = Start(cat, o)
      BY <1>1, ThenIs
<1>3. Kept(d, d)
      BY DEF Kept
<1>4. Layout(d, cat) /\ Linked(d, Start(cat, u), u.file, u.todo)
      BY <1>2, <1>3, LinkedOn
<1>5. d.directory[f.slot].status = "active" /\ Opened(n, f).status = "open"
      BY DEF EntryOf, Opened
<1> HIDE DEF u
<1>6. CASE o.kind = "create"
  <2>1. Creating(d, o)
        BY <1>6 DEF Underway
  <2>2. Creating(d, u)
        BY <2>1, <1>2, <1>5 DEF Creating
  <2> QED
        BY <1>2, <1>4, <1>6, <2>2 DEF Underway, u
<1>7. CASE o.kind = "append"
  <2>1. Appending(d, old, o)
        BY <1>7 DEF Underway
  <2>2. Len(old.bytes) # Len(f.bytes) /\ Sound(old)
    <3>1. Sound(f) /\ Sound(old)
          BY <1>1, <1>7, PlanFacts
    <3>2. Len(old.bytes) < Len(f.bytes)
          BY <1>1, <1>7 DEF Plan
    <3>3. Len(old.bytes) \in Nat /\ Len(f.bytes) \in Nat
          BY <3>1, SoundFacts
    <3> QED
          BY <3>1, <3>2, <3>3
  <2>3. EntryOf(n, old) # EntryOf(n, f)
        BY <2>2 DEF EntryOf
  <2>4. old.data[Len(old.data)] # Dir
    <3>1. Len(old.data) \in 1 .. Len(old.data) /\ old.data \in Seq(Sectors) /\ Dir \notin Sectors
          BY <2>2, SoundFacts
    <3> QED
          BY <3>1, ElemsAre
  <2>5. \A i, b : PendingAppend(old, u, i, b) = PendingAppend(old, o, i, b)
        BY <1>2 DEF PendingAppend
  <2>6. Appending(d, old, u)
        BY <2>1, <2>3, <2>4, <2>5, <1>2 DEF Appending
  <2> QED
        BY <1>2, <1>4, <1>7, <2>6 DEF Underway, u
<1>8. CASE o.kind = "replace"
  <2>1. Replacing(d, old, o)
        BY <1>8 DEF Underway
  <2>2. Replacing(d, old, u)
        BY <2>1, <1>2, <1>5 DEF Replacing
  <2> QED
        BY <1>2, <1>4, <1>8, <2>2 DEF Underway, u
<1> QED
      BY <1>6, <1>7, <1>8 DEF Outputs, Whole

(* An entry that was written already. *)
LEMMA DirSame ==
    ASSUME NEW d, NEW cat, NEW o, Going(d, cat, o), d.error = FALSE, o.kind \in Outputs, o.phase = "rest",
           Before(d, o) = EntryOf(o.name, o.file)
    PROVE  /\ Going(DirWritten(d, o), cat, Then(o)) /\ (DirWritten(d, o).error => d.io.fault > 0)
           /\ EntersAs(d, cat, o, Then(o))
<1> DEFINE g == Entering(d, o)
<1>1. Catalogue(cat) /\ Plan(cat, o) /\ (Underway(d, cat, o) \/ Committed(d, cat, o))
      BY DEF Going
<1>2. o.kind # "erase" /\ o.kind # "rename" /\ o.phase # "open"
      BY DEF Outputs, Whole
<1>3. EntryFor(o) = EntryOf(o.name, o.file)
      BY <1>1, <1>2, EntryForIs, PlanFacts
<1>4. /\ Image(g) /\ Kept(d, g) /\ g.pendingCreates = d.pendingCreates
      /\ g.pendingAppends = d.pendingAppends /\ g.pendingReplacements = d.pendingReplacements
      /\ g.io = d.io /\ g.error = d.error /\ g.directory[o.file.slot] = EntryFor(o)
      /\ \A i \in 1 .. Slots : i # o.file.slot => g.directory[i] = d.directory[i]
      BY EnteringIs
<1> HIDE DEF g
<1>5. Passed(d, o, g, g, g, g)
      BY <1>3, <1>4, SameEntry DEF Passed, g
<1>6. Entrant(d, g, o)
      BY <1>4 DEF Entrant
<1>7. Alike(d, g)
      BY <1>3, <1>4 DEF Alike, Before
<1>8. Going(g, cat, o) /\ (Underway(d, cat, o) => Underway(g, cat, o)) /\ (Committed(d, cat, o) => Committed(g, cat, o))
      BY <1>7, AlikeGoes
<1>9. Underway(g, cat, o) => Underway(g, cat, Then(o))
      BY <1>3, <1>4, <1>8, UnderwayThen
<1>10. Committed(g, cat, o) => Committed(g, cat, Then(o))
      BY <1>1, ThenIs DEF Committed
<1>11. Plan(cat, Then(o)) /\ Then(o).name = o.name /\ Then(o).file = o.file
      BY <1>1, ThenIs
<1> QED
      BY <1>1, <1>4, <1>5, <1>6, <1>8, <1>9, <1>10, <1>11, StepTo

(* The phases of an operation that writes the whole file. *)
Emptying(o) == [o EXCEPT !.phase = "empty", !.todo = {o.file.maps[1]}]

Filling(o)  == [o EXCEPT !.phase = "rest", !.todo = {Dir} \cup SectorsOf(o.file)]

(* A plan stays one from phase to phase. *)
LEMMA PlanTurns ==
    ASSUME NEW cat, Catalogue(cat), NEW o, Plan(cat, o), o.kind \in Whole,
           NEW u \in Ops, u.kind = o.kind, u.name = o.name, u.as = o.as, u.file = o.file,
           u.todo \subseteq {Dir} \cup SectorsOf(o.file), u.phase # "open",
           u.phase = "empty" => u.todo \subseteq {o.file.maps[1]}
    PROVE  Plan(cat, u)
<1>1. o.kind \in {"create", "replace"}
      BY DEF Whole
<1> QED
      BY <1>1 DEF Plan, Whole

(* The phases after the open entry. *)
LEMMA PhasesAre ==
    ASSUME NEW cat, Catalogue(cat), NEW o, Plan(cat, o), o.kind \in Whole
    PROVE  /\ Plan(cat, Emptying(o)) /\ Plan(cat, Filling(o))
           /\ Emptying(o).kind = o.kind /\ Emptying(o).name = o.name /\ Emptying(o).as = o.as
           /\ Emptying(o).file = o.file /\ Emptying(o).phase = "empty" /\ Emptying(o).todo = {o.file.maps[1]}
           /\ Filling(o).kind = o.kind /\ Filling(o).name = o.name /\ Filling(o).as = o.as
           /\ Filling(o).file = o.file /\ Filling(o).phase = "rest" /\ Filling(o).todo = {Dir} \cup SectorsOf(o.file)
<1> DEFINE f == o.file
           T == {Dir} \cup SectorsOf(f)
<1>1. o \in Ops /\ Sound(f)
      BY PlanFacts
<1>2. f.maps[1] \in SectorsOf(f) /\ SectorsOf(f) \subseteq Sectors
      BY <1>1, SoundFacts DEF SectorsOf
<1>3. LastSector \in Nat /\ Sectors \subseteq 1 .. LastSector /\ Dir = 1
      BY Sizes DEF Sectors, Dir
<1>4. LastSector >= 1
      BY <1>2, <1>3 DEF Sectors
<1>5. T \subseteq 1 .. LastSector /\ {f.maps[1]} \subseteq 1 .. LastSector
  <2>1. Dir \in 1 .. LastSector
        BY <1>3, <1>4
  <2> QED
        BY <2>1, <1>2, <1>3
<1>6. /\ Emptying(o) \in Ops /\ Emptying(o).kind = o.kind /\ Emptying(o).name = o.name /\ Emptying(o).as = o.as
      /\ Emptying(o).file = o.file /\ Emptying(o).phase = "empty" /\ Emptying(o).todo = {f.maps[1]}
      BY <1>1, <1>5 DEF Emptying, Ops
<1>7. /\ Filling(o) \in Ops /\ Filling(o).kind = o.kind /\ Filling(o).name = o.name /\ Filling(o).as = o.as
      /\ Filling(o).file = o.file /\ Filling(o).phase = "rest" /\ Filling(o).todo = T
      BY <1>1, <1>5 DEF Filling, Ops
<1>8. Plan(cat, Emptying(o))
  <2>1. {f.maps[1]} \subseteq {Dir} \cup SectorsOf(f)
        BY <1>2
  <2> HIDE DEF f
  <2> QED
        BY <1>6, <2>1, PlanTurns DEF f
<1>9. Plan(cat, Filling(o))
      BY <1>7, PlanTurns
<1> QED
      BY <1>6, <1>7, <1>8, <1>9

(* Before the last phase there is nothing to commit. *)
LEMMA CommitsQuiet ==
    ASSUME NEW d, NEW cat, NEW o, Going(d, cat, o), d.error = FALSE, o.phase # "rest"
    PROVE  Commits(d) = d
<1>1. Plan(cat, o) /\ Catalogue(cat) /\ Underway(d, cat, o)
      BY DEF Going, Committed
<1>2. o.kind \in {"create", "replace"}
      BY <1>1 DEF Plan, Whole
<1>3. CASE o.kind = "create"
      BY <1>1, <1>3, CreateGoes, CommitsNone
<1>4. CASE o.kind = "replace"
  <2>1. CASE NoPending(d)
        BY <2>1, CommitsNone
  <2>2. ASSUME NEW i \in DOMAIN d.files, ReplaceStaged(d, cat, o, i), Only(d, {}, {}, {o.file.maps[1]}),
               d.directory[o.file.slot] = Opened(o.name, o.file)
        PROVE  Commits(d) = d
    <3> DEFINE m == o.file.maps[1]
    <3>1. m \in Int
          BY <2>2, SoundFacts DEF ReplaceStaged, Fits, Sectors
    <3>2. CommitReplacement(d, m) = d
          BY <2>2, ReplaceOpened
    <3> QED
          BY <3>1, <3>2, <2>2, CommitsReplace
  <2> QED
        BY <2>1, <2>2, <1>1, <1>4, ReplaceGoes
<1> QED
      BY <1>2, <1>3, <1>4

(* The open entry of a create. *)
LEMMA DirCreateOpen ==
    ASSUME NEW d, NEW cat, NEW o, Going(d, cat, o), d.error = FALSE, o.kind = "create", o.phase = "open"
    PROVE  /\ Going(DirWritten(d, o), cat, Emptying(o)) /\ DirWritten(d, o).error = FALSE
           /\ EntersAs(d, cat, o, Emptying(o))
<1> DEFINE g == Entering(d, o)
           f == o.file
           n == o.name
           u == Emptying(o)
<1>1. Catalogue(cat) /\ Plan(cat, o) /\ Underway(d, cat, o)
      BY DEF Going, Committed
<1>2. EntryFor(o) = Opened(n, f)
      BY <1>1, EntryForIs, PlanFacts
<1>3. /\ Image(g) /\ Kept(d, g) /\ g.pendingCreates = d.pendingCreates
      /\ g.pendingAppends = d.pendingAppends /\ g.pendingReplacements = d.pendingReplacements
      /\ g.io = d.io /\ g.error = d.error /\ g.directory[f.slot] = EntryFor(o)
      /\ \A i \in 1 .. Slots : i # f.slot => g.directory[i] = d.directory[i]
      BY EnteringIs
<1>4. Layout(d, cat) /\ NoPending(d) /\ Before(d, o).status \in {"free", "deleted"}
      BY <1>1 DEF Underway, Creating, Vacant, Before
<1>5. EntryFor(o).status = "open" /\ Before(d, o).status # "active"
      BY <1>2, <1>4 DEF Opened
<1> HIDE DEF g
<1>6. Passed(d, o, g, g, g, g)
      BY <1>3, <1>5, NoChange DEF Passed, g
<1>7. Entrant(d, g, o)
      BY <1>3 DEF Entrant
<1>8. Plan(cat, u) /\ u.name = n /\ u.file = f /\ u.kind = "create" /\ u.phase = "empty"
      BY <1>1, PhasesAre DEF Whole
<1> HIDE DEF u
<1>9. Layout(g, cat) /\ NoPending(g)
      BY <1>3, <1>4, KeptIs DEF NoPending
<1>10. Underway(g, cat, u)
      BY <1>2, <1>3, <1>8, <1>9 DEF Underway, Creating
<1> QED
      BY <1>1, <1>3, <1>6, <1>7, <1>8, <1>10, StepTo DEF u

(* The hypotheses that an entry leads to. *)
LEMMA StageCreate ==
    ASSUME NEW d, NEW cat, Catalogue(cat), Layout(d, cat), NEW n, n \notin DOMAIN cat, NEW f, Sound(f),
           NEW b, b.status # "active", f.maps[1] \in DOMAIN d.pendingSectorWrites, DOMAIN d.pendingCreates = {}
    PROVE  StageHypothesis(d, b, EntryOf(n, f)) =
             [d EXCEPT !.pendingCreates = Put(d.pendingCreates, f.maps[1], [name |-> n, length |-> Len(f.bytes)])]
<1> DEFINE a == EntryOf(n, f)
<1>1. a.status = "active" /\ a.map = f.maps[1] /\ a.length = Len(f.bytes) /\ a.name = n
      BY DEF EntryOf
<1>2. Len(f.bytes) # 0
      BY SoundFacts
<1>3. b # a
      BY <1>1
<1> HIDE DEF a
<1>4. FilesAt(d, a.map, a.name) = {} /\ ~IsInventoriedName(d, a.name)
      BY <1>1, NoFile
<1>5. /\ ~(b = a \/ a.status # "active") /\ ~(FilesAt(d, a.map, a.name) # {})
      /\ ~(\/ a.length = 0 \/ IsInventoriedName(d, a.name) \/ a.map \notin DOMAIN d.pendingSectorWrites
           \/ a.map \in DOMAIN d.pendingCreates)
      BY <1>1, <1>2, <1>3, <1>4
<1>6. StageHypothesis(d, b, a) =
        [d EXCEPT !.pendingCreates = Put(@, a.map, [name |-> a.name, length |-> a.length])]
      BY <1>5 DEF StageHypothesis
<1> QED
      BY <1>1, <1>6 DEF a

ToAppend(d, cat, o, i) ==
    /\ d.files[i] = Record(o.name, cat[o.name])
    /\ StageHypothesis(d, EntryOf(o.name, cat[o.name]), EntryOf(o.name, o.file)) =
          [d EXCEPT !.pendingAppends =
               Put(d.pendingAppends, o.file.maps[1], PendingAppend(cat[o.name], o, i, TRUE))]

(* A longer entry of a file stages an append. *)
LEMMA StageAppend ==
    ASSUME NEW d, Image(d), NEW cat, Catalogue(cat), Layout(d, cat), NEW o, o.name \in DOMAIN cat, Sound(o.file),
           Begins(cat[o.name], o.file), Len(cat[o.name].bytes) < Len(o.file.bytes), DOMAIN d.pendingAppends = {}
    PROVE  \E i \in DOMAIN d.files : ToAppend(d, cat, o, i)
<1> DEFINE n == o.name
           f == o.file
           old == cat[n]
           a == EntryOf(n, f)
           b == EntryOf(n, old)
<1>1. a.status = "active" /\ a.map = f.maps[1] /\ a.length = Len(f.bytes) /\ a.name = n /\ b.length = Len(old.bytes)
      BY DEF EntryOf
<1>2. Sound(old) /\ Len(old.bytes) \in Nat /\ Len(f.bytes) \in Nat /\ old.maps[1] = f.maps[1] /\ old.data # <<>>
  <2>1. Sound(old)
        BY DEF Catalogue
  <2>2. Len(old.maps) \in Nat \ {0} /\ Len(old.bytes) \in Nat /\ Len(f.bytes) \in Nat /\ old.data # <<>>
        BY <2>1, SoundFacts
  <2>3. \A i \in 1 .. Len(old.maps) : old.maps[i] = f.maps[i]
        BY DEF Begins
  <2>4. 1 \in 1 .. Len(old.maps)
        BY <2>2
  <2> QED
        BY <2>1, <2>2, <2>3, <2>4
<1>3. b # a
      BY <1>1, <1>2
<1>4. PICK i \in DOMAIN d.files :
              /\ d.files[i] = Record(n, old) /\ i \in Nat /\ Live(d, i)
              /\ FilesAt(d, old.maps[1], n) = {i} /\ Min({i}) = i
  <2>1. \E i \in DOMAIN d.files : IsFile(d, cat, n, i)
        BY TheFile
  <2> QED
        BY ONLY <2>1 DEF IsFile
<1>5. /\ d.files[i].hostName = old.host /\ d.files[i].length = Len(old.bytes)
      /\ d.files[i].dataSectors = old.data /\ d.files[i].mapSectors = old.maps
      BY <1>2, <1>4, RecordIs
<1> HIDE DEF a, b, old, n, f
<1>6. FilesAt(d, a.map, a.name) = {i} /\ Min(FilesAt(d, a.map, a.name)) = i
      BY <1>1, <1>2, <1>4
<1>7. /\ ~(b = a \/ a.status # "active") /\ FilesAt(d, a.map, a.name) # {}
      /\ ~(a.length <= d.files[i].length \/ a.map \in DOMAIN d.pendingAppends) /\ d.files[i].dataSectors # <<>>
      BY <1>1, <1>2, <1>3, <1>5, <1>6 DEF n, f, old
<1>8. StageHypothesis(d, b, a) =
        [d EXCEPT !.pendingAppends =
            Put(@, a.map, [file |-> i, name |-> d.files[i].hostName, oldLength |-> d.files[i].length,
                           newLength |-> a.length, oldData |-> d.files[i].dataSectors,
                           oldMaps |-> d.files[i].mapSectors, hasData |-> TRUE])]
      BY <1>6, <1>7 DEF StageHypothesis
<1>9. PendingAppend(old, o, i, TRUE) =
        [file |-> i, name |-> d.files[i].hostName, oldLength |-> d.files[i].length,
                           newLength |-> a.length, oldData |-> d.files[i].dataSectors,
                           oldMaps |-> d.files[i].mapSectors, hasData |-> TRUE]
      BY <1>1, <1>5 DEF PendingAppend, f
<1> QED
      BY <1>1, <1>4, <1>8, <1>9 DEF a, b, old, n, f, ToAppend

ToReplace(d, cat, n, f, i) ==
    /\ d.files[i] = Record(n, cat[n])
    /\ BeginReplacement(d, EntryOf(n, cat[n]), Opened(n, f)) =
          [d EXCEPT !.pendingReplacements =
               Put(d.pendingReplacements, cat[n].maps[1], [file |-> i, name |-> cat[n].host])]

(* An open entry of a file's map sector begins its replacement. *)
LEMMA OpenReplacement ==
    ASSUME NEW d, Image(d), NEW cat, Catalogue(cat), Layout(d, cat), NEW n \in DOMAIN cat, NEW f
    PROVE  \E i \in DOMAIN d.files : ToReplace(d, cat, n, f, i)
<1> DEFINE old == cat[n]
           a == Opened(n, f)
           b == EntryOf(n, old)
<1>1. b.status = "active" /\ b.map = old.maps[1] /\ b.name = n /\ a.status = "open"
      BY DEF EntryOf, Opened
<1>2. Sound(old)
      BY DEF Catalogue
<1>4. PICK i \in DOMAIN d.files :
              /\ d.files[i] = Record(n, old) /\ i \in Nat /\ Live(d, i)
              /\ FilesAt(d, old.maps[1], n) = {i} /\ Min({i}) = i
  <2>1. \E i \in DOMAIN d.files : IsFile(d, cat, n, i)
        BY TheFile
  <2> QED
        BY ONLY <2>1 DEF IsFile
<1>5. d.files[i].hostName = old.host
      BY <1>2, <1>4, RecordIs
<1> HIDE DEF a, b, old
<1>6. FilesAt(d, b.map, b.name) = {i} /\ Min(FilesAt(d, b.map, b.name)) = i
      BY <1>1, <1>4
<1>7. ~(b.status # "active" \/ a.status # "open" \/ FilesAt(d, b.map, b.name) = {})
      BY <1>1, <1>6
<1>8. BeginReplacement(d, b, a) =
        [d EXCEPT !.pendingReplacements = Put(@, b.map, [file |-> i, name |-> d.files[i].hostName])]
      BY <1>6, <1>7 DEF BeginReplacement
<1> QED
      BY <1>1, <1>4, <1>5, <1>8 DEF a, b, old, ToReplace

(* A file that did not grow needs no hypothesis. *)
LEMMA StageKnown ==
    ASSUME NEW d, Image(d), NEW cat, Catalogue(cat), Layout(d, cat), NEW n \in DOMAIN cat, NEW f, Sound(f),
           f.maps[1] = cat[n].maps[1], Len(f.bytes) <= Len(cat[n].bytes), NEW b
    PROVE  StageHypothesis(d, b, EntryOf(n, f)) = d
<1> DEFINE old == cat[n]
           a == EntryOf(n, f)
<1>1. a.map = old.maps[1] /\ a.name = n /\ a.length = Len(f.bytes)
      BY DEF EntryOf
<1>2. Sound(old)
      BY DEF Catalogue
<1>4. PICK i \in DOMAIN d.files :
              /\ d.files[i] = Record(n, old) /\ i \in Nat /\ Live(d, i)
              /\ FilesAt(d, old.maps[1], n) = {i} /\ Min({i}) = i
  <2>1. \E i \in DOMAIN d.files : IsFile(d, cat, n, i)
        BY TheFile
  <2> QED
        BY ONLY <2>1 DEF IsFile
<1>5. d.files[i].length = Len(old.bytes)
      BY <1>2, <1>4, RecordIs
<1> HIDE DEF a, old
<1>6. FilesAt(d, a.map, a.name) # {} /\ Min(FilesAt(d, a.map, a.name)) = i
      BY <1>1, <1>4
<1>7. a.length <= d.files[i].length
      BY <1>1, <1>5 DEF old
<1>8. StageHypothesis(d, b, a) = d
      BY <1>6, <1>7 DEF StageHypothesis
<1> QED
      BY <1>8 DEF a

(* e is d but for what is pending. *)
Pending(d, e, creates, appends, replacements) ==
    /\ Image(e) /\ Kept(d, e) /\ e.directory = d.directory /\ e.io = d.io /\ e.error = d.error
    /\ e.pendingCreates = creates /\ e.pendingAppends = appends /\ e.pendingReplacements = replacements

(* Noting what is pending leaves the rest. *)
LEMMA PendingIs ==
    ASSUME NEW d, Image(d), NEW C
    PROVE  /\ Pending(d, [d EXCEPT !.pendingCreates = C], C, d.pendingAppends, d.pendingReplacements)
           /\ Pending(d, [d EXCEPT !.pendingAppends = C], d.pendingCreates, C, d.pendingReplacements)
           /\ Pending(d, [d EXCEPT !.pendingReplacements = C], d.pendingCreates, d.pendingAppends, C)
<1>1. /\ DOMAIN d.directory = 1 .. Slots /\ d.files \in Seq(FileRecs) /\ DOMAIN d.pendingSectorWrites \subseteq Sectors
      /\ d.error \in BOOLEAN /\ Storage(d.io, DOMAIN d.io.host)
      BY ImageStorage DEF Image
<1>2. Pending(d, [d EXCEPT !.pendingCreates = C], C, d.pendingAppends, d.pendingReplacements)
  <2> DEFINE e == [d EXCEPT !.pendingCreates = C]
  <2>1. e = Made(d.files, d.allocated, d.metadata, d.dataRefs, d.directory, d.pendingSectorWrites,
                    C, d.pendingAppends, d.pendingReplacements, d.io, d.error)
        BY EditCreates
  <2> HIDE DEF e
  <2>2. /\ e.files = d.files /\ e.allocated = d.allocated /\ e.metadata = d.metadata /\ e.dataRefs = d.dataRefs
        /\ e.directory = d.directory /\ e.pendingSectorWrites = d.pendingSectorWrites
        /\ e.io = d.io /\ e.error = d.error /\ Image(e)
        /\ e.pendingCreates = C /\ e.pendingAppends = d.pendingAppends /\ e.pendingReplacements = d.pendingReplacements
        BY <1>1, <2>1, MadeIs
  <2> QED
        BY <2>2 DEF Pending, Kept, e
<1>3. Pending(d, [d EXCEPT !.pendingAppends = C], d.pendingCreates, C, d.pendingReplacements)
  <2> DEFINE e == [d EXCEPT !.pendingAppends = C]
  <2>1. e = Made(d.files, d.allocated, d.metadata, d.dataRefs, d.directory, d.pendingSectorWrites,
                    d.pendingCreates, C, d.pendingReplacements, d.io, d.error)
        BY EditAppends
  <2> HIDE DEF e
  <2>2. /\ e.files = d.files /\ e.allocated = d.allocated /\ e.metadata = d.metadata /\ e.dataRefs = d.dataRefs
        /\ e.directory = d.directory /\ e.pendingSectorWrites = d.pendingSectorWrites
        /\ e.io = d.io /\ e.error = d.error /\ Image(e)
        /\ e.pendingCreates = d.pendingCreates /\ e.pendingAppends = C /\ e.pendingReplacements = d.pendingReplacements
        BY <1>1, <2>1, MadeIs
  <2> QED
        BY <2>2 DEF Pending, Kept, e
<1>4. Pending(d, [d EXCEPT !.pendingReplacements = C], d.pendingCreates, d.pendingAppends, C)
  <2> DEFINE e == [d EXCEPT !.pendingReplacements = C]
  <2>1. e = Made(d.files, d.allocated, d.metadata, d.dataRefs, d.directory, d.pendingSectorWrites,
                    d.pendingCreates, d.pendingAppends, C, d.io, d.error)
        BY EditReplacements
  <2> HIDE DEF e
  <2>2. /\ e.files = d.files /\ e.allocated = d.allocated /\ e.metadata = d.metadata /\ e.dataRefs = d.dataRefs
        /\ e.directory = d.directory /\ e.pendingSectorWrites = d.pendingSectorWrites
        /\ e.io = d.io /\ e.error = d.error /\ Image(e)
        /\ e.pendingCreates = d.pendingCreates /\ e.pendingAppends = d.pendingAppends /\ e.pendingReplacements = C
        BY <1>1, <2>1, MadeIs
  <2> QED
        BY <2>2 DEF Pending, Kept, e
<1> QED
      BY <1>2, <1>3, <1>4

(* What the passes start from, and what they lead to. *)
LEMMA PendingEntrant ==
    ASSUME NEW d, NEW cat, NEW o, Going(d, cat, o), NEW t, NEW c, NEW a, NEW r,
           Pending(Entering(d, o), t, c, a, r)
    PROVE  /\ Entrant(d, t, o) /\ Kept(d, t) /\ t.io = d.io /\ t.error = d.error
           /\ t.directory[o.file.slot] = EntryFor(o)
           /\ t.pendingCreates = c /\ t.pendingAppends = a /\ t.pendingReplacements = r
<1> DEFINE g == Entering(d, o)
<1>1. /\ Image(g) /\ Kept(d, g) /\ g.io = d.io /\ g.error = d.error /\ g.directory[o.file.slot] = EntryFor(o)
      /\ \A i \in 1 .. Slots : i # o.file.slot => g.directory[i] = d.directory[i]
      BY EnteringIs
<1> HIDE DEF g
<1>2. /\ Image(t) /\ Kept(g, t) /\ t.directory = g.directory /\ t.io = g.io /\ t.error = g.error
      /\ t.pendingCreates = c /\ t.pendingAppends = a /\ t.pendingReplacements = r
      BY DEF Pending, g
<1>3. Kept(d, t)
      BY <1>1, <1>2 DEF Kept
<1> QED
      BY <1>1, <1>2, <1>3 DEF Entrant

(* The closed entry of a create stages it. *)
LEMMA DirCreateRest ==
    ASSUME NEW d, NEW cat, NEW o, Going(d, cat, o), Underway(d, cat, o), d.error = FALSE, o.kind = "create",
           o.phase = "rest", NoPending(d), Before(d, o) = Opened(o.name, o.file)
    PROVE  /\ Going(DirWritten(d, o), cat, Then(o)) /\ (DirWritten(d, o).error => d.io.fault > 0)
           /\ EntersAs(d, cat, o, Then(o))
<1> DEFINE g == Entering(d, o)
           f == o.file
           n == o.name
           m == f.maps[1]
           u == Then(o)
           C == Put(g.pendingCreates, m, [name |-> n, length |-> Len(f.bytes)])
           t == [g EXCEPT !.pendingCreates = C]
<1>1. Catalogue(cat) /\ Plan(cat, o) /\ Layout(d, cat)
      BY DEF Going, Underway
<1>2. /\ Sound(f) /\ n \notin DOMAIN cat /\ o.as = n /\ \A k \in DOMAIN cat \ {n} : Apart(f, cat[k])
      BY <1>1, PlanFacts
<1>3. EntryFor(o) = EntryOf(n, f)
      BY <1>1, <1>2, EntryForIs
<1>4. /\ Image(g) /\ Kept(d, g) /\ g.pendingCreates = d.pendingCreates
      /\ g.pendingAppends = d.pendingAppends /\ g.pendingReplacements = d.pendingReplacements /\ g.error = d.error
      BY EnteringIs
<1>5. m \in DOMAIN d.pendingSectorWrites
  <2>1. Linked(d, Start(cat, o), f, o.todo)
        BY DEF Underway, Outputs, Whole
  <2>2. Start(cat, o).maps[1] = m /\ Len(Start(cat, o).maps) = 1
        BY DEF Start
  <2>3. Len(f.maps) \in Nat \ {0}
        BY <1>2, SoundFacts
  <2>4. m \in DOMAIN d.metadata \cup DOMAIN d.pendingSectorWrites
    <3>1. ASSUME Gap(d, Start(cat, o), f)
          PROVE  m \in DOMAIN d.metadata \cup DOMAIN d.pendingSectorWrites
      <4>1. PICK j \in 2 .. Len(f.maps) : Missing(d, f, j)
          BY <2>2, <3>1 DEF Gap
      <4> QED
          BY <2>3, <4>1 DEF Missing
    <3> QED
        BY <2>1, <2>2, <2>3, <3>1 DEF Linked, Reads
  <2>5. m \notin DOMAIN d.metadata
    <3>1. m \in SectorsOf(f)
          BY <1>2, SoundFacts DEF SectorsOf
    <3>2. \A k \in DOMAIN cat : m \notin Elems(cat[k].maps)
          BY <3>1, <1>2 DEF Apart, SectorsOf
    <3> QED
          BY <3>2, <1>1 DEF Layout
  <2> QED
        BY <2>4, <2>5
<1>6. Before(d, o).status = "open" /\ EntryFor(o).status = "active" /\ Before(d, o).name = EntryFor(o).name
      BY <1>3 DEF Opened, EntryOf
<1> HIDE DEF g
<1>7. Layout(g, cat) /\ m \in DOMAIN g.pendingSectorWrites /\ DOMAIN g.pendingCreates = {}
      /\ DOMAIN g.pendingAppends = {} /\ DOMAIN g.pendingReplacements = {}
      BY <1>1, <1>4, <1>5, KeptIs DEF Kept, NoPending
<1>8. StageHypothesis(g, Before(d, o), EntryFor(o)) = t
      BY <1>1, <1>2, <1>3, <1>6, <1>7, StageCreate
<1>9. Pending(g, t, C, g.pendingAppends, g.pendingReplacements)
      BY <1>4, PendingIs
<1>10. DOMAIN C = {m} /\ C[m] = [name |-> n, length |-> Len(f.bytes)]
      BY <1>7 DEF Put
<1> HIDE DEF t, C
<1>11. /\ Entrant(d, t, o) /\ Kept(d, t) /\ t.io = d.io /\ t.error = d.error
       /\ t.directory[f.slot] = EntryFor(o)
       /\ t.pendingCreates = C /\ t.pendingAppends = g.pendingAppends /\ t.pendingReplacements = g.pendingReplacements
      BY <1>9, PendingEntrant DEF g
<1>12. Passed(d, o, g, g, t, t)
      BY <1>4, <1>6, <1>8, <1>11, NoChange DEF Passed, g
<1>13. Plan(cat, u) /\ u.name = n /\ u.file = f /\ u.kind = "create" /\ u.phase = "rest" /\ u.todo = o.todo \ {Dir}
       /\ Start(cat, u) = Start(cat, o)
      BY <1>1, ThenIs
<1> HIDE DEF u
<1>14. Layout(t, cat) /\ Linked(t, Start(cat, o), f, o.todo \ {Dir})
      BY <1>11, LinkedOn DEF Outputs, Whole
<1>15. Creating(t, u)
      BY <1>3, <1>7, <1>10, <1>11, <1>13 DEF Creating, Only
<1>16. Underway(t, cat, u)
      BY <1>13, <1>14, <1>15 DEF Underway
<1> QED
      BY <1>11, <1>12, <1>13, <1>16, StepTo DEF u

(* The longer entry of an append stages it. *)
LEMMA DirAppend ==
    ASSUME NEW d, NEW cat, NEW o, Going(d, cat, o), Underway(d, cat, o), d.error = FALSE, o.kind = "append",
           NoPending(d), Before(d, o) = EntryOf(o.name, cat[o.name])
    PROVE  /\ Going(DirWritten(d, o), cat, Then(o)) /\ (DirWritten(d, o).error => d.io.fault > 0)
           /\ EntersAs(d, cat, o, Then(o))
<1> DEFINE g == Entering(d, o)
           f == o.file
           n == o.name
           m == f.maps[1]
           old == cat[n]
           u == Then(o)
<1>1. Catalogue(cat) /\ Plan(cat, o) /\ Layout(d, cat) /\ Appending(d, old, o)
      BY DEF Going, Underway
<1>2. Sound(f) /\ n \in DOMAIN cat /\ o.as = n
      BY <1>1, PlanFacts
<1>3. o.phase = "rest" /\ Begins(old, f) /\ Len(old.bytes) < Len(f.bytes)
      BY <1>1 DEF Plan, Whole
<1>4. EntryFor(o) = EntryOf(n, f)
      BY <1>1, <1>2, <1>3, EntryForIs
<1>5. /\ Image(g) /\ Kept(d, g) /\ g.pendingCreates = d.pendingCreates
      /\ g.pendingAppends = d.pendingAppends /\ g.pendingReplacements = d.pendingReplacements /\ g.error = d.error
      BY EnteringIs
<1>6. EntryFor(o).status = "active" /\ Before(d, o).name = EntryFor(o).name
      BY <1>4 DEF EntryOf
<1> HIDE DEF g
<1>7. Layout(g, cat) /\ DOMAIN g.pendingCreates = {} /\ DOMAIN g.pendingAppends = {} /\ DOMAIN g.pendingReplacements = {}
      BY <1>1, <1>5, KeptIs DEF NoPending
<1>8. PICK i \in DOMAIN g.files : g.files[i] = Record(n, old) /\
             StageHypothesis(g, EntryOf(n, old), EntryOf(n, f)) =
               [g EXCEPT !.pendingAppends = Put(g.pendingAppends, m, PendingAppend(old, o, i, TRUE))]
  <2>1. \E i \in DOMAIN g.files : ToAppend(g, cat, o, i)
        BY <1>1, <1>2, <1>3, <1>5, <1>7, StageAppend
  <2> QED
        BY <2>1 DEF ToAppend
<1> DEFINE C == Put(g.pendingAppends, m, PendingAppend(old, o, i, TRUE))
           t == [g EXCEPT !.pendingAppends = C]
<1>9. StageHypothesis(g, Before(d, o), EntryFor(o)) = t
      BY <1>4, <1>8
<1>10. Pending(g, t, g.pendingCreates, C, g.pendingReplacements)
      BY <1>5, PendingIs
<1>11. DOMAIN C = {m} /\ C[m] = PendingAppend(old, o, i, TRUE)
      BY <1>7 DEF Put
<1> HIDE DEF t, C
<1>12. /\ Entrant(d, t, o) /\ Kept(d, t) /\ t.io = d.io /\ t.error = d.error
       /\ t.directory[f.slot] = EntryFor(o)
       /\ t.pendingCreates = g.pendingCreates /\ t.pendingAppends = C /\ t.pendingReplacements = g.pendingReplacements
      BY <1>10, PendingEntrant DEF g
<1>13. Passed(d, o, g, g, t, t)
      BY <1>5, <1>6, <1>9, <1>12, NoChange DEF Passed, g
<1>14. Plan(cat, u) /\ u.name = n /\ u.file = f /\ u.kind = "append" /\ u.phase = "rest" /\ u.todo = o.todo \ {Dir}
       /\ Start(cat, u) = Start(cat, o)
      BY <1>1, <1>3, ThenIs
<1> HIDE DEF u
<1>15. Layout(t, cat) /\ Linked(t, Start(cat, o), f, o.todo \ {Dir})
      BY <1>3, <1>12, LinkedOn DEF Outputs
<1>16. t.files = g.files /\ t.pendingSectorWrites = d.pendingSectorWrites
      BY <1>5, <1>12 DEF Kept
<1>17. PendingAppend(old, u, i, TRUE) = PendingAppend(old, o, i, TRUE)
      BY <1>14 DEF PendingAppend
<1>18. Only(t, {}, {m}, {})
      BY <1>7, <1>11, <1>12 DEF Only
<1>19. old.data[Len(old.data)] # Dir
  <2>1. Sound(old)
        BY <1>1, <1>2, PlanFacts
  <2>2. Len(old.data) \in 1 .. Len(old.data) /\ old.data \in Seq(Sectors) /\ Dir \notin Sectors
        BY <2>1, SoundFacts
  <2> QED
        BY <2>2, ElemsAre
<1>20. Len(old.bytes) % SectorSize # 0 /\ old.data[Len(old.data)] \notin u.todo =>
                old.data[Len(old.data)] \in DOMAIN t.pendingSectorWrites
      BY <1>1, <1>14, <1>16, <1>19 DEF Appending
<1>21. Appending(t, old, u)
  <2>1. t.directory[f.slot] = EntryOf(n, f)
        BY <1>4, <1>12
  <2>2. \E x \in DOMAIN t.files, b \in BOOLEAN :
           t.files[x] = Record(n, old) /\ t.pendingAppends[m] = PendingAppend(old, u, x, b)
    <3>1. /\ i \in DOMAIN t.files /\ t.files[i] = Record(n, old) /\ TRUE \in BOOLEAN
          /\ t.pendingAppends[m] = PendingAppend(old, u, i, TRUE)
          BY <1>8, <1>11, <1>12, <1>16, <1>17
    <3> HIDE DEF m, n, old
    <3> QED
          BY ONLY <3>1
  <2>3. u.name = n /\ u.file = f
        BY <1>14
  <2> HIDE DEF f, n, old
  <2> QED
        BY ONLY <1>18, <1>20, <2>1, <2>2, <2>3 DEF Appending, m
<1>22. Underway(t, cat, u)
      BY <1>14, <1>15, <1>21 DEF Underway
<1> QED
      BY <1>12, <1>13, <1>14, <1>22, StepTo DEF u

(* The open entry of a replacement begins it. *)
LEMMA DirReplaceOpen ==
    ASSUME NEW d, NEW cat, NEW o, Going(d, cat, o), Underway(d, cat, o), d.error = FALSE, o.kind = "replace",
           o.phase = "open"
    PROVE  /\ Going(DirWritten(d, o), cat, Emptying(o)) /\ DirWritten(d, o).error = FALSE
           /\ EntersAs(d, cat, o, Emptying(o))
<1> DEFINE g == Entering(d, o)
           f == o.file
           n == o.name
           m == f.maps[1]
           old == cat[n]
           u == Emptying(o)
<1>1. Catalogue(cat) /\ Plan(cat, o) /\ Layout(d, cat) /\ NoPending(d) /\ Before(d, o) = EntryOf(n, old)
      BY DEF Going, Underway, Replacing, Before
<1>2. Sound(f) /\ n \in DOMAIN cat /\ o.as = n /\ Sound(old)
      BY <1>1, PlanFacts
<1>3. old.maps[1] = m
  <2>1. Begins(f, old) /\ Len(f.maps) \in Nat \ {0}
        BY <1>1, <1>2, SoundFacts DEF Plan
  <2>2. 1 \in 1 .. Len(f.maps)
        BY <2>1
  <2> QED
        BY <2>1, <2>2 DEF Begins
<1>4. EntryFor(o) = Opened(n, f)
      BY <1>1, <1>2, EntryForIs
<1>5. /\ Image(g) /\ Kept(d, g) /\ g.pendingCreates = d.pendingCreates
      /\ g.pendingAppends = d.pendingAppends /\ g.pendingReplacements = d.pendingReplacements /\ g.error = d.error
      BY EnteringIs
<1>6. EntryFor(o).status = "open" /\ Before(d, o).name = EntryFor(o).name
      BY <1>1, <1>4 DEF EntryOf, Opened
<1> HIDE DEF g
<1>7. Layout(g, cat) /\ DOMAIN g.pendingCreates = {} /\ DOMAIN g.pendingAppends = {} /\ DOMAIN g.pendingReplacements = {}
      BY <1>1, <1>5, KeptIs DEF NoPending
<1>8. PICK i \in DOMAIN g.files : g.files[i] = Record(n, old) /\
             BeginReplacement(g, EntryOf(n, old), Opened(n, f)) =
               [g EXCEPT !.pendingReplacements = Put(g.pendingReplacements, old.maps[1], [file |-> i, name |-> old.host])]
  <2>1. \E i \in DOMAIN g.files : ToReplace(g, cat, n, f, i)
        BY <1>1, <1>2, <1>5, <1>7, OpenReplacement
  <2> QED
        BY <2>1 DEF ToReplace
<1> DEFINE C == Put(g.pendingReplacements, m, [file |-> i, name |-> old.host])
           t == [g EXCEPT !.pendingReplacements = C]
<1>9. BeginReplacement(g, Before(d, o), EntryFor(o)) = t
      BY <1>1, <1>3, <1>4, <1>8
<1>10. Pending(g, t, g.pendingCreates, g.pendingAppends, C)
      BY <1>5, PendingIs
<1>11. DOMAIN C = {m} /\ C[m] = [file |-> i, name |-> old.host]
      BY <1>7 DEF Put
<1> HIDE DEF t, C
<1>12. /\ Entrant(d, t, o) /\ Kept(d, t) /\ t.io = d.io /\ t.error = d.error
       /\ t.directory[f.slot] = EntryFor(o)
       /\ t.pendingCreates = g.pendingCreates /\ t.pendingAppends = g.pendingAppends /\ t.pendingReplacements = C
      BY <1>10, PendingEntrant DEF g
<1>13. Passed(d, o, g, t, t, t)
      BY <1>5, <1>6, <1>9, <1>12, NoChange DEF Passed, g
<1>14. Plan(cat, u) /\ u.name = n /\ u.file = f /\ u.kind = "replace" /\ u.phase = "empty"
      BY <1>1, PhasesAre DEF Whole
<1> HIDE DEF u
<1>15. Layout(t, cat)
      BY <1>1, <1>12, KeptIs
<1>16. t.files = g.files
      BY <1>5, <1>12 DEF Kept
<1>17. Only(t, {}, {}, {m})
      BY <1>7, <1>11, <1>12 DEF Only
<1>18. Replacing(t, old, u)
      BY <1>4, <1>8, <1>11, <1>12, <1>14, <1>16, <1>17 DEF Replacing
<1>19. Underway(t, cat, u)
      BY <1>14, <1>15, <1>18 DEF Underway
<1> QED
      BY <1>12, <1>13, <1>14, <1>19, StepTo DEF u

(* The closed entry of a replacement. *)
LEMMA DirReplaceRest ==
    ASSUME NEW d, NEW cat, NEW o, Going(d, cat, o), Underway(d, cat, o), d.error = FALSE, o.kind = "replace",
           o.phase = "rest", Before(d, o) = Opened(o.name, o.file)
    PROVE  /\ Going(DirWritten(d, o), cat, Then(o)) /\ (DirWritten(d, o).error => d.io.fault > 0)
           /\ EntersAs(d, cat, o, Then(o))
<1> DEFINE g == Entering(d, o)
           f == o.file
           n == o.name
           m == f.maps[1]
           old == cat[n]
           u == Then(o)
<1>1. Catalogue(cat) /\ Plan(cat, o) /\ Layout(d, cat) /\ Replacing(d, old, o)
      BY DEF Going, Underway
<1>2. Sound(f) /\ n \in DOMAIN cat /\ o.as = n /\ Sound(old)
      BY <1>1, PlanFacts
<1>3. old.maps[1] = m /\ Len(f.bytes) <= Len(old.bytes)
  <2>1. Begins(f, old) /\ Len(f.bytes) <= Len(old.bytes)
        BY <1>1 DEF Plan
  <2>2. Len(f.maps) \in Nat \ {0}
        BY <1>2, SoundFacts
  <2>3. 1 \in 1 .. Len(f.maps)
        BY <2>2
  <2> QED
        BY <2>1, <2>3 DEF Begins
<1>4. EntryFor(o) = EntryOf(n, f)
      BY <1>1, <1>2, EntryForIs
<1>5. /\ Image(g) /\ Kept(d, g) /\ g.pendingCreates = d.pendingCreates
      /\ g.pendingAppends = d.pendingAppends /\ g.pendingReplacements = d.pendingReplacements /\ g.error = d.error
      /\ g.io = d.io /\ g.directory[f.slot] = EntryFor(o)
      /\ \A k \in 1 .. Slots : k # f.slot => g.directory[k] = d.directory[k]
      BY EnteringIs
<1>6. EntryFor(o).status = "active" /\ Before(d, o).status = "open"
      BY <1>4 DEF EntryOf, Opened
<1> HIDE DEF g
<1>7. Layout(g, cat)
      BY <1>1, <1>5, KeptIs
<1>8. StageHypothesis(g, Before(d, o), EntryFor(o)) = g
      BY <1>1, <1>2, <1>3, <1>4, <1>5, <1>7, StageKnown
<1>9. Passed(d, o, g, g, g, g)
      BY <1>5, <1>6, <1>8, NoChange DEF Passed, g
<1>10. Entrant(d, g, o)
      BY <1>5 DEF Entrant
<1>11. Plan(cat, u) /\ u.name = n /\ u.file = f /\ u.kind = "replace" /\ u.phase = "rest" /\ u.todo = o.todo \ {Dir}
       /\ Start(cat, u) = Start(cat, o)
      BY <1>1, ThenIs
<1> HIDE DEF u
<1>12. Layout(g, cat) /\ Linked(g, Start(cat, o), f, o.todo \ {Dir})
      BY <1>5, LinkedOn DEF Outputs, Whole
<1>13. g.files = d.files /\ (\A c, a, r : Only(d, c, a, r) => Only(g, c, a, r))
      BY <1>5 DEF Kept, Only
<1>14. Replacing(g, old, u)
      BY <1>1, <1>4, <1>5, <1>11, <1>13 DEF Replacing
<1>15. Underway(g, cat, u)
      BY <1>11, <1>12, <1>14 DEF Underway
<1> QED
      BY <1>5, <1>9, <1>10, <1>11, <1>15, StepTo DEF u

(* The deleted entry of a file removes it. *)
LEMMA DirErase ==
    ASSUME SdfsGuest, NEW d, NEW cat, NEW o, Going(d, cat, o), d.error = FALSE, o.kind = "erase"
    PROVE  /\ DirWritten(d, o).error = FALSE /\ Resting(DirWritten(d, o), After(cat, o))
           /\ \E g : Kept(d, g) /\ g.io = d.io /\ Erased(g, DirWritten(d, o), cat, o.name)
<1> DEFINE g == Entering(d, o)
           f == o.file
           n == o.name
           C == Without(cat, {n})
           t == CommitDelete(g, Before(d, o), EntryFor(o))
<1>1. Catalogue(cat) /\ Plan(cat, o) /\ Around(d, cat, o) /\ Underway(d, cat, o)
      BY DEF Going, Committed, Outputs, Whole
<1>2. /\ n \in DOMAIN cat /\ cat[n].slot = f.slot /\ f.slot \in 1 .. Slots
      /\ \A m \in DOMAIN cat : cat[m].slot \in 1 .. Slots
      BY <1>1, PlanFacts, SoundFacts
<1>3. Layout(d, cat) /\ NoPending(d) /\ Before(d, o) = EntryOf(n, cat[n])
      BY <1>1, <1>2 DEF Underway, AtRest, Before
<1>4. EntryFor(o).status = "deleted"
      BY <1>1, EntryForIs
<1>5. /\ Image(g) /\ Kept(d, g) /\ g.pendingCreates = d.pendingCreates
      /\ g.pendingAppends = d.pendingAppends /\ g.pendingReplacements = d.pendingReplacements /\ g.error = d.error
      /\ g.io = d.io /\ g.directory[f.slot] = EntryFor(o)
      /\ \A k \in 1 .. Slots : k # f.slot => g.directory[k] = d.directory[k]
      BY EnteringIs
<1> HIDE DEF g
<1>6. Layout(g, cat)
      BY <1>3, <1>5, KeptIs
<1>7. Erased(g, CommitDelete(g, EntryOf(n, cat[n]), EntryFor(o)), cat, n)
      BY <1>1, <1>2, <1>4, <1>5, <1>6, EraseCommits
<1>8. Erased(g, t, cat, n)
      BY <1>3, <1>7
<1> HIDE DEF t
<1>9. /\ Image(t) /\ t.error = FALSE /\ t.directory = g.directory /\ NoPending(t) /\ DOMAIN t.pendingAppends = {}
      /\ Layout(t, C) /\ \A m \in DOMAIN cat \ {n} : Reads(g, cat[m]) => Reads(t, cat[m])
      BY <1>3, <1>5, <1>8 DEF Erased, NoPending
<1>10. Passed(d, o, g, g, g, t)
      BY <1>4, <1>5, NoChange DEF Passed, g, t
<1>11. Waiting(t) = {}
      BY <1>9 DEF Waiting
<1>12. DirWritten(d, o) = t
  <2> HIDE DEF t, g
  <2>1. DirWritten(d, o) = CommitEach("append", t, Waiting(t))
        BY <1>10, DirWrittenIs
  <2>2. CommitEach("append", t, {}) = t
        BY ONLY CommitNone
  <2> QED
        BY ONLY <1>11, <2>1, <2>2
<1>13. Catalogue(C)
      BY <1>1, WithoutCatalogue
<1>14. DOMAIN C = DOMAIN cat \ {n} /\ \A m \in DOMAIN cat \ {n} : C[m] = cat[m]
      BY WithoutIs
<1>15. \A m \in DOMAIN C : AtRest(t, C, m)
  <2> SUFFICES ASSUME NEW m \in DOMAIN cat \ {n} PROVE AtRest(t, C, m)
        BY <1>14
  <2>1. AtRest(d, cat, m)
        BY <1>1 DEF Around
  <2>2. cat[m].slot # f.slot
        BY <1>1, PlanFacts DEF Apart
  <2>3. Reads(t, cat[m])
        BY <2>1, <1>5, <1>9, KeptIs DEF AtRest
  <2>4. t.directory[cat[m].slot] = EntryOf(m, cat[m])
        BY <2>1, <2>2, <1>2, <1>5, <1>9 DEF AtRest
  <2> QED
        BY <2>3, <2>4, <1>14 DEF AtRest
<1>16. \A i \in 1 .. Slots : Vacant(t, i) \/ \E m \in DOMAIN C : C[m].slot = i
  <2> SUFFICES ASSUME NEW i \in 1 .. Slots PROVE Vacant(t, i) \/ \E m \in DOMAIN C : C[m].slot = i
        OBVIOUS
  <2>1. CASE i = f.slot
        BY <2>1, <1>4, <1>5, <1>9 DEF Vacant
  <2>2. CASE i # f.slot
    <3>1. Vacant(d, i) => Vacant(t, i)
          BY <2>2, <1>5, <1>9 DEF Vacant
    <3>2. Vacant(d, i) \/ \E m \in DOMAIN cat : cat[m].slot = i
          BY <2>2, <1>1 DEF Around
    <3> QED
          BY <3>1, <3>2, <2>2, <1>2, <1>14
  <2> QED
        BY <2>1, <2>2
<1>17. After(cat, o) = C
      BY DEF After
<1>18. Resting(DirWritten(d, o), After(cat, o))
      BY <1>9, <1>12, <1>13, <1>15, <1>16, <1>17 DEF Resting
<1> QED
      BY <1>5, <1>8, <1>9, <1>12, <1>18

(* The entry with another name renames a file. *)
LEMMA DirRename ==
    ASSUME SdfsGuest, NEW d, NEW cat, NEW o, Going(d, cat, o), d.error = FALSE, o.kind = "rename"
    PROVE  /\ DirWritten(d, o).error = FALSE /\ Resting(DirWritten(d, o), After(cat, o))
           /\ \E g : Kept(d, g) /\ g.io = d.io /\ Renamed(g, DirWritten(d, o), cat, o.name, o.as, o.file)
<1> DEFINE g == Entering(d, o)
           f == o.file
           n == o.name
           title == o.as
           old == cat[n]
           W == Without(cat, {n})
           C == Put(W, title, f)
           t == CommitRename(g, Before(d, o), EntryFor(o))
<1>1. Catalogue(cat) /\ Plan(cat, o) /\ Around(d, cat, o) /\ Underway(d, cat, o)
      BY DEF Going, Committed, Outputs, Whole
<1>2. /\ n \in DOMAIN cat /\ cat[n].slot = f.slot /\ f.slot \in 1 .. Slots /\ Sound(f) /\ title \in AllNames
      /\ \A m \in DOMAIN cat : cat[m].slot \in 1 .. Slots
      BY <1>1, PlanFacts, SoundFacts
<1>3. title \notin DOMAIN cat /\ f.host = title /\ f = [old EXCEPT !.host = title] /\ o.phase = "rest"
      BY <1>1 DEF Plan, Whole
<1>4. Layout(d, cat) /\ NoPending(d) /\ Before(d, o) = EntryOf(n, old) /\ Reads(d, old)
      BY <1>1, <1>2 DEF Underway, AtRest, Before
<1>5. EntryFor(o) = EntryOf(title, f)
      BY <1>1, <1>3, EntryForIs
<1>6. f.maps = old.maps /\ f.data = old.data /\ f.bytes = old.bytes /\ f.slot = old.slot
  <2>1. old \in Files
        BY <1>1, <1>2, SoundFacts, PlanFacts
  <2> QED
        BY <2>1, <1>3 DEF Files
<1>7. /\ Image(g) /\ Kept(d, g) /\ g.pendingCreates = d.pendingCreates
      /\ g.pendingAppends = d.pendingAppends /\ g.pendingReplacements = d.pendingReplacements /\ g.error = d.error
      /\ g.io = d.io /\ g.directory[f.slot] = EntryFor(o)
      /\ \A k \in 1 .. Slots : k # f.slot => g.directory[k] = d.directory[k]
      BY EnteringIs
<1> HIDE DEF g, f, n, title, old
<1>8. Layout(g, cat)
      BY <1>4, <1>7, KeptIs
<1>9. Renamed(g, CommitRename(g, EntryOf(n, old), EntryOf(title, f)), cat, n, title, f)
      BY <1>1, <1>2, <1>3, <1>6, <1>7, <1>8, RenameCommits DEF old
<1>10. Renamed(g, t, cat, n, title, f)
      BY <1>4, <1>5, <1>9
<1> HIDE DEF t, W
<1>11. /\ Image(t) /\ t.error = FALSE /\ t.directory = g.directory /\ NoPending(t) /\ DOMAIN t.pendingAppends = {}
       /\ t.metadata = g.metadata /\ t.pendingSectorWrites = g.pendingSectorWrites /\ Layout(t, C)
      BY <1>4, <1>7, <1>10 DEF Renamed, NoPending, W
<1>12. Catalogue(W) /\ DOMAIN W = DOMAIN cat \ {n} /\ \A m \in DOMAIN cat \ {n} : W[m] = cat[m]
      BY <1>1, WithoutCatalogue, WithoutIs DEF W
<1>13. \A m \in DOMAIN cat \ {n} : Apart(f, cat[m])
      BY <1>1, PlanFacts DEF f, n
<1>14. Fits(W, title, f)
      BY <1>2, <1>3, <1>12, <1>13 DEF Fits
<1>15. Catalogue(C)
      BY <1>12, <1>14, PutCatalogue
<1>16. DOMAIN C = DOMAIN W \cup {title} /\ C[title] = f /\ \A m \in DOMAIN W \ {title} : C[m] = W[m]
      BY DEF Put
<1> HIDE DEF C
<1>17. StageHypothesis(t, Before(d, o), EntryFor(o)) = t
  <2>1. title \in DOMAIN C /\ f.maps[1] = C[title].maps[1] /\ Len(f.bytes) <= Len(C[title].bytes)
        BY <1>2, <1>16, SoundFacts
  <2> QED
        BY <2>1, <1>2, <1>5, <1>11, <1>15, StageKnown
<1>18. EntryFor(o).status = "active"
      BY <1>5 DEF EntryOf
<1>19. Passed(d, o, t, t, t, t)
      BY <1>11, <1>17, <1>18, NoChange DEF Passed, g, t
<1>20. Waiting(t) = {}
      BY <1>11 DEF Waiting
<1>21. DirWritten(d, o) = t
  <2>1. DirWritten(d, o) = CommitEach("append", t, Waiting(t))
        BY <1>19, DirWrittenIs
  <2> QED
        BY <2>1, <1>20, CommitNone
<1>22. \A k : Reads(d, k) => Reads(t, k)
      BY <1>7, <1>11 DEF Kept, Reads, Value
<1>23. \A m \in DOMAIN C : AtRest(t, C, m)
  <2>1. ASSUME NEW m \in DOMAIN cat \ {n} PROVE AtRest(t, C, m)
    <3>1. AtRest(d, cat, m)
          BY <1>1 DEF Around, n
    <3>2. cat[m].slot # f.slot
          BY <1>13 DEF Apart
    <3>3. Reads(t, cat[m])
          BY <3>1, <1>22 DEF AtRest
    <3>4. t.directory[cat[m].slot] = EntryOf(m, cat[m])
          BY <3>1, <3>2, <1>2, <1>7, <1>11 DEF AtRest
    <3>5. C[m] = cat[m]
          BY <1>3, <1>12, <1>16
    <3> QED
          BY <3>3, <3>4, <3>5 DEF AtRest
  <2>2. AtRest(t, C, title)
    <3>1. Reads(t, old)
          BY <1>4, <1>22
    <3>2. Reads(t, f)
          BY <3>1, <1>6 DEF Reads
    <3> QED
          BY <3>2, <1>5, <1>7, <1>11, <1>16 DEF AtRest
  <2> QED
        BY <2>1, <2>2, <1>12, <1>16
<1>24. \A i \in 1 .. Slots : Vacant(t, i) \/ \E m \in DOMAIN C : C[m].slot = i
  <2> SUFFICES ASSUME NEW i \in 1 .. Slots PROVE Vacant(t, i) \/ \E m \in DOMAIN C : C[m].slot = i
        OBVIOUS
  <2>1. CASE i = f.slot
        BY <2>1, <1>16
  <2>2. CASE i # f.slot
    <3>1. Vacant(d, i) => Vacant(t, i)
          BY <2>2, <1>7, <1>11 DEF Vacant
    <3>2. Vacant(d, i) \/ \E m \in DOMAIN cat : cat[m].slot = i
          BY <2>2, <1>1 DEF Around, f
    <3>3. ASSUME NEW m \in DOMAIN cat, cat[m].slot = i PROVE m \in DOMAIN C /\ C[m].slot = i
      <4>1. m # n /\ m # title
            BY <3>3, <2>2, <1>2, <1>3
      <4> QED
            BY <4>1, <3>3, <1>12, <1>16
    <3> QED
          BY <3>1, <3>2, <3>3
  <2> QED
        BY <2>1, <2>2
<1>25. After(cat, o) = C
      BY DEF After, C, W, n, title, f
<1>26. Resting(DirWritten(d, o), After(cat, o))
      BY <1>11, <1>15, <1>21, <1>23, <1>24, <1>25 DEF Resting
<1> QED
      BY <1>7, <1>10, <1>11, <1>21, <1>26 DEF n, title, f

(* A write of the directory by the operation under way. *)
LEMMA DirGoing ==
    ASSUME SdfsGuest, NEW d, NEW cat, NEW o, Going(d, cat, o), d.error = FALSE, Dir \in o.todo
    PROVE  LET e == DirWritten(d, o)
           IN  /\ o.kind \in {"erase", "rename"} => e.error = FALSE /\ Resting(e, After(cat, o))
               /\ o.kind \notin {"erase", "rename"} /\ o.phase = "open" =>
                    e.error = FALSE /\ Going(e, cat, Emptying(o)) /\ EntersAs(d, cat, o, Emptying(o))
               /\ o.kind \notin {"erase", "rename"} /\ o.phase # "open" =>
                    o.phase = "rest" /\ Going(e, cat, Then(o)) /\ EntersAs(d, cat, o, Then(o))
               /\ e.error => d.io.fault > 0
<1> DEFINE e == DirWritten(d, o)
           f == o.file
           n == o.name
<1>1. Catalogue(cat) /\ Plan(cat, o) /\ (Underway(d, cat, o) \/ Committed(d, cat, o))
      BY DEF Going
<1>2. o \in Ops /\ Sound(f) /\ o.phase \in {"open", "empty", "rest"}
      BY <1>1, PlanFacts DEF Ops
<1>3. o.kind \in Whole \cup {"append", "erase", "rename"}
      BY <1>1, <1>2 DEF Ops, Plan
<1>4. o.phase # "empty"
  <2>1. f.maps[1] # Dir
        BY <1>2, SoundFacts
  <2> QED
        BY <2>1, <1>1 DEF Plan
<1>5. o.kind \notin Whole => o.phase = "rest"
      BY <1>1 DEF Plan
<1>6. CASE o.kind = "erase"
      BY <1>5, <1>6, DirErase DEF Whole
<1>7. CASE o.kind = "rename"
      BY <1>5, <1>7, DirRename DEF Whole
<1>8. CASE o.kind \in Outputs /\ Before(d, o) = EntryOf(n, f) /\ o.phase = "rest"
      BY <1>8, DirSame DEF Outputs, Whole
<1>9. CASE Committed(d, cat, o)
  <2>1. After(cat, o) = Put(cat, n, f) /\ o.phase = "rest" /\ o.kind \in Outputs
        BY <1>9 DEF Committed, After, Outputs, Whole
  <2>2. After(cat, o)[n] = f
        BY <2>1 DEF Put
  <2>3. Before(d, o) = EntryOf(n, f)
        BY <1>9, <2>2 DEF Committed, AtRest, Before
  <2> QED
        BY <2>1, <2>3, <1>8
<1>10. CASE Underway(d, cat, o) /\ o.kind = "create"
  <2>1. CASE o.phase = "open"
        BY <2>1, <1>10, DirCreateOpen
  <2>2. CASE o.phase = "rest"
    <3>1. Creating(d, o)
          BY <1>10 DEF Underway
    <3>2. \/ NoPending(d) /\ Before(d, o) = Opened(n, f)
          \/ Before(d, o) = EntryOf(n, f)
          BY <3>1, <2>2 DEF Creating, Before
    <3>3. CASE NoPending(d) /\ Before(d, o) = Opened(n, f)
          BY <3>3, <2>2, <1>10, DirCreateRest
    <3> QED
          BY <3>2, <3>3, <2>2, <1>8, <1>10 DEF Outputs, Whole
  <2> QED
        BY <2>1, <2>2, <1>2, <1>4
<1>11. CASE Underway(d, cat, o) /\ o.kind = "append"
  <2>1. Appending(d, cat[n], o) /\ o.phase = "rest"
        BY <1>5, <1>11 DEF Underway, Whole
  <2>2. (NoPending(d) /\ Before(d, o) = EntryOf(n, cat[n])) \/ Before(d, o) = EntryOf(n, f)
        BY <2>1 DEF Appending, Before
  <2>3. CASE NoPending(d) /\ Before(d, o) = EntryOf(n, cat[n])
        BY <2>1, <2>3, <1>11, DirAppend
  <2> QED
        BY <2>1, <2>2, <2>3, <1>8, <1>11 DEF Outputs
<1>12. CASE Underway(d, cat, o) /\ o.kind = "replace"
  <2>1. CASE o.phase = "open"
        BY <2>1, <1>12, DirReplaceOpen
  <2>2. CASE o.phase = "rest"
    <3>1. Replacing(d, cat[n], o)
          BY <1>12 DEF Underway
    <3>2. Before(d, o) = Opened(n, f) \/ Before(d, o) = EntryOf(n, f)
          BY <3>1, <2>2 DEF Replacing, Before
    <3>3. CASE Before(d, o) = Opened(n, f)
          BY <3>3, <2>2, <1>12, DirReplaceRest
    <3> QED
          BY <3>2, <3>3, <2>2, <1>8, <1>12 DEF Outputs, Whole
  <2> QED
        BY <2>1, <2>2, <1>2, <1>4
<1> QED
      BY <1>1, <1>3, <1>6, <1>7, <1>9, <1>10, <1>11, <1>12 DEF Whole

-----------------------------------------------------------------------------
(* A write. *)

(* The image as a write begins, and with the io of its read. *)
Begun(d, f)    == [d EXCEPT !.io.fault = f, !.io.ok = TRUE, !.error = FALSE]

Accessed(d, x) == [d EXCEPT !.io = Access(d, x)]

(* The image as a write begins is the one before it. *)
LEMMA BegunIs ==
    ASSUME NEW d, Image(d), NEW f \in Nat
    PROVE  /\ Same(d, Begun(d, f)) /\ Begun(d, f).error = FALSE /\ Begun(d, f).io.fault = f
           /\ Begun(d, f).io.ok = TRUE /\ Begun(d, f).io.host = d.io.host
<1> DEFINE e  == Begun(d, f)
           io == [host |-> d.io.host, fault |-> f, ok |-> TRUE]
           a  == [d EXCEPT !.io = io]
<1>1. d.io = [host |-> d.io.host, fault |-> d.io.fault, ok |-> d.io.ok]
      BY DEF Image
<1>2. Storage(io, DOMAIN d.io.host)
      BY DEF Storage
<1>3. [[d.io EXCEPT !.fault = f] EXCEPT !.ok = TRUE] = io
  <2> DEFINE c == [d.io EXCEPT !.fault = f]
  <2>1. c = [host |-> d.io.host, fault |-> f, ok |-> d.io.ok]
        BY <1>1
  <2> HIDE DEF c
  <2>2. \A t : [c EXCEPT !.ok = t] = [host |-> d.io.host, fault |-> f, ok |-> t]
        BY <2>1
  <2> QED
        BY <2>2 DEF c, io
<1>4. Image(a) /\ Same(d, a) /\ a.io = io /\ a.error = d.error
  <2> HIDE DEF io
  <2> QED
      BY <1>2, WithIo DEF Same
<1>5. e = [a EXCEPT !.error = FALSE]
  <2>1. d = Made(d.files, d.allocated, d.metadata, d.dataRefs, d.directory, d.pendingSectorWrites,
                 d.pendingCreates, d.pendingAppends, d.pendingReplacements, d.io, d.error)
        BY ImageShape
  <2>2. e = [[d EXCEPT !.io = [[d.io EXCEPT !.fault = f] EXCEPT !.ok = TRUE]] EXCEPT !.error = FALSE]
        BY <2>1 DEF Begun, Made
  <2> HIDE DEF e, io
  <2> QED
        BY <2>2, <1>3
<1>6. e = Made(d.files, d.allocated, d.metadata, d.dataRefs, d.directory, d.pendingSectorWrites,
               d.pendingCreates, d.pendingAppends, d.pendingReplacements, io, FALSE)
  <2>1. a = Made(d.files, d.allocated, d.metadata, d.dataRefs, d.directory, d.pendingSectorWrites,
                 d.pendingCreates, d.pendingAppends, d.pendingReplacements, io, d.error)
    <3> HIDE DEF a, io
    <3> QED
        BY <1>4, ImageShape DEF Same
  <2> HIDE DEF a, e, io
  <2> QED
        BY <2>1, <1>5 DEF Made
<1> HIDE DEF e
<1>7. /\ e.files = d.files /\ e.allocated = d.allocated /\ e.metadata = d.metadata /\ e.dataRefs = d.dataRefs
      /\ e.directory = d.directory /\ e.pendingSectorWrites = d.pendingSectorWrites
      /\ e.pendingCreates = d.pendingCreates /\ e.pendingAppends = d.pendingAppends
      /\ e.pendingReplacements = d.pendingReplacements /\ e.io = io /\ e.error = FALSE
  <2> HIDE DEF io
  <2> QED
      BY <1>6 DEF Made
<1>8. Image(e)
  <2> HIDE DEF io
  <2>1. e = Made(e.files, e.allocated, e.metadata, e.dataRefs, e.directory, e.pendingSectorWrites,
               e.pendingCreates, e.pendingAppends, e.pendingReplacements, e.io, e.error)
      BY <1>6, <1>7
  <2> QED
      BY <2>1, <1>2, <1>7 DEF Image, Storage, Made
<1> QED
      BY <1>7, <1>8 DEF Same, e

(* The read before a write: only a sector of a file is read from the host. *)
LEMMA AccessIs ==
    ASSUME NEW d, Image(d), NEW x
    PROVE  /\ Storage(Access(d, x), DOMAIN d.io.host) /\ Access(d, x).host = d.io.host
           /\ x \notin DOMAIN d.dataRefs => Access(d, x) = d.io
<1> DEFINE H == DOMAIN d.io.host
           h == d.files[d.dataRefs[x].file].hostName
           o == Open(d.io, h)
           w == ReadSector(d, x) # <<>>
<1>1. Storage(d.io, H)
      BY ImageStorage
<1>2. Storage(o, H) /\ o.host = d.io.host
  <2> HIDE DEF h, H
  <2> QED
      BY <1>1, OpenIs
<1>3. Storage(Call(o, "pread", w), H) /\ Call(o, "pread", w).host = o.host
  <2> HIDE DEF o, H, w
  <2> QED
      BY <1>2, CallIs
<1>4. Access(d, x) \in {d.io, o, Call(o, "pread", w)} /\ (x \notin DOMAIN d.dataRefs => Access(d, x) = d.io)
      BY DEF Access
<1> HIDE DEF o, w, H
<1> QED
      BY <1>1, <1>2, <1>3, <1>4 DEF H

(* Where a write is kept before it is anything else. *)
Noted(d, x, c) == [d EXCEPT !.pendingSectorWrites = Put(@, x, c)]

(* A write is kept in the overlay first. *)
LEMMA NotedOverlay ==
    ASSUME NEW d, Image(d), NEW x \in Sectors, NEW c
    PROVE  Overlaid(d, Noted(d, x, c), x, c) /\ Noted(d, x, c).io = d.io /\ Noted(d, x, c).error = d.error
<1> DEFINE W == Put(d.pendingSectorWrites, x, c)
           e == Noted(d, x, c)
<1>1. DOMAIN W = DOMAIN d.pendingSectorWrites \cup {x} /\ W[x] = c
      /\ \A y \in DOMAIN d.pendingSectorWrites \ {x} : W[y] = d.pendingSectorWrites[y]
      BY DEF Put
<1>2. e = [d EXCEPT !.pendingSectorWrites = W]
      BY DEF Noted
<1> HIDE DEF W, e
<1>3. e = Made(d.files, d.allocated, d.metadata, d.dataRefs, d.directory, W, d.pendingCreates,
               d.pendingAppends, d.pendingReplacements, d.io, d.error)
      BY <1>2, EditOverlay
<1>4. d.files \in Seq(FileRecs) /\ DOMAIN d.directory = 1 .. Slots /\ DOMAIN W \subseteq Sectors
      /\ Storage(d.io, DOMAIN d.io.host) /\ d.error \in BOOLEAN
      BY <1>1, ImageStorage DEF Image
<1>5. /\ Image(e) /\ e.files = d.files /\ e.allocated = d.allocated /\ e.metadata = d.metadata
      /\ e.dataRefs = d.dataRefs
      /\ e.directory = d.directory /\ e.pendingSectorWrites = W
      /\ e.pendingCreates = d.pendingCreates /\ e.pendingAppends = d.pendingAppends
      /\ e.pendingReplacements = d.pendingReplacements /\ e.io = d.io /\ e.error = d.error
      BY <1>3, <1>4, MadeIs
<1> QED
      BY <1>1, <1>5 DEF Overlaid, e

(* A write that goes through to the host changes nothing of the image.     *)
LEMMA WriteThroughIs ==
    ASSUME NEW d, Image(d), NEW cat, Catalogue(cat), Layout(d, cat), NEW x
    PROVE  /\ Same(d, WriteThrough(d, x))
           /\ x \notin DOMAIN d.dataRefs => WriteThrough(d, x) = d
<1> DEFINE r  == d.dataRefs[x]
           f  == d.files[r.file]
           h  == f.hostName
           H  == DOMAIN d.io.host
           at == (r.at - 1) * SectorSize
           bytes  == SubSeq(d.pendingSectorWrites[x], 1, Min({f.length - at, SectorSize}))
           opened == Open(d.io, h)
           full   == Pwrite(opened, h, bytes, at)
<1>1. Same(d, d)
      BY DEF Same
<1>2. CASE x \notin DOMAIN d.dataRefs
      BY <1>1, <1>2 DEF WriteThrough
<1>3. CASE x \in DOMAIN d.dataRefs
  <2>1. h \in H
    <3>1. \E n \in DOMAIN cat, i \in DOMAIN d.files : \E k \in 1 .. Len(cat[n].data) :
              /\ d.files[i] = Record(n, cat[n]) /\ x = cat[n].data[k]
              /\ d.dataRefs[x] = [file |-> i, at |-> k]
          BY <1>3, RefIs
    <3>2. PICK n \in DOMAIN cat, i \in DOMAIN d.files : d.files[i] = Record(n, cat[n]) /\ r.file = i
          BY <3>1
    <3>3. h = cat[n].host
          BY <3>2, RecordIs DEF Catalogue
    <3> QED
          BY <3>3 DEF Layout
  <2>2. Storage(opened, H)
    <3> HIDE DEF h, H
    <3> QED
        BY OpenIs, ImageStorage DEF H
  <2>3. Storage(full, H)
    <3> HIDE DEF h, H, opened, at, bytes
    <3> QED
        BY <2>1, <2>2, PwriteIs
  <2>4. WriteThrough(d, x) \in {d, Fail(d), Failed(d, opened), Failed(d, full), [d EXCEPT !.io = full]}
        BY <1>3 DEF WriteThrough
  <2> HIDE DEF opened, full
  <2>5. Same(d, Fail(d)) /\ Same(d, Failed(d, opened)) /\ Same(d, Failed(d, full))
        /\ Same(d, [d EXCEPT !.io = full])
        BY <2>2, <2>3, FailedIs, WithIo, ImageStorage DEF Fail
  <2> QED
        BY <1>1, <1>3, <2>4, <2>5
<1> QED
      BY <1>2, <1>3

(* The catalogue that the image is laid out for. *)
LEMMA LaidOut ==
    ASSUME NEW d, NEW cat, NEW o, Going(d, cat, o)
    PROVE  /\ \E c : Catalogue(c) /\ Layout(d, c)
           /\ Dir \notin DOMAIN d.dataRefs
<1>1. Catalogue(cat) /\ Plan(cat, o) /\ (Underway(d, cat, o) \/ Committed(d, cat, o))
      BY DEF Going
<1>2. \E c : Catalogue(c) /\ Layout(d, c)
  <2>1. CASE Underway(d, cat, o)
        BY <1>1, <2>1 DEF Underway
  <2>2. CASE Committed(d, cat, o)
    <3>1. After(cat, o) = Put(cat, o.name, o.file) /\ o.kind # "rename" /\ Layout(d, After(cat, o))
          BY <2>2 DEF Committed, After, Outputs, Whole
    <3>2. Fits(cat, o.name, o.file)
          BY <1>1, <3>1, PlanFacts
    <3>3. Catalogue(After(cat, o))
          BY <1>1, <3>1, <3>2, PutCatalogue
    <3> QED
          BY <3>1, <3>3
  <2> QED
        BY <1>1, <2>1, <2>2
<1>3. PICK c : Catalogue(c) /\ Layout(d, c)
      BY <1>2
<1>4. DOMAIN d.dataRefs = UNION {Elems(c[n].data) : n \in DOMAIN c}
      BY <1>3 DEF Layout
<1>5. \A n \in DOMAIN c : Sound(c[n])
      BY <1>3 DEF Catalogue
<1>6. \A n \in DOMAIN c : Dir \notin Elems(c[n].data)
  <2> TAKE n \in DOMAIN c
  <2>1. Elems(c[n].data) \subseteq Sectors /\ Dir \notin Sectors
        BY <1>5, SoundFacts
  <2> QED
        BY <2>1
<1> QED
      BY <1>2, <1>4, <1>6

(* The image when the content of a write is staged. *)
Started(d, x, f) == Accessed(Begun(d, f), x)

(* Reading what is there before a write leaves the operation where it is. *)
LEMMA StartedIs ==
    ASSUME NEW d, NEW cat, NEW o, Going(d, cat, o), NEW x, NEW f \in Nat
    PROVE  LET g == Started(d, x, f)
           IN  /\ Going(g, cat, o) /\ g.directory = d.directory /\ g.error = FALSE
               /\ x = Dir => g.io.ok = TRUE
<1> DEFINE b == Begun(d, f)
           g == Started(d, x, f)
<1>1. Image(d)
      BY DEF Going
<1>2. Same(d, b) /\ b.error = FALSE /\ b.io.ok = TRUE
      BY <1>1, BegunIs
<1> HIDE DEF b
<1>3. Image(b) /\ Going(b, cat, o)
      BY <1>2, SameGoes DEF Same
<1>4. Storage(Access(b, x), DOMAIN b.io.host)
      BY <1>3, AccessIs
<1>5. g = [b EXCEPT !.io = Access(b, x)]
      BY DEF Started, Accessed, b
<1> HIDE DEF g
<1>6. Same(b, g) /\ g.io = Access(b, x) /\ g.error = b.error
      BY <1>3, <1>4, <1>5, WithIo
<1>7. Going(g, cat, o)
      BY <1>3, <1>6, SameGoes
<1>8. Dir \notin DOMAIN b.dataRefs
      BY <1>3, LaidOut
<1>9. x = Dir => Access(b, x) = b.io
      BY <1>3, <1>8, AccessIs
<1> QED
      BY <1>2, <1>6, <1>7, <1>9 DEF Same, g

(* It leaves the sectors as they are: what the guest may send next is the  *)
(* same.                                                                   *)
LEMMA StartedOrder ==
    ASSUME NEW d, Image(d), NEW x, NEW f \in Nat, NEW o, InOrder(d, o, x)
    PROVE  InOrder(Started(d, x, f), o, x)
<1> DEFINE b == Begun(d, f)
           g == Started(d, x, f)
<1>1. Same(d, b)
      BY BegunIs
<1> HIDE DEF b
<1>2. Storage(Access(b, x), DOMAIN b.io.host)
      BY <1>1, AccessIs DEF Same
<1>3. g = [b EXCEPT !.io = Access(b, x)]
      BY DEF Started, Accessed, b
<1> HIDE DEF g
<1>4. Same(b, g)
      BY <1>1, <1>2, <1>3, WithIo DEF Same
<1>5. g.metadata = d.metadata /\ g.pendingSectorWrites = d.pendingSectorWrites
      BY <1>1, <1>4 DEF Same
<1>6. InOrder(g, o, x)
      BY <1>5 DEF InOrder
<1> QED
      BY <1>6 DEF g

(* write(): the sector is staged, then what is complete is committed. *)
LEMMA WriteIs ==
    ASSUME NEW d, NEW x, NEW c, NEW f
    PROVE  LET s == Stage(Started(d, x, f), x, c)
           IN  Write(d, x, c, f) = IF s.error THEN s ELSE Commits(s)
BY DEF Write, Complete, Started, Accessed, Begun

(* A write of a sector of the file. *)
LEMMA SectorGoing ==
    ASSUME NEW d, NEW cat, NEW o, Going(d, cat, o), d.error = FALSE, NEW x, x \in o.todo, x # Dir, InOrder(d, o, x)
    PROVE  LET s == Stage(d, x, SectorImage(o, x))
           IN  /\ s.error => Going(s, cat, o)
               /\ ~s.error => Going(s, cat, At(o, o.todo \ {x}))
               /\ ~s.error => x \in DOMAIN s.pendingSectorWrites /\ s.pendingSectorWrites[x] = SectorImage(o, x)
<1> DEFINE c == SectorImage(o, x)
           s == Stage(d, x, c)
           g == Noted(d, x, c)
           u == At(o, o.todo \ {x})
<1>1. Catalogue(cat) /\ Plan(cat, o) /\ Image(d)
      BY DEF Going
<1>2. x \in Sectors
  <2>1. o.todo \subseteq {Dir} \cup SectorsOf(o.file) /\ Sound(o.file)
        BY <1>1, PlanFacts
  <2> QED
        BY <2>1, SoundFacts
<1>3. CASE ~d.io.ok
  <2>1. s = Failed(d, d.io)
        BY <1>3 DEF Stage, Fail
  <2>2. Same(d, s) /\ s.error = TRUE
        BY <1>1, <2>1, FailedIs, ImageStorage
  <2> HIDE DEF s
  <2>3. Going(s, cat, o)
        BY <2>2, SameGoes
  <2> QED
        BY <2>2, <2>3 DEF s
<1>4. CASE d.io.ok
  <2>1. s = WriteThrough(g, x)
        BY <1>4 DEF Stage, Noted
  <2> HIDE DEF s, g
  <2>2. Overlaid(d, g, x, c) /\ g.error = FALSE
        BY <1>1, <1>2, NotedOverlay DEF g
  <2>3. Going(g, cat, u)
        BY <2>2, SectorStored DEF c
  <2>4. Image(g) /\ \E k : Catalogue(k) /\ Layout(g, k)
        BY <2>3, LaidOut DEF Going
  <2>5. Same(g, s)
        BY <2>1, <2>4, WriteThroughIs
  <2>6. Going(s, cat, u)
    <3> HIDE DEF u
    <3> QED
        BY <2>3, <2>5, SameGoes
  <2>7. Going(s, cat, o)
        BY <1>1, <2>6, GoingGrows
  <2>8. x \in DOMAIN s.pendingSectorWrites /\ s.pendingSectorWrites[x] = c
        BY <2>2, <2>5 DEF Overlaid, Same
  <2> HIDE DEF c, u
  <2> QED
        BY <2>6, <2>7, <2>8 DEF s, u, c
<1> QED
      BY <1>3, <1>4

(* A write of the directory. *)
LEMMA DirStage ==
    ASSUME NEW d, NEW o, d.io.ok = TRUE
    PROVE  Stage(d, Dir, [d.directory EXCEPT ![o.file.slot] = EntryFor(o)]) = DirWritten(d, o)
BY DEF Stage, DirWritten, Entering, Entered

(* The map sector emptied: the sectors of the file come next. *)
LEMMA FillingGoes ==
    ASSUME NEW d, NEW cat, NEW o, Plan(cat, o), NEW T, T \subseteq o.todo, Going(d, cat, At(o, T)), o.phase = "empty",
           o.file.maps[1] \in DOMAIN d.pendingSectorWrites, d.pendingSectorWrites[o.file.maps[1]] = EmptyMap
    PROVE  Going(d, cat, Filling(o))
<1> DEFINE u == At(o, T)
           w == Filling(o)
           f == o.file
           n == o.name
           m == f.maps[1]
<1>1. Catalogue(cat) /\ Image(d) /\ Around(d, cat, u) /\ (Underway(d, cat, u) \/ Committed(d, cat, u))
      BY DEF Going
<1>2. o \in Ops /\ o.kind \in Whole /\ Sound(f)
      BY <1>1, PlanFacts DEF Plan
<1>3. T \subseteq 1 .. LastSector
      BY <1>2 DEF Ops
<1>4. u.kind = o.kind /\ u.name = n /\ u.file = f /\ u.phase = "empty"
      BY <1>2, <1>3, AtIs
<1>5. /\ Plan(cat, w) /\ w.kind = o.kind /\ w.name = n /\ w.file = f /\ w.phase = "rest"
      /\ w.todo = {Dir} \cup SectorsOf(f)
      BY <1>1, <1>2, PhasesAre
<1> HIDE DEF u, w
<1>6. Around(d, cat, w)
      BY <1>1, <1>4, <1>5 DEF Around
<1>7. Underway(d, cat, u)
      BY <1>1, <1>4 DEF Committed
<1>8. Linked(d, Start(cat, w), f, w.todo)
  <2>1. Start(cat, w) = [maps |-> <<m>>, data |-> <<>>]
        BY <1>2, <1>5 DEF Start, Whole
  <2>2. Value(d, m) = MapImage(<<m>>, <<>>, 1)
        BY EmptyMapIs DEF Value
  <2>3. Reads(d, [maps |-> <<m>>, data |-> <<>>])
    <3>1. Len(<<m>>) = 1 /\ <<m>>[1] = m
          OBVIOUS
    <3> QED
          BY <2>2, <3>1 DEF Reads
  <2>4. /\ \A k \in 1 .. Len(f.maps) : f.maps[k] \in w.todo
        /\ \A k \in 1 .. Len(f.data) : f.data[k] \in w.todo
        BY <1>2, <1>5, SectorsAt DEF SectorsOf
  <2>5. f.maps[1] \in w.todo /\ Len(f.maps) \in Nat /\ Len(f.data) \in Nat
        BY <1>2, <2>4, SoundFacts
  <2>6. \A k \in 1 + 1 .. Len(f.maps) : f.maps[k] \in w.todo
        BY <2>4, <2>5
  <2>7. \A k \in 0 + 1 .. Len(f.data) : f.data[k] \in w.todo
        BY <2>4, <2>5
  <2>8. /\ Start(cat, w).maps = <<m>> /\ Start(cat, w).data = <<>>
        /\ Len(Start(cat, w).maps) = 1 /\ Len(Start(cat, w).data) = 0
        BY <2>1
  <2>9. Reads(d, Start(cat, w))
        BY <2>1, <2>3
  <2> QED
        BY <2>5, <2>6, <2>7, <2>8, <2>9 DEF Linked
<1>9. Underway(d, cat, w)
  <2>1. CASE o.kind = "create"
    <3>1. Creating(d, u)
          BY <1>4, <1>7, <2>1 DEF Underway
    <3>2. Creating(d, w)
          BY <1>4, <1>5, <3>1 DEF Creating
    <3> QED
          BY <1>5, <1>7, <1>8, <2>1, <3>2 DEF Underway
  <2>2. CASE o.kind = "replace"
    <3>1. Replacing(d, cat[n], u)
          BY <1>4, <1>7, <2>2 DEF Underway
    <3>2. Replacing(d, cat[n], w)
          BY <1>4, <1>5, <3>1 DEF Replacing
    <3> QED
          BY <1>5, <1>7, <1>8, <2>2, <3>2 DEF Underway
  <2> QED
        BY <1>2, <2>1, <2>2 DEF Whole
<1> QED
      BY <1>1, <1>5, <1>6, <1>9 DEF Going, w

(* All of the file committed, the image is at rest. *)
LEMMA CommittedRests ==
    ASSUME NEW d, NEW cat, NEW o, Plan(cat, o), Going(d, cat, At(o, {})), Committed(d, cat, At(o, {}))
    PROVE  Resting(d, After(cat, o))
<1> DEFINE u == At(o, {})
           f == o.file
           n == o.name
           c == Put(cat, n, f)
<1>1. Catalogue(cat) /\ Image(d) /\ Around(d, cat, u)
      BY DEF Going
<1>2. o \in Ops /\ Sound(f)
      BY <1>1, PlanFacts
<1>3. u.kind = o.kind /\ u.name = n /\ u.file = f /\ u.as = o.as
      BY <1>2, AtIs
<1>4. o.kind \in Outputs /\ NoPending(d) /\ Layout(d, After(cat, u)) /\ AtRest(d, After(cat, u), n)
      BY <1>3 DEF Committed
<1>5. After(cat, u) = c /\ After(cat, o) = c
      BY <1>3, <1>4 DEF After, Outputs, Whole
<1>6. Catalogue(c)
  <2>1. Fits(cat, n, f)
        BY <1>1, <1>4, PlanFacts DEF Outputs, Whole
  <2> QED
        BY <1>1, <2>1, PutCatalogue
<1>7. DOMAIN c = DOMAIN cat \cup {n} /\ c[n] = f /\ \A k \in DOMAIN cat \ {n} : c[k] = cat[k]
      BY DEF Put
<1> HIDE DEF c, u
<1>8. \A k \in DOMAIN c : AtRest(d, c, k)
  <2> TAKE k \in DOMAIN c
  <2>1. CASE k = n
        BY <1>4, <1>5, <2>1
  <2>2. CASE k # n
    <3>1. k \in DOMAIN cat \ {u.name} /\ c[k] = cat[k]
          BY <1>3, <1>7, <2>2
    <3>2. AtRest(d, cat, k)
          BY <1>1, <3>1 DEF Around
    <3> QED
          BY <3>1, <3>2 DEF AtRest
  <2> QED
        BY <2>1, <2>2
<1>9. \A i \in 1 .. Slots : Vacant(d, i) \/ \E k \in DOMAIN c : c[k].slot = i
  <2> TAKE i \in 1 .. Slots
  <2>1. Vacant(d, i) \/ i = f.slot \/ \E k \in DOMAIN cat : cat[k].slot = i
        BY <1>1, <1>3 DEF Around
  <2>2. i = f.slot => \E k \in DOMAIN c : c[k].slot = i
        BY <1>7
  <2>3. ASSUME NEW k \in DOMAIN cat, cat[k].slot = i
        PROVE  \E j \in DOMAIN c : c[j].slot = i
    <3>1. n \in DOMAIN cat => cat[n].slot = f.slot
          BY <1>1, <1>4, PlanFacts DEF Plan
    <3>2. CASE k = n
          BY <1>7, <2>2, <2>3, <3>1, <3>2
    <3>3. CASE k # n
          BY <1>7, <2>3, <3>3
    <3> QED
          BY <3>2, <3>3
  <2> QED
        BY <2>1, <2>2, <2>3
<1> QED
      BY <1>1, <1>4, <1>5, <1>6, <1>8, <1>9 DEF Resting

(* A layout does not depend on the bytes of a file, only on their number. *)
LEMMA UpdatedLayout ==
    ASSUME NEW d, NEW cat, Layout(d, cat), NEW n \in DOMAIN cat, NEW f,
           f.maps = cat[n].maps, f.data = cat[n].data, Len(f.bytes) = Len(cat[n].bytes), f.host = cat[n].host
    PROVE  Layout(d, Put(cat, n, f))
<1> DEFINE c == Put(cat, n, f)
<1>1. DOMAIN c = DOMAIN cat
      BY DEF Put
<1>2. \A k \in DOMAIN cat : /\ c[k].maps = cat[k].maps /\ c[k].data = cat[k].data /\ c[k].host = cat[k].host
                            /\ Len(c[k].bytes) = Len(cat[k].bytes)
  <2>1. c[n] = f /\ \A k \in DOMAIN cat \ {n} : c[k] = cat[k]
        BY DEF Put
  <2> HIDE DEF c
  <2> QED
        BY <2>1
<1> HIDE DEF c
<1>3. \A k \in DOMAIN cat : Record(k, c[k]) = Record(k, cat[k])
      BY <1>2 DEF Record
<1>4. UNION {Elems(c[k].data) : k \in DOMAIN c} = UNION {Elems(cat[k].data) : k \in DOMAIN cat}
      BY <1>1, <1>2
<1>5. UNION {Elems(c[k].maps) : k \in DOMAIN c} = UNION {Elems(cat[k].maps) : k \in DOMAIN cat}
      BY <1>1, <1>2
<1>6. {c[k].host : k \in DOMAIN c} = {cat[k].host : k \in DOMAIN cat}
      BY <1>1, <1>2
<1>7. \A i \in DOMAIN d.files :
        \/ d.files[i].length = 0 /\ d.files[i].dataSectors = <<>> /\ d.files[i].mapSectors = <<>>
        \/ d.files[i].name \in DOMAIN c /\ d.files[i] = Record(d.files[i].name, c[d.files[i].name])
      BY <1>1, <1>3 DEF Layout
<1>8. \A k \in DOMAIN c : \E i \in DOMAIN d.files : d.files[i] = Record(k, c[k])
      BY <1>1, <1>3 DEF Layout
<1> QED
      BY <1>4, <1>5, <1>6, <1>7, <1>8 DEF Layout, c

(* The sectors of an update written, the image is at rest. *)
LEMMA UpdatedRests ==
    ASSUME NEW d, NEW cat, NEW o, Plan(cat, o), Going(d, cat, At(o, {})), o.kind = "update"
    PROVE  Resting(d, After(cat, o))
<1> DEFINE u == At(o, {})
           f == o.file
           n == o.name
           c == Put(cat, n, f)
<1>1. Catalogue(cat) /\ Image(d) /\ Around(d, cat, u) /\ (Underway(d, cat, u) \/ Committed(d, cat, u))
      BY DEF Going
<1>2. o \in Ops /\ Sound(f)
      BY <1>1, PlanFacts
<1>3. u.kind = o.kind /\ u.name = n /\ u.file = f /\ u.as = o.as
      BY <1>2, AtIs
<1>4. Layout(d, cat) /\ NoPending(d) /\ AtRest(d, cat, n)
      BY <1>1, <1>3 DEF Committed, Underway, Outputs, Whole
<1>5. After(cat, o) = c
      BY DEF After
<1>6. Fits(cat, n, f) /\ n \in DOMAIN cat /\ cat[n].slot = f.slot /\ cat[n].host = f.host
      BY <1>1, PlanFacts
<1>7. f.maps = cat[n].maps /\ f.data = cat[n].data /\ Len(f.bytes) = Len(cat[n].bytes)
      BY DEF Plan
<1>8. Catalogue(c) /\ Layout(d, c)
      BY <1>1, <1>4, <1>6, <1>7, PutCatalogue, UpdatedLayout
<1>9. DOMAIN c = DOMAIN cat /\ c[n] = f /\ \A k \in DOMAIN cat \ {n} : c[k] = cat[k]
      BY <1>6 DEF Put
<1> HIDE DEF c, u
<1>10. \A k \in DOMAIN cat : AtRest(d, cat, k)
       BY <1>1, <1>3, <1>4 DEF Around
<1>11. \A k \in DOMAIN cat : /\ c[k].slot = cat[k].slot /\ c[k].maps = cat[k].maps /\ c[k].data = cat[k].data
                             /\ Len(c[k].bytes) = Len(cat[k].bytes)
       BY <1>6, <1>7, <1>9
<1>12. \A k \in DOMAIN c : AtRest(d, c, k)
       BY <1>9, <1>10, <1>11 DEF AtRest, EntryOf, Reads
<1>13. \A i \in 1 .. Slots : Vacant(d, i) \/ \E k \in DOMAIN c : c[k].slot = i
  <2> TAKE i \in 1 .. Slots
  <2>1. Vacant(d, i) \/ i = f.slot \/ \E k \in DOMAIN cat : cat[k].slot = i
        BY <1>1, <1>3 DEF Around
  <2> QED
        BY <1>6, <1>9, <1>11, <2>1
<1> QED
      BY <1>1, <1>4, <1>5, <1>8, <1>12, <1>13 DEF Resting

(* What a write of the sector x leaves of the operation o: one that is     *)
(* refused is to be sent again.                                            *)
Proceeds(e, cat, o, x) ==
    /\ e.error => Going(e, cat, o)
    /\ ~e.error /\ o.todo \ {x} # {} => Going(e, cat, At(o, o.todo \ {x}))
    /\ ~e.error /\ o.todo \ {x} = {} =>
        /\ o.phase = "open" => Going(e, cat, Emptying(o))
        /\ o.phase = "empty" => Going(e, cat, Filling(o))
        /\ o.phase = "rest" => Resting(e, After(cat, o))

(* The commits after the write of a sector, or of the directory in the     *)
(* last phase.                                                             *)
LEMMA CommitsProceed ==
    ASSUME SdfsGuest, NEW s, NEW cat, NEW o, Plan(cat, o), NEW x, x \in o.todo, s.error = FALSE,
           Going(s, cat, At(o, o.todo \ {x})), o.phase = "rest" \/ (o.phase = "empty" /\ o.todo \ {x} # {}),
           o.kind \in Outputs \cup {"update"}
    PROVE  Proceeds(Commits(s), cat, o, x)
<1> DEFINE T == o.todo \ {x}
           u == At(o, T)
           e == Commits(s)
<1>1. Catalogue(cat)
      BY DEF Going
<1>2. o \in Ops
      BY <1>1, PlanFacts
<1>3. T \subseteq 1 .. LastSector
      BY <1>2 DEF Ops
<1>4. u.kind = o.kind /\ u.phase = o.phase /\ u.todo = T
  <2> HIDE DEF T
  <2> QED
      BY <1>2, <1>3, AtIs
<1>5. Outcome(s, e, cat, u)
  <2> HIDE DEF u, T
  <2> QED
      BY CommitsGoing DEF u, T
<1> HIDE DEF e
<1>6. Going(e, cat, u)
      BY <1>5 DEF Outcome
<1>7. Going(e, cat, o)
      BY <1>6, GoingGrows
<1>8. ASSUME ~e.error, T = {}, o.phase = "rest"
      PROVE  Resting(e, After(cat, o))
  <2>1. u = At(o, {})
        BY <1>8
  <2>2. CASE o.kind = "update"
        BY <1>6, <2>1, <2>2, UpdatedRests
  <2>3. CASE o.kind \in Outputs
    <3>1. Committed(e, cat, u)
      <4> HIDE DEF u, T
      <4> QED
          BY <1>4, <1>5, <1>8, <2>3 DEF Outcome
    <3> QED
          BY <1>6, <2>1, <3>1, CommittedRests
  <2> QED
        BY <2>2, <2>3
<1> QED
      BY <1>6, <1>7, <1>8 DEF Proceeds, e

(* A data or map sector that the guest writes takes its operation on, or a *)
(* storage call failed.                                                    *)
LEMMA SectorProceeds ==
    ASSUME SdfsGuest, NEW d, NEW cat, NEW o, Going(d, cat, o), NEW x, x \in o.todo, x # Dir, InOrder(d, o, x),
           NEW f \in Nat
    PROVE  Proceeds(Write(d, x, SectorImage(o, x), f), cat, o, x)
<1> DEFINE g == Started(d, x, f)
           s == Stage(g, x, SectorImage(o, x))
           w == Write(d, x, SectorImage(o, x), f)
           T == o.todo \ {x}
<1>1. Catalogue(cat) /\ Plan(cat, o)
      BY DEF Going
<1>2. o \in Ops /\ Sound(o.file)
      BY <1>1, PlanFacts
<1>3. Going(g, cat, o) /\ g.error = FALSE
  <2>1. LET h == Started(d, x, f)
        IN  /\ Going(h, cat, o) /\ h.directory = d.directory /\ h.error = FALSE
            /\ x = Dir => h.io.ok = TRUE
        BY StartedIs
  <2> QED
        BY <2>1
<1>4. w = IF s.error THEN s ELSE Commits(s)
      BY WriteIs
<1>5. /\ s.error => Going(s, cat, o)
      /\ ~s.error => Going(s, cat, At(o, T))
      /\ ~s.error => x \in DOMAIN s.pendingSectorWrites /\ s.pendingSectorWrites[x] = SectorImage(o, x)
  <2>1. InOrder(g, o, x)
    <3>1. Image(d)
          BY DEF Going
    <3> QED
          BY <3>1, StartedOrder
  <2> HIDE DEF g
  <2> QED
      BY <1>3, <2>1, SectorGoing
<1> HIDE DEF g, s, w
<1>6. s.error \in BOOLEAN
      BY <1>5 DEF Going, Image
<1>7. o.phase # "open" /\ o.kind \in Outputs \cup {"update"} /\ o.phase \in {"empty", "rest"}
      BY <1>1, <1>2 DEF Plan, Ops, Outputs, Whole
<1>8. CASE s.error
      BY <1>4, <1>5, <1>8 DEF Proceeds, w
<1>9. CASE ~s.error /\ (o.phase = "rest" \/ T # {})
  <2>1. s.error = FALSE /\ Going(s, cat, At(o, T)) /\ w = Commits(s)
        BY <1>4, <1>5, <1>6, <1>9
  <2>2. o.phase = "rest" \/ (o.phase = "empty" /\ o.todo \ {x} # {})
        BY <1>7, <1>9
  <2>3. Proceeds(Commits(s), cat, o, x)
        BY <1>1, <1>7, <2>1, <2>2, CommitsProceed
  <2> QED
        BY <2>1, <2>3 DEF w
<1>10. CASE ~s.error /\ o.phase = "empty" /\ T = {}
  <2>1. s.error = FALSE /\ Going(s, cat, At(o, T)) /\ w = Commits(s)
        BY <1>4, <1>5, <1>6, <1>10
  <2>2. T \subseteq 1 .. LastSector
        BY <1>10
  <2>3. At(o, T).phase = "empty"
    <3> HIDE DEF T
    <3> QED
        BY <1>2, <1>10, <2>2, AtIs
  <2>4. Commits(s) = s
        BY <2>1, <2>3, CommitsQuiet
  <2>5. x = o.file.maps[1]
        BY <1>1, <1>10 DEF Plan
  <2>6. SectorImage(o, x) = EmptyMap
    <3>1. x \in Elems(o.file.maps)
          BY <1>2, <2>5, SoundFacts
    <3> QED
          BY <1>10, <3>1 DEF SectorImage
  <2>7. Going(s, cat, Filling(o))
        BY <1>1, <1>5, <1>10, <2>1, <2>5, <2>6, FillingGoes
  <2> QED
        BY <1>10, <2>1, <2>4, <2>7 DEF Proceeds, w
<1> QED
      BY <1>7, <1>8, <1>9, <1>10

(* So does its directory sector. *)
LEMMA DirProceeds ==
    ASSUME SdfsGuest, NEW d, NEW cat, NEW o, Going(d, cat, o), Dir \in o.todo, NEW f \in Nat
    PROVE  Proceeds(Write(d, Dir, [d.directory EXCEPT ![o.file.slot] = EntryFor(o)], f), cat, o, Dir)
<1> DEFINE g == Started(d, Dir, f)
           c == [d.directory EXCEPT ![o.file.slot] = EntryFor(o)]
           s == Stage(g, Dir, c)
           w == Write(d, Dir, c, f)
           T == o.todo \ {Dir}
<1>1. Catalogue(cat) /\ Plan(cat, o)
      BY DEF Going
<1>2. o \in Ops /\ Sound(o.file)
      BY <1>1, PlanFacts
<1>3. Going(g, cat, o) /\ g.error = FALSE /\ g.directory = d.directory /\ g.io.ok = TRUE
  <2>1. LET h == Started(d, Dir, f)
        IN  /\ Going(h, cat, o) /\ h.directory = d.directory /\ h.error = FALSE
            /\ Dir = Dir => h.io.ok = TRUE
        BY StartedIs
  <2> QED
        BY <2>1
<1>4. w = IF s.error THEN s ELSE Commits(s)
  <2> HIDE DEF c
  <2> QED
      BY WriteIs
<1>5. s = DirWritten(g, o)
  <2> HIDE DEF g
  <2> QED
      BY <1>3, DirStage
<1> HIDE DEF g, s, w, c
<1>6. /\ o.kind \in {"erase", "rename"} => s.error = FALSE /\ Resting(s, After(cat, o))
      /\ o.kind \notin {"erase", "rename"} /\ o.phase = "open" => s.error = FALSE /\ Going(s, cat, Emptying(o))
      /\ o.kind \notin {"erase", "rename"} /\ o.phase # "open" => o.phase = "rest" /\ Going(s, cat, Then(o))
      BY <1>3, <1>5, DirGoing
<1>7. o.kind \in {"erase", "rename"} \cup Outputs
      BY <1>1, <1>2 DEF Plan, Ops, Outputs, Whole
<1>8. CASE o.kind \in {"erase", "rename"}
  <2>1. T = {} /\ o.phase = "rest"
        BY <1>1, <1>8 DEF Plan, Whole
  <2>2. Commits(s) = s
        BY <1>6, <1>8, CommitsNone DEF Resting
  <2> QED
        BY <1>4, <1>6, <1>8, <2>1, <2>2 DEF Proceeds, w, c
<1>9. CASE o.kind \in Outputs /\ o.phase = "open"
  <2>1. T = {}
        BY <1>1, <1>9 DEF Plan
  <2>2. s.error = FALSE /\ Going(s, cat, Emptying(o))
        BY <1>6, <1>9 DEF Outputs, Whole
  <2>3. Emptying(o).phase # "rest"
    <3>1. o.kind \in Whole
          BY <1>1, <1>9 DEF Plan
    <3> QED
          BY <1>1, <3>1, PhasesAre
  <2>4. Commits(s) = s
        BY <2>2, <2>3, CommitsQuiet
  <2> QED
        BY <1>4, <1>9, <2>1, <2>2, <2>4 DEF Proceeds, w, c
<1>10. CASE o.kind \in Outputs /\ o.phase # "open"
  <2>1. o.phase = "rest" /\ Going(s, cat, At(o, T))
        BY <1>6, <1>10 DEF Outputs, Whole, Then
  <2>2. s.error \in BOOLEAN
        BY <2>1 DEF Going, Image
  <2>3. CASE s.error
    <3>1. Going(s, cat, o)
          BY <1>1, <2>1, GoingGrows
    <3> QED
          BY <1>4, <2>3, <3>1 DEF Proceeds, w, c
  <2>4. CASE ~s.error
    <3>1. w = Commits(s) /\ s.error = FALSE
          BY <1>4, <2>2, <2>4
    <3> QED
          BY <1>1, <1>10, <2>1, <3>1, CommitsProceed DEF w, c
  <2> QED
        BY <2>3, <2>4
<1> QED
      BY <1>7, <1>8, <1>9, <1>10

-----------------------------------------------------------------------------
(* The steps of the guest. *)

(* Resting is about Same only. *)
LEMMA SameRests ==
    ASSUME NEW d, NEW e, NEW cat, Resting(d, cat), Same(d, e)
    PROVE  Resting(e, cat)
<1>1. Image(e) /\ Layout(e, cat) /\ NoPending(e) /\ Catalogue(cat)
      BY SameLayout, SamePending DEF Resting, Same
<1>2. \A n \in DOMAIN cat : AtRest(e, cat, n)
      BY SameRest DEF Resting
<1>3. \A i \in 1 .. Slots : Vacant(e, i) \/ \E n \in DOMAIN cat : cat[n].slot = i
      BY SamePending DEF Resting
<1> QED
      BY <1>1, <1>2, <1>3 DEF Resting

(* The content the guest sends, and the image once the write has returned. *)
LEMMA ContentIs ==
    ASSUME NEW x
    PROVE  Content(x) = IF x = Dir THEN [disk.directory EXCEPT ![op.file.slot] = EntryFor(op)]
                        ELSE SectorImage(op, x)
BY DEF Content, Entry, EntryFor, SectorImage

(* The guest's files once an operation is done. *)
LEMMA DoneIs == Done = After(sdx, op)
BY DEF Done, After

(* A write of the guest. *)
LEMMA WriteKeeps ==
    ASSUME SdfsGuest, SdfsInv, NEW x, NEW f, GuestWrite(x, f)
    PROVE  SdfsInv'
<1> DEFINE e == Write(disk, x, Content(x), f)
           T == op.todo \ {x}
<1>1. /\ x \in op.todo /\ f \in Nat /\ InOrder(disk, op, x) /\ disk' = Begun(e, 0) /\ ops' = ops
      /\ CASE e.error -> UNCHANGED <<op, sdx>>
           [] ~e.error /\ T # {} -> op' = At(op, T) /\ UNCHANGED sdx
           [] ~e.error /\ T = {} /\ op.phase = "open" -> op' = Emptying(op) /\ UNCHANGED sdx
           [] ~e.error /\ T = {} /\ op.phase = "empty" -> op' = Filling(op) /\ UNCHANGED sdx
           [] ~e.error /\ T = {} /\ op.phase = "rest" -> op' = NoOp /\ sdx' = Done
  <2> DEFINE v == Write(disk, x, Content(x), f)
  <2>1. Sent(x, f, v)
        BY DEF GuestWrite
  <2> HIDE DEF v
  <2>2. x \in op.todo /\ f \in Nat /\ InOrder(disk, op, x) /\ ops' = ops
        BY <2>1 DEF Sent, SdfsGuest
  <2>3. disk' = Begun(v, 0)
        BY <2>1 DEF Sent, Begun
  <2>4. /\ CASE v.error -> UNCHANGED <<op, sdx>>
             [] ~v.error /\ T # {} -> op' = At(op, T) /\ UNCHANGED sdx
             [] ~v.error /\ T = {} /\ op.phase = "open" -> op' = Emptying(op) /\ UNCHANGED sdx
             [] ~v.error /\ T = {} /\ op.phase = "empty" -> op' = Filling(op) /\ UNCHANGED sdx
             [] ~v.error /\ T = {} /\ op.phase = "rest" -> op' = NoOp /\ sdx' = Done
        BY <2>1 DEF Sent, At, Emptying, Filling
  <2> QED
        BY <2>2, <2>3, <2>4 DEF v
<1>2. op # NoOp
  <2>1. NoOp.todo = {}
        BY DEF NoOp
  <2> QED
        BY <1>1, <2>1
<1>3. Going(disk, sdx, op)
      BY <1>2 DEF SdfsInv
<1>4. Plan(sdx, op) /\ Catalogue(sdx)
      BY <1>3 DEF Going
<1>5. Proceeds(e, sdx, op, x)
  <2>1. CASE x = Dir
    <3>1. e = Write(disk, Dir, [disk.directory EXCEPT ![op.file.slot] = EntryFor(op)], f)
          BY <2>1, ContentIs
    <3> HIDE DEF e
    <3> QED
          BY <1>1, <1>3, <2>1, <3>1, DirProceeds
  <2>2. CASE x # Dir
    <3>1. e = Write(disk, x, SectorImage(op, x), f)
          BY <2>2, ContentIs
    <3> HIDE DEF e
    <3> QED
          BY <1>1, <1>3, <2>2, <3>1, SectorProceeds
  <2> QED
        BY <2>1, <2>2
<1> HIDE DEF e, T
<1>6. op.phase \in {"open", "empty", "rest"} /\ op \in Ops /\ Sound(op.file)
      BY <1>4, PlanFacts DEF Ops
<1>7. ASSUME Image(e)
      PROVE  /\ Same(e, disk') /\ disk'.error = FALSE /\ disk'.io.fault = 0 /\ disk'.io.ok = TRUE
             /\ ops' \in Nat
  <2>1. disk' = Begun(e, 0) /\ ops' \in Nat
        BY <1>1 DEF SdfsInv
  <2>2. 0 \in Nat
        OBVIOUS
  <2>3. /\ Same(e, Begun(e, 0)) /\ Begun(e, 0).error = FALSE /\ Begun(e, 0).io.fault = 0
        /\ Begun(e, 0).io.ok = TRUE /\ Begun(e, 0).io.host = e.io.host
        BY <1>7, <2>2, BegunIs
  <2> QED
        BY <2>1, <2>3
<1>8. ASSUME NEW u, Going(e, sdx, u), op' = u, sdx' = sdx, u.todo # {}
      PROVE  SdfsInv'
  <2>1. Image(e)
        BY <1>8 DEF Going
  <2>2. Going(disk', sdx', op')
    <3>1. Going(disk', sdx, u)
          BY <1>7, <1>8, <2>1, SameGoes
    <3> QED
          BY <1>8, <3>1
  <2>3. op' # NoOp /\ op'.todo # {}
    <3>1. NoOp.todo = {}
          BY DEF NoOp
    <3> QED
          BY <1>8, <3>1
  <2> QED
        BY <1>7, <2>1, <2>2, <2>3 DEF SdfsInv, NoOp
<1>9. CASE e.error
  <2>1. op' = op /\ sdx' = sdx /\ Going(e, sdx, op) /\ op.todo # {}
        BY <1>1, <1>5, <1>9 DEF Proceeds
  <2> QED
        BY <1>8, <2>1
<1>10. CASE ~e.error /\ T # {}
  <2>1. op' = At(op, T) /\ sdx' = sdx /\ Going(e, sdx, At(op, T))
        BY <1>1, <1>5, <1>10 DEF Proceeds, T
  <2>2. At(op, T).todo = T
    <3>1. T \subseteq 1 .. LastSector
          BY <1>6 DEF T, Ops
    <3> QED
          BY <1>6, <3>1, AtIs
  <2> QED
        BY <1>8, <1>10, <2>1, <2>2
<1>11. CASE ~e.error /\ T = {} /\ op.phase \in {"open", "empty"}
  <2>1. op.kind \in Whole
        BY <1>4, <1>11 DEF Plan
  <2>2. Emptying(op).todo # {} /\ Filling(op).todo # {}
        BY <1>4, <2>1, PhasesAre
  <2>3. CASE op.phase = "open"
    <3>1. op' = Emptying(op) /\ sdx' = sdx /\ Going(e, sdx, Emptying(op))
          BY <1>1, <1>5, <1>11, <2>3 DEF Proceeds, T
    <3> QED
          BY <1>8, <2>2, <3>1
  <2>4. CASE op.phase = "empty"
    <3>1. op' = Filling(op) /\ sdx' = sdx /\ Going(e, sdx, Filling(op))
          BY <1>1, <1>5, <1>11, <2>4 DEF Proceeds, T
    <3> QED
          BY <1>8, <2>2, <3>1
  <2> QED
        BY <1>11, <2>3, <2>4
<1>12. CASE ~e.error /\ T = {} /\ op.phase = "rest"
  <2>1. op' = NoOp /\ sdx' = After(sdx, op) /\ Resting(e, After(sdx, op))
        BY <1>1, <1>5, <1>12, DoneIs DEF Proceeds, T
  <2>2. Image(e)
        BY <2>1 DEF Resting
  <2>3. Resting(disk', sdx')
    <3>1. Resting(disk', After(sdx, op))
          BY <1>7, <2>1, <2>2, SameRests
    <3> QED
          BY <2>1, <3>1
  <2> QED
        BY <1>7, <2>1, <2>2, <2>3 DEF SdfsInv, NoOp
<1> QED
      BY <1>6, <1>9, <1>10, <1>11, <1>12

(* The image under way, or at rest, is owned as OneOwner has it. *)
LEMMA InvOwner ==
    ASSUME SdfsInv
    PROVE  OneOwner
<1>1. \E c : Image(disk) /\ Catalogue(c) /\ Layout(disk, c)
  <2>1. CASE Resting(disk, sdx)
        BY <2>1 DEF Resting
  <2>2. CASE Going(disk, sdx, op)
        BY <2>2, LaidOut DEF Going
  <2> QED
        BY <2>1, <2>2 DEF SdfsInv
<1>2. Owned(disk)
      BY <1>1, OwnedIs
<1> QED
      BY <1>2 DEF Owned, OneOwner

(* The free sectors, each once. *)
LEMMA FreeIs ==
    ASSUME Catalogue(sdx)
    PROVE  /\ Free \in Seq(Sectors) /\ Distinct(Free)
           /\ \A i \in 1 .. Len(Free) : \A n \in DOMAIN sdx : Free[i] \notin SectorsOf(sdx[n])
<1> DEFINE S == (2 .. LastSector) \ InUse
<1>1. S \subseteq Int /\ IsFiniteSet(S) /\ S \subseteq Sectors
  <2>1. IsFiniteSet(2 .. LastSector)
        BY Sizes, FS_Interval
  <2>2. S \in SUBSET (2 .. LastSector) /\ S \subseteq Int
        OBVIOUS
  <2> HIDE DEF S
  <2> QED
        BY <2>1, <2>2, FS_Subset DEF Sectors
<1>2. Free = Ascending(S)
      BY DEF Free
<1>3. Free \in Seq(S) /\ \A a, b \in 1 .. Len(Free) : Free[a] = Free[b] => a = b
  <2> HIDE DEF S
  <2> QED
      BY <1>1, <1>2, AscendingIs
<1>4. \A i \in 1 .. Len(Free) : Free[i] \in S
  <2> HIDE DEF S
  <2> QED
      BY <1>3
<1>5. \A n \in DOMAIN sdx : SectorsOf(sdx[n]) \subseteq InUse
      BY DEF InUse
<1>6. Free \in Seq(Sectors)
  <2> HIDE DEF S
  <2> QED
      BY <1>1, <1>3, SeqMonotonic
<1> QED
      BY <1>3, <1>4, <1>5, <1>6 DEF Distinct

(* A guest that has fewer files than the directory has entries finds one.  *)
LEMMA SlotIs ==
    ASSUME Resting(disk, sdx), Cardinality(DOMAIN sdx) < Slots
    PROVE  /\ FreeSlot \in 1 .. Slots /\ Vacant(disk, FreeSlot)
           /\ \A n \in DOMAIN sdx : sdx[n].slot # FreeSlot
<1> DEFINE V == {i \in 1 .. Slots : disk.directory[i].status \in {"free", "deleted"}}
           N == DOMAIN sdx
           f == [n \in N |-> sdx[n].slot]
<1>1. Slots \in Nat /\ IsFiniteSet(1 .. Slots) /\ Cardinality(1 .. Slots) = Slots
      BY Sizes, FS_Interval
<1>2. \A n \in N : sdx[n].slot \in 1 .. Slots
      BY SoundFacts DEF Resting, Catalogue
<1>3. IsFiniteSet(N)
  <2>1. \A n, m \in N : sdx[n].slot = sdx[m].slot => n = m
        BY DEF Resting, Catalogue, Apart
  <2>2. f \in Injection(N, 1 .. Slots)
        BY <1>2, <2>1 DEF Injection, IsInjective
  <2> HIDE DEF f, N
  <2> QED
        BY <1>1, <2>2, FS_Injection
<1>4. ASSUME V = {}
      PROVE  FALSE
  <2>1. \A i \in 1 .. Slots : \E n \in N : sdx[n].slot = i
        BY <1>4 DEF Resting, Vacant
  <2> DEFINE g == [i \in 1 .. Slots |-> CHOOSE n \in N : sdx[n].slot = i]
  <2>2. \A i \in 1 .. Slots : g[i] \in N /\ sdx[g[i]].slot = i
        BY <2>1
  <2>3. g \in [1 .. Slots -> N]
        BY <2>2
  <2> HIDE DEF g
  <2>4. \E i, j \in 1 .. Slots : i # j /\ g[i] = g[j]
        BY <1>1, <1>3, <2>3, FS_PigeonHole
  <2> QED
        BY <2>2, <2>4
<1>5. FreeSlot \in V
  <2>1. V \subseteq Nat /\ FreeSlot = Min(V)
        BY DEF FreeSlot
  <2> HIDE DEF V
  <2> QED
        BY <1>4, <2>1, MinIs
<1>6. \A n \in N : disk.directory[sdx[n].slot].status = "active"
  <2> TAKE n \in N
  <2>1. disk.directory[sdx[n].slot] = EntryOf(n, sdx[n])
        BY DEF Resting, AtRest
  <2> QED
        BY <2>1 DEF EntryOf
<1> QED
      BY <1>5, <1>6 DEF Vacant

(* The sectors an operation writes, where it starts from a file at rest.   *)
Opens(d, cat, o) ==
    LET f   == o.file
        old == cat[o.name]
    IN  /\ o.kind = "create" => o.phase = "open" /\ Vacant(d, f.slot)
        /\ o.kind = "replace" => o.phase = "open"
        /\ o.kind = "append" =>
              /\ Dir \in o.todo
              /\ Len(old.bytes) % SectorSize # 0 => old.data[Len(old.data)] \in o.todo
              /\ Len(old.data) < Len(f.data) => f.maps[Len(old.maps)] \in o.todo
              /\ \A i \in Len(old.maps) + 1 .. Len(f.maps) : f.maps[i] \in o.todo
              /\ \A k \in Len(old.data) + 1 .. Len(f.data) : f.data[k] \in o.todo

(* An operation that begins on an image at rest is under way. *)
LEMMA BeginGoes ==
    ASSUME NEW d, NEW cat, Resting(d, cat), NEW o, Plan(cat, o), Opens(d, cat, o)
    PROVE  Going(d, cat, o)
<1> DEFINE f == o.file
           n == o.name
           old == cat[n]
<1>1. Catalogue(cat) /\ Image(d) /\ Layout(d, cat) /\ NoPending(d) /\ \A k \in DOMAIN cat : AtRest(d, cat, k)
      BY DEF Resting
<1>2. o \in Ops /\ Sound(f) /\ (o.kind # "create" => n \in DOMAIN cat /\ old.slot = f.slot)
      BY <1>1, PlanFacts
<1>3. Around(d, cat, o)
      BY DEF Around, Resting
<1>4. CASE o.kind = "create"
  <2>1. o.phase = "open" /\ Creating(d, o)
        BY <1>1, <1>4 DEF Opens, Creating
  <2> QED
        BY <1>1, <1>3, <1>4, <2>1 DEF Going, Underway
<1>5. CASE o.kind = "replace"
  <2>1. o.phase = "open" /\ Replacing(d, old, o)
        BY <1>1, <1>2, <1>5 DEF Opens, Replacing, AtRest
  <2> QED
        BY <1>1, <1>3, <1>5, <2>1 DEF Going, Underway
<1>6. CASE o.kind = "append"
  <2>1. Appending(d, old, o)
        BY <1>1, <1>2, <1>6 DEF Opens, Appending, AtRest
  <2>2. Linked(d, old, f, o.todo)
        BY <1>1, <1>2, <1>6 DEF Opens, Linked, AtRest
  <2>3. Start(cat, o) = old
        BY <1>6 DEF Start
  <2> QED
        BY <1>1, <1>3, <1>6, <2>1, <2>2, <2>3 DEF Going, Underway
<1>7. CASE o.kind \in {"erase", "rename", "update"}
  <2>1. AtRest(d, cat, n)
        BY <1>1, <1>2, <1>7
  <2> QED
        BY <1>1, <1>3, <1>7, <2>1 DEF Going, Underway, Outputs, Whole
<1> QED
      BY <1>2, <1>4, <1>5, <1>6, <1>7 DEF Ops, Whole

(* An operation as the guest begins it. *)
Fresh(kind, name, title, file, sectors) ==
    [kind |-> kind, name |-> name, as |-> title, file |-> file,
     phase |-> IF kind \in Whole THEN "open" ELSE "rest",
     todo |-> IF kind \in Whole THEN {Dir} ELSE sectors,
     stale |-> sectors \cap DOMAIN disk.pendingSectorWrites # {}]

(* What it may begin with, and what it then is. *)
Beginning(kind, name, title, file, sectors) ==
    /\ kind \in Whole \cup {"append", "erase", "rename", "update"} /\ name \in AllNames /\ title \in AllNames
    /\ Sound(file) /\ sectors \subseteq {Dir} \cup SectorsOf(file)

BegunWith(o, kind, name, title, file, sectors) ==
    /\ o \in Ops /\ o.kind = kind /\ o.name = name /\ o.as = title /\ o.file = file
    /\ o.todo \subseteq {Dir} \cup SectorsOf(file)
    /\ kind \in Whole => o.phase = "open" /\ o.todo = {Dir}
    /\ kind \notin Whole => o.phase = "rest" /\ o.todo = sectors

(* An operation that begins, field by field. *)
LEMMA FreshIs ==
    ASSUME NEW kind, NEW name, NEW title, NEW file, NEW sectors, Beginning(kind, name, title, file, sectors)
    PROVE  BegunWith(Fresh(kind, name, title, file, sectors), kind, name, title, file, sectors)
<1> USE DEF Beginning
<1> DEFINE o == Fresh(kind, name, title, file, sectors)
<1>1. /\ o.kind = kind /\ o.name = name /\ o.as = title /\ o.file = file
      /\ kind \in Whole => o.phase = "open" /\ o.todo = {Dir}
      /\ kind \notin Whole => o.phase = "rest" /\ o.todo = sectors
      BY DEF Fresh
<1>2. {Dir} \cup SectorsOf(file) \subseteq 1 .. LastSector
  <2>1. SectorsOf(file) \subseteq Sectors /\ file.maps[1] \in Sectors
        BY SoundFacts
  <2>2. LastSector \in Nat /\ \A x \in Sectors : x \in 1 .. LastSector /\ 1 \in 1 .. LastSector
        BY Sizes DEF Sectors
  <2> QED
        BY <2>1, <2>2 DEF Dir
<1>3. o.todo \subseteq {Dir} \cup SectorsOf(file) /\ o.todo \in SUBSET (1 .. LastSector)
      BY <1>1, <1>2
<1>4. file \in Files /\ o.stale \in BOOLEAN /\ o.phase \in {"open", "empty", "rest"}
      BY SoundFacts DEF Fresh
<1>5. o = [kind |-> o.kind, name |-> o.name, as |-> o.as, file |-> o.file, phase |-> o.phase, todo |-> o.todo,
           stale |-> o.stale]
      BY DEF Fresh
<1> HIDE DEF o
<1>6. o \in Ops
      BY <1>1, <1>3, <1>4, <1>5 DEF Ops
<1> QED
      BY <1>1, <1>3, <1>6 DEF o, BegunWith

(* The operation that begins has a plan, and starts where the image is at rest. *)
Planned ==
    /\ op = NoOp /\ op' # NoOp /\ op'.kind \in Kinds /\ Plan(sdx, op') /\ Opens(disk, sdx, op')
    /\ UNCHANGED <<disk, sdx, sdfsFaults, sdfsResult>>

(* Beginning an operation keeps the invariant, if it has a plan. *)
LEMMA BeginKeeps ==
    ASSUME SdfsInv, NEW kind, NEW name, NEW title, NEW file, NEW sectors, Begin(kind, name, title, file, sectors),
           Plan(sdx, Fresh(kind, name, title, file, sectors)), Opens(disk, sdx, Fresh(kind, name, title, file, sectors)),
           Fresh(kind, name, title, file, sectors).todo # {}
    PROVE  SdfsInv' /\ Planned
<1> DEFINE o == Fresh(kind, name, title, file, sectors)
<1>1. /\ op = NoOp /\ op' = o /\ disk' = disk /\ sdx' = sdx /\ ops' = ops + 1
      BY DEF Begin, Fresh
<1> HIDE DEF o
<1>2. Resting(disk, sdx)
      BY <1>1 DEF SdfsInv, NoOp
<1>3. Going(disk, sdx, o)
      BY <1>2, BeginGoes DEF o
<1>4. Going(disk', sdx', op')
      BY <1>1, <1>3
<1>5. op'.todo # {} /\ op' # NoOp
  <2>1. o.todo # {} /\ NoOp.todo = {}
        BY DEF o, NoOp
  <2> QED
        BY <1>1, <2>1
<1>6. disk'.error = FALSE /\ disk'.io.fault = 0 /\ disk'.io.ok = TRUE /\ ops' \in Nat
      BY <1>1 DEF SdfsInv
<1>7. Planned
  <2>1. o.kind = kind /\ kind \in Kinds /\ UNCHANGED <<sdfsFaults, sdfsResult>>
        BY DEF Begin, Fresh, o
  <2>2. Plan(sdx, o) /\ Opens(disk, sdx, o)
        BY DEF o
  <2>3. Plan(sdx, op') /\ Opens(disk, sdx, op')
        BY <1>1, <2>2
  <2> QED
        BY <1>1, <1>5, <2>1, <2>3 DEF Planned
<1> QED
      BY <1>4, <1>5, <1>6, <1>7 DEF SdfsInv, NoOp

(* What files of a length need. *)
LEMMA Needs ==
    ASSUME NEW a \in Nat \ {0}
    PROVE  /\ SectorsFor(a) \in Nat \ {0} /\ MapsFor(SectorsFor(a)) \in Nat \ {0}
           /\ \A b \in Nat \ {0} : a <= b => /\ SectorsFor(a) <= SectorsFor(b)
                                             /\ MapsFor(SectorsFor(a)) <= MapsFor(SectorsFor(b))
<1>1. SectorSize \in Nat \ {0} /\ MapEntries \in Nat \ {0}
      BY Sizes
<1>2. \A b \in Nat \ {0} : SectorsFor(b) \in Nat \ {0}
  <2> TAKE b \in Nat \ {0}
  <2>1. LET q == (b + SectorSize - 1) \div SectorSize IN q \in Nat /\ (b > 0 => q > 0)
        BY <1>1, Ceiling
  <2> QED
        BY <2>1 DEF SectorsFor
<1>3. \A b \in Nat \ {0} : MapsFor(b) \in Nat \ {0}
  <2> TAKE b \in Nat \ {0}
  <2>1. LET q == (b + MapEntries - 1) \div MapEntries IN q \in Nat /\ (b > 0 => q > 0)
        BY <1>1, Ceiling
  <2> QED
        BY <2>1 DEF MapsFor
<1>4. ASSUME NEW b \in Nat \ {0}, a <= b
      PROVE  SectorsFor(a) <= SectorsFor(b) /\ MapsFor(SectorsFor(a)) <= MapsFor(SectorsFor(b))
  <2>1. SectorsFor(a) <= SectorsFor(b)
        BY <1>1, <1>4, CeilingGrows DEF SectorsFor
  <2>2. SectorsFor(a) \in Nat /\ SectorsFor(b) \in Nat
        BY <1>2
  <2> DEFINE p == SectorsFor(a)
             q == SectorsFor(b)
  <2> HIDE DEF p, q
  <2>3. p \in Nat /\ q \in Nat /\ p <= q
        BY <2>1, <2>2 DEF p, q
  <2>4. MapsFor(p) <= MapsFor(q)
        BY <1>1, <2>3, CeilingGrows DEF MapsFor
  <2> QED
        BY <2>1, <2>4 DEF p, q
<1> QED
      BY <1>2, <1>3, <1>4

(* A file, part by part. *)
FileOf(s, M, D, B, h) == [slot |-> s, maps |-> M, data |-> D, bytes |-> B, host |-> h]

(* A file put together from sound parts is sound. *)
Parts(s, M, D, B, h) ==
    /\ s \in 1 .. Slots /\ M \in Seq(Sectors) /\ D \in Seq(Sectors) /\ B \in Seq(Int) /\ h \in Paths
    /\ Len(B) > 0 /\ Len(D) = SectorsFor(Len(B)) /\ Len(M) = MapsFor(Len(D)) /\ Distinct(M) /\ Distinct(D)
    /\ \A i \in 1 .. Len(M) : \A j \in 1 .. Len(D) : M[i] # D[j]
LEMMA Composed ==
    ASSUME NEW s, NEW M, NEW D, NEW B, NEW h, Parts(s, M, D, B, h)
    PROVE  LET f == FileOf(s, M, D, B, h)
           IN  Sound(f) /\ f.slot = s /\ f.maps = M /\ f.data = D /\ f.bytes = B /\ f.host = h
<1> SUFFICES ASSUME s \in 1 .. Slots, M \in Seq(Sectors), D \in Seq(Sectors), B \in Seq(Int), h \in Paths,
                    Len(B) > 0, Len(D) = SectorsFor(Len(B)), Len(M) = MapsFor(Len(D)), Distinct(M), Distinct(D),
                    \A i \in 1 .. Len(M) : \A j \in 1 .. Len(D) : M[i] # D[j]
             PROVE  LET f == FileOf(s, M, D, B, h)
                    IN  Sound(f) /\ f.slot = s /\ f.maps = M /\ f.data = D /\ f.bytes = B /\ f.host = h
      BY DEF Parts
<1> DEFINE f == FileOf(s, M, D, B, h)
<1>1. f.slot = s /\ f.maps = M /\ f.data = D /\ f.bytes = B /\ f.host = h /\ f \in Files
      BY DEF FileOf, Files
<1>2. Elems(M) \cap Elems(D) = {}
      BY ElemsAre
<1> HIDE DEF f
<1> QED
      BY <1>1, <1>2 DEF Sound, f

(* A file is the record of its parts. *)
LEMMA FileShape ==
    ASSUME NEW f, Sound(f)
    PROVE  f = FileOf(f.slot, f.maps, f.data, f.bytes, f.host)
BY DEF Sound, Files, FileOf

(* The bytes the guest writes. *)
LEMMA NewBytesAre ==
    ASSUME ops \in Nat, NEW n \in Nat
    PROVE  NewBytes(n) \in Seq(Int) /\ Len(NewBytes(n)) = n
<1>1. NewBytes(n) \in [1 .. n -> Int]
      BY DEF NewBytes
<1> QED
      BY <1>1 DEF NewBytes

(* The guest's names are names of the image, and of files on the host. *)
LEMMA NamesAre ==
    /\ Names \subseteq AllNames /\ AllNames \subseteq Paths
    /\ Catalogue(sdx) => /\ \A n \in DOMAIN sdx : n \in AllNames
                         /\ \A n \in DOMAIN sdx, t \in AllNames \ DOMAIN sdx : sdx[n].host # t
<1>1. Names \subseteq AllNames /\ AllNames \subseteq Paths
      BY DEF AllNames, Paths
<1> QED
      BY <1>1 DEF Catalogue

(* What the invariant says between two operations. *)
LEMMA AtRestFiles ==
    ASSUME SdfsInv, op = NoOp
    PROVE  /\ Resting(disk, sdx) /\ Catalogue(sdx) /\ ops \in Nat
           /\ \A n \in DOMAIN sdx : Sound(sdx[n]) /\ n \in AllNames
           /\ \A n, m \in DOMAIN sdx : n # m => Apart(sdx[n], sdx[m])
<1>1. Resting(disk, sdx) /\ ops \in Nat
      BY DEF SdfsInv, NoOp
<1> QED
      BY <1>1, NamesAre DEF Resting, Catalogue

(* A file that keeps its sectors, or the first of them, stays apart from the others. *)
LEMMA StaysApart ==
    ASSUME NEW f, NEW g, NEW h, Apart(f, g), h.slot = f.slot, SectorsOf(h) \subseteq SectorsOf(f),
           h.host = f.host \/ h.host # g.host
    PROVE  Apart(h, g)
BY DEF Apart

(* Erasing keeps the invariant. *)
LEMMA EraseKeeps ==
    ASSUME SdfsInv, NEW name \in Names, EraseFile(name)
    PROVE  SdfsInv' /\ Planned
<1> DEFINE f == sdx[name]
           o == Fresh("erase", name, name, f, {Dir})
<1>1. name \in DOMAIN sdx /\ op = NoOp /\ Begin("erase", name, name, f, {Dir})
      BY DEF EraseFile, Begin
<1>2. Resting(disk, sdx) /\ Sound(f) /\ name \in AllNames /\ \A n \in DOMAIN sdx \ {name} : Apart(f, sdx[n])
      BY <1>1, AtRestFiles
<1>3. /\ o \in Ops /\ o.kind = "erase" /\ o.name = name /\ o.as = name /\ o.file = f /\ o.phase = "rest"
      /\ o.todo = {Dir} /\ o.todo \subseteq {Dir} \cup SectorsOf(f)
  <2>1. Beginning("erase", name, name, f, {Dir})
    <3> HIDE DEF f
    <3> QED
        BY <1>2 DEF Beginning
  <2> HIDE DEF f
  <2>2. BegunWith(o, "erase", name, name, f, {Dir})
        BY <2>1, FreshIs
  <2> QED
        BY <2>2 DEF BegunWith, Whole
<1> HIDE DEF o
<1>4. Plan(sdx, o)
      BY <1>1, <1>2, <1>3 DEF Plan, Whole
<1>5. Opens(disk, sdx, o)
      BY <1>3 DEF Opens
<1> QED
      BY <1>1, <1>3, <1>4, <1>5, BeginKeeps DEF o

(* Renaming keeps the invariant. *)
LEMMA RenameKeeps ==
    ASSUME SdfsInv, NEW name \in Names, NEW new \in Names, RenameFile(name, new)
    PROVE  SdfsInv' /\ Planned
<1> DEFINE old == sdx[name]
           f == [old EXCEPT !.host = new]
           o == Fresh("rename", name, new, f, {Dir})
<1>1. name \in DOMAIN sdx /\ new \notin DOMAIN sdx /\ op = NoOp /\ Begin("rename", name, new, f, {Dir})
      BY DEF RenameFile, Begin
<1>2. /\ Resting(disk, sdx) /\ Catalogue(sdx) /\ Sound(old) /\ name \in AllNames
      /\ \A n \in DOMAIN sdx \ {name} : Apart(old, sdx[n])
      BY <1>1, AtRestFiles
<1>3. new \in AllNames /\ new \in Paths /\ \A n \in DOMAIN sdx : sdx[n].host # new
      BY <1>1, <1>2, NamesAre
<1> HIDE DEF old
<1>4. f.slot = old.slot /\ f.maps = old.maps /\ f.data = old.data /\ f.bytes = old.bytes /\ f.host = new /\ f \in Files
      BY <1>2, <1>3 DEF Sound, Files
<1>5. f = [old EXCEPT !.host = new]
      OBVIOUS
<1> HIDE DEF f
<1>6. Sound(f) /\ SectorsOf(f) = SectorsOf(old)
      BY <1>2, <1>4 DEF Sound, SectorsOf
<1>7. \A n \in DOMAIN sdx \ {name} : Apart(f, sdx[n])
      BY <1>2, <1>3, <1>4, <1>6, StaysApart
<1>8. /\ o \in Ops /\ o.kind = "rename" /\ o.name = name /\ o.as = new /\ o.file = f /\ o.phase = "rest"
      /\ o.todo = {Dir} /\ o.todo \subseteq {Dir} \cup SectorsOf(f)
  <2>1. Beginning("rename", name, new, f, {Dir})
        BY <1>2, <1>3, <1>6 DEF Beginning
  <2>2. BegunWith(o, "rename", name, new, f, {Dir})
        BY <2>1, FreshIs
  <2> HIDE DEF o
  <2> QED
        BY <2>2 DEF BegunWith, Whole
<1> HIDE DEF o
<1>9. Plan(sdx, o)
      BY <1>1, <1>2, <1>4, <1>5, <1>6, <1>7, <1>8 DEF Plan, Whole, old
<1>10. Opens(disk, sdx, o)
      BY <1>8 DEF Opens
<1> QED
      BY <1>1, <1>8, <1>9, <1>10, BeginKeeps DEF o

(* Writing in place keeps the invariant. *)
LEMMA UpdateKeeps ==
    ASSUME SdfsInv, NEW name \in Names, NEW k, UpdateFile(name, k)
    PROVE  SdfsInv' /\ Planned
<1> DEFINE old == sdx[name]
           B == [i \in 1 .. Len(old.bytes) |-> IF SectorsFor(i) = k THEN NewBytes(Len(old.bytes))[i] ELSE old.bytes[i]]
           f == [old EXCEPT !.bytes = B]
           T == {old.data[k]}
           o == Fresh("update", name, name, f, T)
<1>1. name \in DOMAIN sdx /\ k \in DOMAIN old.data /\ op = NoOp /\ Begin("update", name, name, f, T)
      BY DEF UpdateFile, Begin
<1>2. /\ Resting(disk, sdx) /\ Catalogue(sdx) /\ Sound(old) /\ name \in AllNames /\ ops \in Nat
      /\ \A n \in DOMAIN sdx \ {name} : Apart(old, sdx[n])
      BY <1>1, AtRestFiles
<1> HIDE DEF old
<1>3. B \in Seq(Int) /\ Len(B) = Len(old.bytes)
  <2>1. Len(old.bytes) \in Nat /\ old.bytes \in Seq(Int)
        BY <1>2, SoundFacts
  <2> DEFINE new == NewBytes(Len(old.bytes))
  <2>2. new \in Seq(Int) /\ Len(new) = Len(old.bytes)
        BY <1>2, <2>1, NewBytesAre
  <2> HIDE DEF new
  <2>3. \A i \in 1 .. Len(old.bytes) : new[i] \in Int /\ old.bytes[i] \in Int
        BY <2>1, <2>2
  <2>4. B = [i \in 1 .. Len(old.bytes) |-> IF SectorsFor(i) = k THEN new[i] ELSE old.bytes[i]]
        BY DEF new
  <2> HIDE DEF B
  <2>5. B \in [1 .. Len(old.bytes) -> Int]
        BY <2>3, <2>4
  <2> QED
        BY <2>1, <2>5
<1> HIDE DEF B
<1>4. f.slot = old.slot /\ f.maps = old.maps /\ f.data = old.data /\ f.bytes = B /\ f.host = old.host /\ f \in Files
      BY <1>2, <1>3 DEF Sound, Files
<1> HIDE DEF f
<1>5. Sound(f) /\ SectorsOf(f) = SectorsOf(old)
      BY <1>2, <1>3, <1>4 DEF Sound, SectorsOf
<1>6. \A n \in DOMAIN sdx \ {name} : Apart(f, sdx[n])
      BY <1>2, <1>4, <1>5, StaysApart
<1>7. T \subseteq Elems(f.data) /\ T # {}
      BY <1>1, <1>4 DEF Elems
<1>8. T \subseteq {Dir} \cup SectorsOf(f) /\ Dir \notin T
      BY <1>5, <1>7, SoundFacts DEF SectorsOf
<1> HIDE DEF T
<1>9. /\ o \in Ops /\ o.kind = "update" /\ o.name = name /\ o.as = name /\ o.file = f /\ o.phase = "rest"
      /\ o.todo = T
  <2>1. Beginning("update", name, name, f, T)
        BY <1>2, <1>5, <1>8 DEF Beginning
  <2>2. BegunWith(o, "update", name, name, f, T)
        BY <2>1, FreshIs
  <2> HIDE DEF o
  <2> QED
        BY <2>2 DEF BegunWith, Whole
<1> HIDE DEF o
<1>10. Plan(sdx, o)
      BY <1>1, <1>2, <1>3, <1>4, <1>5, <1>6, <1>7, <1>8, <1>9 DEF Plan, Whole, old
<1>11. Opens(disk, sdx, o)
      BY <1>9 DEF Opens
<1> QED
      BY <1>1, <1>7, <1>9, <1>10, <1>11, BeginKeeps DEF o

(* Free sectors for maps and for data. *)
LEMMA FreeParts ==
    ASSUME Catalogue(sdx), NEW a \in Nat, NEW b \in Nat, a + b <= Len(Free)
    PROVE  LET M == SubSeq(Free, 1, a)
               D == SubSeq(Free, a + 1, a + b)
           IN  /\ M \in Seq(Sectors) /\ Len(M) = a /\ Distinct(M)
               /\ D \in Seq(Sectors) /\ Len(D) = b /\ Distinct(D) /\ Disjoint(M, D)
               /\ \A n \in DOMAIN sdx : /\ \A i \in 1 .. a : M[i] \notin SectorsOf(sdx[n])
                                        /\ \A i \in 1 .. b : D[i] \notin SectorsOf(sdx[n])
<1> DEFINE M == SubSeq(Free, 1, a)
           D == SubSeq(Free, a + 1, a + b)
<1>1. /\ Free \in Seq(Sectors) /\ Distinct(Free)
      /\ \A i \in 1 .. Len(Free) : \A n \in DOMAIN sdx : Free[i] \notin SectorsOf(sdx[n])
      BY FreeIs
<1>2. Len(Free) \in Nat
      BY <1>1
<1>3. M \in Seq(Sectors) /\ Len(M) = a /\ (\A i \in 1 .. a : M[i] = Free[i]) /\ Distinct(M)
  <2>1. LET t == SubSeq(Free, 0 + 1, a)
        IN  /\ t \in Seq(Sectors) /\ Len(t) = a - 0 /\ \A i \in 1 .. a - 0 : t[i] = Free[0 + i]
            /\ Distinct(Free) => Distinct(t)
        BY <1>1, <1>2, Slice
  <2>2. 0 + 1 = 1 /\ a - 0 = a /\ \A i \in 1 .. a : 0 + i = i
        OBVIOUS
  <2> QED
        BY <1>1, <2>1, <2>2
<1>4. D \in Seq(Sectors) /\ Len(D) = b /\ (\A i \in 1 .. b : D[i] = Free[a + i]) /\ Distinct(D)
  <2> DEFINE c == a + b
  <2>1. c \in Nat /\ a <= c /\ c <= Len(Free) /\ c - a = b
        BY <1>2
  <2> HIDE DEF c
  <2>2. LET t == SubSeq(Free, a + 1, c)
        IN  /\ t \in Seq(Sectors) /\ Len(t) = c - a /\ \A i \in 1 .. c - a : t[i] = Free[a + i]
            /\ Distinct(Free) => Distinct(t)
        BY <1>1, <2>1, Slice
  <2> QED
        BY <1>1, <2>1, <2>2 DEF c
<1> HIDE DEF M, D
<1>5. Disjoint(M, D)
  <2> SUFFICES ASSUME NEW i \in 1 .. Len(M), NEW j \in 1 .. Len(D), M[i] = D[j]
               PROVE  FALSE
        BY DEF Disjoint
  <2>1. Free[i] = Free[a + j] /\ i \in 1 .. a /\ j \in 1 .. b
        BY <1>3, <1>4
  <2>2. i \in 1 .. Len(Free) /\ a + j \in 1 .. Len(Free) /\ i # a + j
        BY <1>2, <2>1
  <2> QED
        BY <1>1, <2>1, <2>2 DEF Distinct
<1>6. ASSUME NEW n \in DOMAIN sdx
      PROVE  /\ \A i \in 1 .. a : M[i] \notin SectorsOf(sdx[n])
             /\ \A i \in 1 .. b : D[i] \notin SectorsOf(sdx[n])
  <2>1. \A i \in 1 .. a : i \in 1 .. Len(Free)
        BY <1>2
  <2>2. \A i \in 1 .. b : a + i \in 1 .. Len(Free)
        BY <1>2
  <2> QED
        BY <1>1, <1>3, <1>4, <2>1, <2>2
<1> QED
      BY <1>3, <1>4, <1>5, <1>6 DEF M, D

(* Creating keeps the invariant. *)
LEMMA CreateKeeps ==
    ASSUME SdfsInv, NEW name \in Names, NEW length \in Lengths, CreateFile(name, length)
    PROVE  SdfsInv' /\ Planned
<1> DEFINE n == SectorsFor(length)
           m == MapsFor(n)
           M == SubSeq(Free, 1, m)
           D == SubSeq(Free, m + 1, m + n)
           f == FileOf(FreeSlot, M, D, NewBytes(length), name)
           T == {Dir} \cup SectorsOf(f)
           o == Fresh("create", name, name, f, T)
<1>1. /\ name \notin DOMAIN sdx /\ Len(Free) >= m + n /\ Cardinality(DOMAIN sdx) < Slots /\ op = NoOp
      /\ Begin("create", name, name, f, T)
      BY DEF CreateFile, Begin, FileOf
<1>2. Resting(disk, sdx) /\ Catalogue(sdx) /\ ops \in Nat /\ \A k \in DOMAIN sdx : Sound(sdx[k])
      BY <1>1, AtRestFiles
<1>3. name \in AllNames /\ name \in Paths /\ \A k \in DOMAIN sdx : sdx[k].host # name
      BY <1>1, <1>2, NamesAre
<1>4. FreeSlot \in 1 .. Slots /\ Vacant(disk, FreeSlot) /\ \A k \in DOMAIN sdx : sdx[k].slot # FreeSlot
      BY <1>1, <1>2, SlotIs
<1>5. length \in Nat \ {0}
      BY SdfsAssumption
<1>6. n \in Nat \ {0} /\ m \in Nat \ {0}
      BY <1>5, Needs
<1>7. NewBytes(length) \in Seq(Int) /\ Len(NewBytes(length)) = length
      BY <1>2, <1>5, NewBytesAre
<1> HIDE DEF n
<1>8. m = MapsFor(n)
      OBVIOUS
<1> HIDE DEF m
<1>9. /\ M \in Seq(Sectors) /\ Len(M) = m /\ Distinct(M)
      /\ D \in Seq(Sectors) /\ Len(D) = n /\ Distinct(D) /\ Disjoint(M, D)
      /\ \A k \in DOMAIN sdx : /\ \A i \in 1 .. m : M[i] \notin SectorsOf(sdx[k])
                               /\ \A i \in 1 .. n : D[i] \notin SectorsOf(sdx[k])
  <2>1. m \in Nat /\ n \in Nat /\ m + n <= Len(Free)
    <3>1. Len(Free) \in Nat
          BY <1>2, FreeIs
    <3> QED
          BY <1>1, <1>6, <3>1
  <2> QED
      BY <1>2, <2>1, FreeParts
<1> HIDE DEF M, D
<1>10. Sound(f) /\ f.slot = FreeSlot /\ f.maps = M /\ f.data = D /\ f.bytes = NewBytes(length) /\ f.host = name
  <2> DEFINE B == NewBytes(length)
  <2>1. B \in Seq(Int) /\ Len(B) > 0 /\ Len(D) = SectorsFor(Len(B)) /\ Len(M) = MapsFor(Len(D))
        BY <1>5, <1>7, <1>8, <1>9 DEF n
  <2>2. \A i \in 1 .. Len(M) : \A j \in 1 .. Len(D) : M[i] # D[j]
        BY <1>9 DEF Disjoint
  <2> HIDE DEF B
  <2> QED
    <3>1. Parts(FreeSlot, M, D, B, name)
          BY <1>3, <1>4, <1>9, <2>1, <2>2 DEF Parts
    <3> QED
          BY <3>1, Composed DEF B
<1> HIDE DEF f
<1>11. \A k \in DOMAIN sdx : Apart(f, sdx[k])
  <2> TAKE k \in DOMAIN sdx
  <2>1. Elems(f.maps) \cap SectorsOf(sdx[k]) = {}
        BY <1>9, <1>10 DEF Elems
  <2>2. Elems(f.data) \cap SectorsOf(sdx[k]) = {}
        BY <1>9, <1>10 DEF Elems
  <2>3. SectorsOf(f) = Elems(f.maps) \cup Elems(f.data)
        BY DEF SectorsOf
  <2> QED
        BY <1>3, <1>4, <1>10, <2>1, <2>2, <2>3 DEF Apart
<1>12. BegunWith(o, "create", name, name, f, T)
  <2>1. Beginning("create", name, name, f, T)
        BY <1>3, <1>10 DEF Beginning, Whole
  <2> HIDE DEF T
  <2> QED
        BY <2>1, FreshIs
<1> HIDE DEF o, T
<1>13. /\ o \in Ops /\ o.kind = "create" /\ o.name = name /\ o.as = name /\ o.file = f /\ o.phase = "open"
       /\ o.todo = {Dir}
       BY <1>12 DEF BegunWith, Whole
<1>14. Plan(sdx, o)
       BY <1>1, <1>10, <1>11, <1>13 DEF Plan, Whole
<1>15. Opens(disk, sdx, o)
       BY <1>4, <1>10, <1>13 DEF Opens
<1> QED
       BY <1>1, <1>13, <1>14, <1>15, BeginKeeps DEF o

(* A file put together from free sectors only, or from those of a file and *)
(* free ones, is apart from the other files.                               *)
LEMMA LongerApart ==
    ASSUME NEW f, NEW g, NEW h, Apart(f, g), h.slot = f.slot, h.host = f.host,
           Elems(h.maps) \cup Elems(h.data) \subseteq SectorsOf(f) \cup (Sectors \ SectorsOf(g))
    PROVE  Apart(h, g)
<1>1. SectorsOf(h) \subseteq SectorsOf(f) \cup (Sectors \ SectorsOf(g))
      BY DEF SectorsOf
<1> QED
      BY <1>1 DEF Apart

Grown(f, x, y, z) == [f EXCEPT !.maps = @ \o x, !.data = @ \o y, !.bytes = @ \o z]

(* A file with more of everything. *)
LEMMA Longer ==
    ASSUME NEW f, NEW s, NEW a, NEW b, NEW c, NEW h, f = FileOf(s, a, b, c, h), NEW x, NEW y, NEW z
    PROVE  Grown(f, x, y, z) = FileOf(s, a \o x, b \o y, c \o z, h)
<1> DEFINE u == a \o x
           v == b \o y
           w == c \o z
<1>1. f.maps = a /\ f.data = b /\ f.bytes = c
      BY DEF FileOf
<1>2. Grown(f, x, y, z) = [f EXCEPT !.maps = u, !.data = v, !.bytes = w]
      BY ONLY <1>1 DEF Grown
<1> HIDE DEF u, v, w
<1>3. [f EXCEPT !.maps = u] = FileOf(s, u, b, c, h)
      BY DEF FileOf
<1>4. [FileOf(s, u, b, c, h) EXCEPT !.data = v] = FileOf(s, u, v, c, h)
      BY ONLY TRUE DEF FileOf
<1>5. [FileOf(s, u, v, c, h) EXCEPT !.bytes = w] = FileOf(s, u, v, w, h)
      BY ONLY TRUE DEF FileOf
<1>6. [f EXCEPT !.maps = u, !.data = v, !.bytes = w] = [[[f EXCEPT !.maps = u] EXCEPT !.data = v] EXCEPT !.bytes = w]
      BY DEF FileOf
<1> QED
      BY <1>2, <1>3, <1>4, <1>5, <1>6 DEF u, v, w

(* What an extension needs on top of what the file has. *)
LEMMA MoreNeeds ==
    ASSUME NEW f, Sound(f), NEW length \in Nat \ {0}, length > Len(f.bytes)
    PROVE  LET n == SectorsFor(length) - Len(f.data)
               m == MapsFor(SectorsFor(length)) - Len(f.maps)
           IN  /\ n \in Nat /\ m \in Nat /\ (n = 0 => m = 0)
               /\ Len(f.data) \in Nat \ {0} /\ Len(f.maps) \in Nat \ {0} /\ Len(f.bytes) \in Nat \ {0}
<1> DEFINE a == Len(f.bytes)
           p == SectorsFor(length)
           q == MapsFor(p)
<1>1. a \in Nat \ {0} /\ f.maps \in Seq(Sectors) /\ f.data \in Seq(Sectors)
      /\ Len(f.data) = SectorsFor(a) /\ Len(f.maps) = MapsFor(SectorsFor(a))
      BY SoundFacts DEF Sound
<1> HIDE DEF a
<1>2. /\ SectorsFor(a) \in Nat \ {0} /\ MapsFor(SectorsFor(a)) \in Nat \ {0}
      /\ SectorsFor(a) <= p /\ MapsFor(SectorsFor(a)) <= q /\ p \in Nat \ {0} /\ q \in Nat \ {0}
  <2>1. a <= length
        BY <1>1 DEF a
  <2> QED
        BY <1>1, <2>1, Needs
<1> HIDE DEF p
<1>3. q = MapsFor(p)
      OBVIOUS
<1> HIDE DEF q
<1>4. p - Len(f.data) \in Nat /\ q - Len(f.maps) \in Nat
      BY <1>1, <1>2
<1>5. ASSUME p - Len(f.data) = 0
      PROVE  q - Len(f.maps) = 0
  <2>1. p = Len(f.data)
        BY <1>1, <1>2, <1>5
  <2>2. Len(f.maps) = q
        BY <1>1, <1>3, <2>1
  <2> QED
        BY <1>1, <1>2, <2>2
<1>6. Len(f.data) \in Nat \ {0} /\ Len(f.maps) \in Nat \ {0}
      BY <1>1, <1>2
<1> QED
      BY <1>1, <1>4, <1>5, <1>6 DEF a, p, q

(* Appending keeps the invariant. *)
LEMMA ExtendKeeps ==
    ASSUME SdfsInv, NEW name \in Names, NEW length \in Lengths, ExtendFile(name, length)
    PROVE  SdfsInv' /\ Planned
<1> DEFINE f == sdx[name]
           old == Len(f.bytes)
           n == SectorsFor(length) - Len(f.data)
           m == MapsFor(SectorsFor(length)) - Len(f.maps)
           M == SubSeq(Free, 1, m)
           D == SubSeq(Free, m + 1, m + n)
           R == [k \in 1 .. length - old |-> NewBytes(length)[old + k]]
           F == [f EXCEPT !.maps = @ \o M, !.data = @ \o D, !.bytes = @ \o R]
           fresh == {F.data[k] : k \in Len(f.data) + 1 .. Len(f.data) + n}
           T == {Dir} \cup fresh
                 \cup (IF n > 0 THEN {F.maps[i] : i \in Len(f.maps) .. Len(f.maps) + m} ELSE {})
                 \cup (IF old % SectorSize # 0 THEN {f.data[Len(f.data)]} ELSE {})
           o == Fresh("append", name, name, F, T)
<1>1. /\ name \in DOMAIN sdx /\ length > old /\ Len(Free) >= m + n /\ op = NoOp
      /\ Begin("append", name, name, F, T)
      BY DEF ExtendFile, Begin
<1>2. /\ Resting(disk, sdx) /\ Catalogue(sdx) /\ ops \in Nat /\ Sound(f) /\ name \in AllNames
      /\ \A k \in DOMAIN sdx \ {name} : Apart(f, sdx[k])
      BY <1>1, AtRestFiles
<1>3. length \in Nat \ {0}
      BY SdfsAssumption
<1>4. /\ n \in Nat /\ m \in Nat /\ (n = 0 => m = 0)
      /\ Len(f.data) \in Nat \ {0} /\ Len(f.maps) \in Nat \ {0} /\ old \in Nat \ {0}
  <2>1. LET u == SectorsFor(length) - Len(f.data)
            v == MapsFor(SectorsFor(length)) - Len(f.maps)
        IN  /\ u \in Nat /\ v \in Nat /\ (u = 0 => v = 0)
            /\ Len(f.data) \in Nat \ {0} /\ Len(f.maps) \in Nat \ {0} /\ Len(f.bytes) \in Nat \ {0}
    <3> HIDE DEF f
    <3> QED
        BY <1>1, <1>2, <1>3, MoreNeeds DEF old
  <2> QED
        BY <2>1
<1>5. R \in Seq(Int) /\ Len(R) = length - old
  <2>1. NewBytes(length) \in Seq(Int) /\ Len(NewBytes(length)) = length
        BY <1>2, <1>3, NewBytesAre
  <2> DEFINE B == NewBytes(length)
             c == length - old
  <2> HIDE DEF B
  <2>2. B \in Seq(Int) /\ Len(B) = length
        BY <2>1 DEF B
  <2>3. R = [k \in 1 .. length - old |-> B[old + k]]
        BY DEF B
  <2> HIDE DEF R, old
  <2>4. \A k \in 1 .. length - old : B[old + k] \in Int
    <3>1. \A k \in 1 .. length : B[k] \in Int
          BY <2>2
    <3>2. \A k \in 1 .. length - old : old + k \in 1 .. length
          BY <1>3, <1>4
    <3> QED
          BY <3>1, <3>2
  <2>5. R \in [1 .. length - old -> Int] /\ length - old \in Nat
        BY <1>1, <1>3, <1>4, <2>3, <2>4
  <2> QED
        BY <2>5
<1> HIDE DEF R
<1>6. n + Len(f.data) = SectorsFor(length) /\ m + Len(f.maps) = MapsFor(SectorsFor(length))
  <2>1. SectorsFor(length) \in Nat /\ MapsFor(SectorsFor(length)) \in Nat
        BY <1>3, Needs
  <2> QED
    <3> DEFINE a == SectorsFor(length)
               b == MapsFor(a)
               x == Len(f.data)
               y == Len(f.maps)
    <3>1. n = a - x /\ m = b - y /\ a \in Nat /\ b \in Nat /\ x \in Nat /\ y \in Nat
          BY ONLY <1>4, <2>1
    <3> HIDE DEF a, b, x, y, n, m
    <3>2. n + x = a /\ m + y = b
          BY ONLY <3>1
    <3> QED
          BY ONLY <3>2 DEF a, b, x, y
<1>7. /\ M \in Seq(Sectors) /\ Len(M) = m /\ Distinct(M)
      /\ D \in Seq(Sectors) /\ Len(D) = n /\ Distinct(D) /\ Disjoint(M, D)
      /\ \A k \in DOMAIN sdx : /\ \A i \in 1 .. m : M[i] \notin SectorsOf(sdx[k])
                               /\ \A i \in 1 .. n : D[i] \notin SectorsOf(sdx[k])
  <2> HIDE DEF n, m
  <2>1. m \in Nat /\ n \in Nat /\ m + n <= Len(Free)
    <3>1. Len(Free) \in Nat
          BY <1>2, FreeIs
    <3> QED
          BY <1>1, <1>4, <3>1
  <2> QED
      BY <1>2, <2>1, FreeParts
<1> HIDE DEF M, D, n, m
<1>8. /\ f.maps \in Seq(Sectors) /\ f.data \in Seq(Sectors) /\ f.bytes \in Seq(Int) /\ f.slot \in 1 .. Slots /\ f.host \in Paths
      /\ Distinct(f.maps) /\ Distinct(f.data) /\ Disjoint(f.maps, f.data)
      /\ Elems(f.maps) \subseteq SectorsOf(f) /\ Elems(f.data) \subseteq SectorsOf(f)
      /\ \A i \in 1 .. Len(f.maps) : f.maps[i] \in SectorsOf(f)
      /\ \A i \in 1 .. Len(f.data) : f.data[i] \in SectorsOf(f)
  <2> HIDE DEF f
  <2>1. f \in Files /\ Distinct(f.maps) /\ Distinct(f.data) /\ Elems(f.maps) \cap Elems(f.data) = {}
        BY <1>2 DEF Sound
  <2>2. f.maps \in Seq(Sectors) /\ f.data \in Seq(Sectors) /\ f.bytes \in Seq(Int) /\ f.slot \in 1 .. Slots /\ f.host \in Paths
        BY <2>1 DEF Files
  <2> QED
    <3>1. /\ Elems(f.maps) \subseteq SectorsOf(f) /\ Elems(f.data) \subseteq SectorsOf(f)
          BY ONLY TRUE DEF SectorsOf
    <3>2. /\ \A i \in 1 .. Len(f.maps) : f.maps[i] \in Elems(f.maps)
          /\ \A i \in 1 .. Len(f.data) : f.data[i] \in Elems(f.data)
          BY ONLY <2>2, ElemsAre
    <3>3. Disjoint(f.maps, f.data)
          BY ONLY <2>1, <3>2 DEF Disjoint
    <3>4. /\ \A i \in 1 .. Len(f.maps) : f.maps[i] \in SectorsOf(f)
          /\ \A i \in 1 .. Len(f.data) : f.data[i] \in SectorsOf(f)
          BY ONLY <3>1, <3>2
    <3> QED
          BY ONLY <2>1, <2>2, <3>1, <3>3, <3>4
<1> DEFINE MM == f.maps \o M
           DD == f.data \o D
           BB == f.bytes \o R
<1>9. /\ MM \in Seq(Sectors) /\ Len(MM) = Len(f.maps) + m
      /\ \A i \in 1 .. Len(f.maps) : MM[i] = f.maps[i]
      /\ \A i \in 1 .. Len(MM) : i \notin 1 .. Len(f.maps) => i - Len(f.maps) \in 1 .. m /\ MM[i] = M[i - Len(f.maps)]
      /\ Distinct(MM)
  <2> DEFINE g == f.maps
  <2> HIDE DEF g
  <2>1. g \in Seq(Sectors) /\ Distinct(g) /\ Disjoint(g, M)
    <3>1. \A i \in 1 .. Len(g) : g[i] \in SectorsOf(f)
          BY <1>8 DEF g
    <3> QED
          BY <1>1, <1>7, <1>8, <3>1 DEF g, Disjoint
  <2>2. Joint(g, M, MM, Sectors) /\ Distinct(MM)
    <3>1. MM = g \o M 
          BY DEF g
    <3> HIDE DEF MM
    <3> QED
        BY <1>7, <2>1, <3>1, JointIs
  <2> HIDE DEF MM
  <2> QED
        BY <1>7, <2>2 DEF g, Joint
<1>10. /\ DD \in Seq(Sectors) /\ Len(DD) = Len(f.data) + n
       /\ \A i \in 1 .. Len(f.data) : DD[i] = f.data[i]
       /\ \A i \in 1 .. Len(DD) : i \notin 1 .. Len(f.data) => i - Len(f.data) \in 1 .. n /\ DD[i] = D[i - Len(f.data)]
       /\ Distinct(DD)
  <2> DEFINE g == f.data
  <2> HIDE DEF g
  <2>1. g \in Seq(Sectors) /\ Distinct(g) /\ Disjoint(g, D)
    <3>1. \A i \in 1 .. Len(g) : g[i] \in SectorsOf(f)
          BY <1>8 DEF g
    <3> QED
          BY <1>1, <1>7, <1>8, <3>1 DEF g, Disjoint
  <2>2. Joint(g, D, DD, Sectors) /\ Distinct(DD)
    <3>1. DD = g \o D 
          BY DEF g
    <3> HIDE DEF DD
    <3> QED
        BY <1>7, <2>1, <3>1, JointIs
  <2> HIDE DEF DD
  <2> QED
        BY <1>7, <2>2 DEF g, Joint
<1>11. BB \in Seq(Int) /\ Len(BB) = length
  <2>1. BB \in Seq(Int) /\ Len(BB) = old + (length - old)
    <3> DEFINE g == f.bytes
    <3> HIDE DEF g
    <3>1. g \in Seq(Int) /\ Len(g) = old
          BY <1>8 DEF g
    <3> HIDE DEF old
    <3>2. g \o R \in Seq(Int) /\ Len(g \o R) = Len(g) + Len(R)
          BY <1>5, <3>1, Joined
    <3> QED
        BY <1>5, <3>1, <3>2 DEF g
  <2> QED
        BY <1>3, <1>4, <2>1
<1>12. \A i \in 1 .. Len(MM) : \A j \in 1 .. Len(DD) : MM[i] # DD[j]
  <2> HIDE DEF MM, DD
  <2> TAKE i \in 1 .. Len(MM)
  <2> TAKE j \in 1 .. Len(DD)
  <2>1. CASE i \in 1 .. Len(f.maps) /\ j \in 1 .. Len(f.data)
        BY <1>8, <1>9, <1>10, <2>1 DEF Disjoint
  <2>2. CASE i \in 1 .. Len(f.maps) /\ j \notin 1 .. Len(f.data)
    <3>1. MM[i] \in SectorsOf(f)
          BY <1>8, <1>9, <2>2
    <3>2. DD[j] \notin SectorsOf(f)
      <4>1. j - Len(f.data) \in 1 .. n /\ DD[j] = D[j - Len(f.data)]
            BY ONLY <1>10, <2>2, j \in 1 .. Len(DD), Zenon
      <4> QED
            BY <1>1, <1>7, <4>1
    <3> QED
          BY <3>1, <3>2
  <2>3. CASE i \notin 1 .. Len(f.maps) /\ j \in 1 .. Len(f.data)
    <3>1. DD[j] \in SectorsOf(f)
          BY <1>8, <1>10, <2>3
    <3>2. MM[i] \notin SectorsOf(f)
      <4>1. i - Len(f.maps) \in 1 .. m /\ MM[i] = M[i - Len(f.maps)]
            BY <1>9, <2>3
      <4> QED
            BY <1>1, <1>7, <4>1
    <3> QED
          BY <3>1, <3>2
  <2>4. CASE i \notin 1 .. Len(f.maps) /\ j \notin 1 .. Len(f.data)
    <3>1. i - Len(f.maps) \in 1 .. Len(M) /\ MM[i] = M[i - Len(f.maps)]
          BY <1>7, <1>9, <2>4
    <3>2. j - Len(f.data) \in 1 .. Len(D) /\ DD[j] = D[j - Len(f.data)]
          BY ONLY <1>7, <1>10, <2>4, j \in 1 .. Len(DD), Zenon
    <3> QED
          BY <1>7, <3>1, <3>2 DEF Disjoint
  <2> QED
        BY <2>1, <2>2, <2>3, <2>4
<1>13. F = FileOf(f.slot, MM, DD, BB, f.host)
  <2>1. f = FileOf(f.slot, f.maps, f.data, f.bytes, f.host)
    <3> HIDE DEF f
    <3> QED
        BY <1>2, FileShape
  <2> HIDE DEF f
  <2> QED
    <3>1. F = Grown(f, M, D, R)
          BY DEF Grown
    <3> HIDE DEF F
    <3> QED
        BY <2>1, <3>1, Longer
<1>14. Sound(F) /\ F.slot = f.slot /\ F.maps = MM /\ F.data = DD /\ F.bytes = BB /\ F.host = f.host
  <2> HIDE DEF MM, DD, BB, F, f
  <2>1. Len(BB) > 0 /\ Len(DD) = SectorsFor(Len(BB)) /\ Len(MM) = MapsFor(Len(DD))
    <3>1. Len(DD) = SectorsFor(length) /\ Len(MM) = MapsFor(SectorsFor(length))
          BY <1>4, <1>6, <1>9, <1>10
    <3> QED
          BY <1>3, <1>11, <3>1
  <2> QED
    <3> DEFINE s == f.slot
               h == f.host
    <3>1. s \in 1 .. Slots /\ h \in Paths
          BY <1>8
    <3> HIDE DEF s, h
    <3>2. LET e == FileOf(s, MM, DD, BB, h)
          IN  Sound(e) /\ e.slot = s /\ e.maps = MM /\ e.data = DD /\ e.bytes = BB /\ e.host = h
      <4>1. MM \in Seq(Sectors) /\ DD \in Seq(Sectors) /\ BB \in Seq(Int) /\ Distinct(MM) /\ Distinct(DD)
            BY <1>9, <1>10, <1>11, Zenon
      <4> QED
        <5>1. Parts(s, MM, DD, BB, h)
              BY ONLY <1>12, <2>1, <3>1, <4>1 DEF Parts
        <5> QED
              BY ONLY <5>1, Composed
    <3> QED
          BY <1>13, <3>2 DEF s, h
<1> HIDE DEF F
<1>15. T = {Dir} \cup {DD[k] : k \in Len(f.data) + 1 .. Len(f.data) + n}
              \cup (IF n > 0 THEN {MM[i] : i \in Len(f.maps) .. Len(f.maps) + m} ELSE {})
              \cup (IF old % SectorSize # 0 THEN {f.data[Len(f.data)]} ELSE {})
      BY <1>14
<1> HIDE DEF MM, DD, BB, fresh, T, f
<1>16. SectorsOf(F) = Elems(MM) \cup Elems(DD)
      BY <1>14 DEF SectorsOf
<1>17. \A k \in DOMAIN sdx \ {name} : Apart(F, sdx[k])
  <2> TAKE k \in DOMAIN sdx \ {name}
  <2>1. Elems(MM) \subseteq SectorsOf(f) \cup (Sectors \ SectorsOf(sdx[k]))
    <3> SUFFICES ASSUME NEW i \in 1 .. Len(MM)
                 PROVE  MM[i] \in SectorsOf(f) \cup (Sectors \ SectorsOf(sdx[k]))
          BY <1>9 DEF Elems
    <3>1. CASE i \in 1 .. Len(f.maps)
          BY <1>8, <1>9, <3>1
    <3>2. CASE i \notin 1 .. Len(f.maps)
      <4>1. i - Len(f.maps) \in 1 .. m /\ MM[i] = M[i - Len(f.maps)]
            BY <1>9, <3>2
      <4>2. MM[i] \in Sectors
            BY <1>9
      <4> QED
            BY <1>7, <4>1, <4>2
    <3> QED
          BY <3>1, <3>2
  <2>2. Elems(DD) \subseteq SectorsOf(f) \cup (Sectors \ SectorsOf(sdx[k]))
    <3> SUFFICES ASSUME NEW i \in 1 .. Len(DD)
                 PROVE  DD[i] \in SectorsOf(f) \cup (Sectors \ SectorsOf(sdx[k]))
          BY <1>10 DEF Elems
    <3>1. CASE i \in 1 .. Len(f.data)
          BY <1>8, <1>10, <3>1
    <3>2. CASE i \notin 1 .. Len(f.data)
      <4>1. i - Len(f.data) \in 1 .. n /\ DD[i] = D[i - Len(f.data)]
            BY ONLY <1>10, <3>2, i \in 1 .. Len(DD), Zenon
      <4>2. DD[i] \in Sectors
            BY <1>10
      <4> QED
            BY <1>7, <4>1, <4>2
    <3> QED
          BY <3>1, <3>2
  <2> QED
        BY <1>2, <1>14, <2>1, <2>2, LongerApart
<1>18. \A i \in 1 .. Len(f.maps) - 1 : MM[i] \notin T
  <2> TAKE i \in 1 .. Len(f.maps) - 1
  <2>1. i \in 1 .. Len(f.maps) /\ i \in 1 .. Len(MM) /\ Len(f.data) \in 1 .. Len(f.data)
        BY <1>4, <1>9
  <2>2. MM[i] \in Sectors /\ Dir \notin Sectors
    <3>1. MM[i] \in Sectors
          BY <1>9, <2>1
    <3>2. Dir \notin Sectors
          BY DEF Dir, Sectors
    <3> QED
          BY <3>1, <3>2
  <2>3. \A k \in Len(f.data) + 1 .. Len(f.data) + n : MM[i] # DD[k]
        BY <1>4, <1>10, <1>12, <2>1
  <2>4. \A k \in Len(f.maps) .. Len(f.maps) + m : MM[i] # MM[k]
    <3> TAKE k \in Len(f.maps) .. Len(f.maps) + m
    <3>1. k \in 1 .. Len(MM) /\ i # k
          BY <1>4, <1>9
    <3> QED
          BY <1>9, <2>1, <3>1 DEF Distinct
  <2>5. MM[i] # f.data[Len(f.data)]
        BY <1>8, <1>9, <2>1 DEF Disjoint
  <2> QED
        BY <1>15, <2>2, <2>3, <2>4, <2>5
<1>19. T \subseteq {Dir} \cup SectorsOf(F)
  <2>1. \A k \in Len(f.data) + 1 .. Len(f.data) + n : DD[k] \in Elems(DD)
    <3>1. \A k \in Len(f.data) + 1 .. Len(f.data) + n : k \in 1 .. Len(DD)
          BY <1>4, <1>10
    <3> QED
          BY <1>10, <3>1 DEF Elems
  <2>2. \A k \in Len(f.maps) .. Len(f.maps) + m : MM[k] \in Elems(MM)
    <3>1. \A k \in Len(f.maps) .. Len(f.maps) + m : k \in 1 .. Len(MM)
          BY <1>4, <1>9
    <3> QED
          BY <1>9, <3>1 DEF Elems
  <2>3. f.data[Len(f.data)] \in Elems(DD)
    <3>1. Len(f.data) \in 1 .. Len(f.data) /\ Len(f.data) \in 1 .. Len(DD)
          BY <1>4, <1>10
    <3> QED
          BY <1>10, <3>1 DEF Elems
  <2> QED
        BY <1>15, <1>16, <2>1, <2>2, <2>3
<1>20. /\ Dir \in T
       /\ old % SectorSize # 0 => f.data[Len(f.data)] \in T
       /\ Len(f.data) < Len(DD) => MM[Len(f.maps)] \in T
       /\ \A i \in Len(f.maps) + 1 .. Len(MM) : MM[i] \in T
       /\ \A k \in Len(f.data) + 1 .. Len(DD) : DD[k] \in T
  <2>1. Len(f.data) < Len(DD) => n > 0 /\ Len(f.maps) \in Len(f.maps) .. Len(f.maps) + m
        BY <1>4, <1>10
  <2>2. \A i \in Len(f.maps) + 1 .. Len(MM) : n > 0 /\ i \in Len(f.maps) .. Len(f.maps) + m
        BY <1>4, <1>9
  <2> QED
        BY <1>10, <1>15, <2>1, <2>2
<1>21. Begins(f, F) /\ Len(f.bytes) < Len(F.bytes)
  <2>1. Len(f.maps) <= Len(MM) /\ Len(f.data) <= Len(DD)
        BY <1>4, <1>9, <1>10
  <2> QED
        BY <1>1, <1>9, <1>10, <1>11, <1>14, <2>1 DEF Begins
<1>22. BegunWith(o, "append", name, name, F, T)
  <2>1. Beginning("append", name, name, F, T)
        BY <1>2, <1>14, <1>19 DEF Beginning
  <2> QED
        BY <2>1, FreshIs
<1> HIDE DEF o
<1>23. /\ o \in Ops /\ o.kind = "append" /\ o.name = name /\ o.as = name /\ o.file = F /\ o.phase = "rest"
       /\ o.todo = T
       BY <1>22 DEF BegunWith, Whole
<1>24. sdx[name] = f
       BY DEF f
<1>25. Plan(sdx, o)
       BY <1>1, <1>14, <1>17, <1>18, <1>19, <1>21, <1>23, <1>24 DEF Plan, Whole
<1>26. Opens(disk, sdx, o)
  <2>1. Len(f.bytes) % SectorSize # 0 => f.data[Len(f.data)] \in T
        BY <1>20 DEF old
  <2> QED
       BY <1>14, <1>20, <1>23, <1>24, <2>1 DEF Opens
<1> QED
       BY <1>1, <1>20, <1>23, <1>25, <1>26, BeginKeeps DEF o

(* A file that shrinks to its first sectors. *)
Cut(f, x, y, b) == [f EXCEPT !.maps = x, !.data = y, !.bytes = b]

(* A file with less of everything. *)
LEMMA CutIs ==
    ASSUME NEW f, NEW s, NEW a, NEW b, NEW c, NEW h, f = FileOf(s, a, b, c, h), NEW x, NEW y, NEW z
    PROVE  Cut(f, x, y, z) = FileOf(s, x, y, z, h)
<1>1. [f EXCEPT !.maps = x] = FileOf(s, x, b, c, h)
      BY DEF FileOf
<1>2. [FileOf(s, x, b, c, h) EXCEPT !.data = y] = FileOf(s, x, y, c, h)
      BY ONLY TRUE DEF FileOf
<1>3. [FileOf(s, x, y, c, h) EXCEPT !.bytes = z] = FileOf(s, x, y, z, h)
      BY ONLY TRUE DEF FileOf
<1>4. Cut(f, x, y, z) = [[[f EXCEPT !.maps = x] EXCEPT !.data = y] EXCEPT !.bytes = z]
      BY DEF FileOf, Cut
<1> QED
      BY <1>1, <1>2, <1>3, <1>4

(* No piece of a sequence, and the first part of one with nothing after it. *)
LEMMA NoPiece ==
    ASSUME NEW S, NEW s \in Seq(S), NEW g, NEW a \in Int, NEW b \in Int, b < a, NEW k \in Nat, k <= Len(s)
    PROVE  SubSeq(s \o SubSeq(g, a, b), 1, k) = SubSeq(s, 1, k)
<1>1. SubSeq(g, a, b) = <<>>
  <2>1. 1 .. (b - a + 1) = {}
        OBVIOUS
  <2> QED
        BY <2>1
<1>2. s \o <<>> = s
      OBVIOUS
<1> QED
      BY <1>1, <1>2

(* A shorter file needs no more sectors. *)
LEMMA FewerNeeds ==
    ASSUME NEW f, Sound(f), NEW length \in Nat \ {0}, length <= Len(f.bytes)
    PROVE  LET n == SectorsFor(length)
               m == MapsFor(n)
           IN  /\ n \in Nat \ {0} /\ m \in Nat \ {0} /\ n <= Len(f.data) /\ m <= Len(f.maps)
               /\ Len(f.data) \in Nat \ {0} /\ Len(f.maps) \in Nat \ {0} /\ Len(f.bytes) \in Nat \ {0}
<1> DEFINE a == Len(f.bytes)
<1>1. a \in Nat \ {0} /\ Len(f.data) = SectorsFor(a) /\ Len(f.maps) = MapsFor(SectorsFor(a))
      BY SoundFacts DEF Sound
<1> HIDE DEF a
<1>2. /\ SectorsFor(length) \in Nat \ {0} /\ MapsFor(SectorsFor(length)) \in Nat \ {0}
      /\ SectorsFor(length) <= SectorsFor(a) /\ MapsFor(SectorsFor(length)) <= MapsFor(SectorsFor(a))
      /\ SectorsFor(a) \in Nat \ {0} /\ MapsFor(SectorsFor(a)) \in Nat \ {0}
  <2>1. length <= a
        BY DEF a
  <2> QED
        BY <1>1, <2>1, Needs
<1> QED
      BY <1>1, <1>2 DEF a

(* Overwriting with no more bytes keeps the invariant. *)
LEMMA ReplaceKeeps ==
    ASSUME SdfsGuest, SdfsInv, NEW name \in Names, NEW length \in Lengths, ReplaceFile(name, length)
    PROVE  SdfsInv' /\ Planned
<1> DEFINE f == sdx[name]
           n == SectorsFor(length)
           m == MapsFor(n)
           fresh == n - Len(f.data) + m - Len(f.maps)
           F == [f EXCEPT !.maps = SubSeq(@ \o SubSeq(Free, 1, m - Len(f.maps)), 1, m),
                          !.data = SubSeq(@ \o SubSeq(Free, m - Len(f.maps) + 1, fresh), 1, n),
                          !.bytes = NewBytes(length)]
           T == {Dir} \cup SectorsOf(F)
           o == Fresh("replace", name, name, F, T)
           B == NewBytes(length)
           MM == SubSeq(f.maps, 1, m)
           DD == SubSeq(f.data, 1, n)
<1>1. /\ name \in DOMAIN sdx /\ length <= Len(f.bytes) /\ op = NoOp
      /\ Begin("replace", name, name, F, T)
      BY DEF ReplaceFile, Begin, SdfsGuest
<1>2. /\ Resting(disk, sdx) /\ Catalogue(sdx) /\ ops \in Nat /\ Sound(f) /\ name \in AllNames
      /\ \A k \in DOMAIN sdx \ {name} : Apart(f, sdx[k])
      BY <1>1, AtRestFiles
<1>3. length \in Nat \ {0}
      BY SdfsAssumption
<1>4. /\ n \in Nat \ {0} /\ m \in Nat \ {0} /\ n <= Len(f.data) /\ m <= Len(f.maps)
      /\ Len(f.data) \in Nat \ {0} /\ Len(f.maps) \in Nat \ {0} /\ Len(f.bytes) \in Nat \ {0}
  <2>1. LET u == SectorsFor(length)
            v == MapsFor(u)
        IN  /\ u \in Nat \ {0} /\ v \in Nat \ {0} /\ u <= Len(f.data) /\ v <= Len(f.maps)
            /\ Len(f.data) \in Nat \ {0} /\ Len(f.maps) \in Nat \ {0} /\ Len(f.bytes) \in Nat \ {0}
    <3> HIDE DEF f
    <3> QED
        BY <1>1, <1>2, <1>3, FewerNeeds
  <2> QED
        BY <2>1
<1>5. B \in Seq(Int) /\ Len(B) = length
      BY <1>2, <1>3, NewBytesAre
<1> HIDE DEF B, n
<1>6. m = MapsFor(n)
      OBVIOUS
<1> HIDE DEF m
<1>7. /\ f.maps \in Seq(Sectors) /\ f.data \in Seq(Sectors) /\ f.bytes \in Seq(Int) /\ f.slot \in 1 .. Slots /\ f.host \in Paths
      /\ Distinct(f.maps) /\ Distinct(f.data) /\ Disjoint(f.maps, f.data)
  <2> HIDE DEF f
  <2>1. f \in Files /\ Distinct(f.maps) /\ Distinct(f.data) /\ Elems(f.maps) \cap Elems(f.data) = {}
        BY <1>2 DEF Sound
  <2>2. f.maps \in Seq(Sectors) /\ f.data \in Seq(Sectors) /\ f.bytes \in Seq(Int) /\ f.slot \in 1 .. Slots /\ f.host \in Paths
        BY <2>1 DEF Files
  <2>3. Disjoint(f.maps, f.data)
    <3>1. \A i \in 1 .. Len(f.maps) : f.maps[i] \in Elems(f.maps)
          BY <2>2 DEF Elems
    <3>2. \A i \in 1 .. Len(f.data) : f.data[i] \in Elems(f.data)
          BY <2>2 DEF Elems
    <3> QED
        BY <2>1, <3>1, <3>2 DEF Disjoint
  <2> QED
        BY <2>1, <2>2, <2>3
<1>8. /\ MM \in Seq(Sectors) /\ Len(MM) = m /\ Distinct(MM)
      /\ \A i \in 1 .. m : MM[i] = f.maps[i] /\ i \in 1 .. Len(f.maps)
  <2> DEFINE g == f.maps
  <2> HIDE DEF g
  <2>1. g \in Seq(Sectors) /\ 0 <= m /\ m <= Len(g) /\ m \in Nat /\ 0 \in Nat /\ Distinct(g)
        BY <1>4, <1>7 DEF g
  <2>2. LET t == SubSeq(g, 0 + 1, m)
        IN  /\ t \in Seq(Sectors) /\ Len(t) = m - 0 /\ \A i \in 1 .. m - 0 : t[i] = g[0 + i]
            /\ Distinct(g) => Distinct(t)
        BY <2>1, Slice
  <2>3. 0 + 1 = 1 /\ m - 0 = m /\ \A i \in 1 .. m : 0 + i = i /\ i \in 1 .. Len(g)
        BY <2>1
  <2> QED
        BY <2>1, <2>2, <2>3 DEF g
<1>9. /\ DD \in Seq(Sectors) /\ Len(DD) = n /\ Distinct(DD)
      /\ \A i \in 1 .. n : DD[i] = f.data[i] /\ i \in 1 .. Len(f.data)
  <2> DEFINE g == f.data
  <2> HIDE DEF g
  <2>1. g \in Seq(Sectors) /\ 0 <= n /\ n <= Len(g) /\ n \in Nat /\ 0 \in Nat /\ Distinct(g)
        BY <1>4, <1>7 DEF g
  <2>2. LET t == SubSeq(g, 0 + 1, n)
        IN  /\ t \in Seq(Sectors) /\ Len(t) = n - 0 /\ \A i \in 1 .. n - 0 : t[i] = g[0 + i]
            /\ Distinct(g) => Distinct(t)
        BY <2>1, Slice
  <2>3. 0 + 1 = 1 /\ n - 0 = n /\ \A i \in 1 .. n : 0 + i = i /\ i \in 1 .. Len(g)
        BY <2>1
  <2> QED
        BY <2>1, <2>2, <2>3 DEF g
<1>10. \A i \in 1 .. Len(MM) : \A j \in 1 .. Len(DD) : MM[i] # DD[j]
       BY <1>7, <1>8, <1>9 DEF Disjoint
<1>11. F = FileOf(f.slot, MM, DD, B, f.host)
  <2>1. f = FileOf(f.slot, f.maps, f.data, f.bytes, f.host)
    <3> HIDE DEF f
    <3> QED
        BY <1>2, FileShape
  <2>2. SubSeq(f.maps \o SubSeq(Free, 1, m - Len(f.maps)), 1, m) = MM
    <3> DEFINE g == f.maps
               a == m - Len(f.maps)
    <3>1. g \in Seq(Sectors) /\ a \in Int /\ a < 1 /\ 1 \in Int /\ m \in Nat /\ m <= Len(g)
          BY <1>4, <1>7
    <3> HIDE DEF g, a
    <3>2. SubSeq(g \o SubSeq(Free, 1, a), 1, m) = SubSeq(g, 1, m)
          BY <3>1, NoPiece
    <3> QED
        BY <3>2 DEF g, a
  <2>3. SubSeq(f.data \o SubSeq(Free, m - Len(f.maps) + 1, fresh), 1, n) = DD
    <3> DEFINE g == f.data
               a == m - Len(f.maps) + 1
    <3>1. g \in Seq(Sectors) /\ a \in Int /\ fresh < a /\ fresh \in Int /\ n \in Nat /\ n <= Len(g)
      <4>1. g \in Seq(Sectors)
            BY <1>7
      <4> HIDE DEF f
      <4> DEFINE p == Len(f.data)
                 q == Len(f.maps)
      <4>2. n \in Nat /\ m \in Nat /\ n <= p /\ m <= q /\ p \in Nat /\ q \in Nat
            BY <1>4
      <4> HIDE DEF p, q
      <4>3. m - q \in Int /\ m - q + 1 \in Int /\ n - p + m - q < m - q + 1 /\ n - p + m - q \in Int
            BY <4>2
      <4>4. n <= Len(g)
            BY <1>4
      <4> QED
          BY <4>1, <4>2, <4>3, <4>4 DEF p, q
    <3> HIDE DEF g, a, fresh
    <3>2. SubSeq(g \o SubSeq(Free, a, fresh), 1, n) = SubSeq(g, 1, n)
          BY <3>1, NoPiece
    <3> QED
        BY <3>2 DEF g, a
  <2>4. F = Cut(f, MM, DD, B)
    <3> HIDE DEF MM, DD, fresh, f
    <3> QED
        BY <2>2, <2>3 DEF Cut, B
  <2> HIDE DEF F, MM, DD, f
  <2> QED
        BY <2>1, <2>4, CutIs
<1>12. Sound(F) /\ F.slot = f.slot /\ F.maps = MM /\ F.data = DD /\ F.bytes = B /\ F.host = f.host
  <2> DEFINE s == f.slot
             h == f.host
  <2> HIDE DEF MM, DD, F
  <2>1. Len(B) > 0 /\ Len(DD) = SectorsFor(Len(B)) /\ Len(MM) = MapsFor(Len(DD))
        BY <1>3, <1>5, <1>6, <1>8, <1>9 DEF n
  <2>2. s \in 1 .. Slots /\ h \in Paths
        BY <1>7
  <2> HIDE DEF f, s, h
  <2>3. MM \in Seq(Sectors) /\ DD \in Seq(Sectors) /\ B \in Seq(Int) /\ Distinct(MM) /\ Distinct(DD)
        BY <1>5, <1>8, <1>9
  <2>4. LET e == FileOf(s, MM, DD, B, h)
        IN  Sound(e) /\ e.slot = s /\ e.maps = MM /\ e.data = DD /\ e.bytes = B /\ e.host = h
    <3>1. Parts(s, MM, DD, B, h)
          BY ONLY <1>10, <2>1, <2>2, <2>3 DEF Parts
    <3> QED
          BY ONLY <3>1, Composed
  <2> QED
        BY <1>11, <2>4 DEF s, h
<1> HIDE DEF F, MM, DD, f
<1>13. SectorsOf(F) \subseteq SectorsOf(f)
  <2>1. Elems(MM) \subseteq Elems(f.maps) /\ Elems(DD) \subseteq Elems(f.data)
    <3>1. DOMAIN MM = 1 .. m /\ DOMAIN DD = 1 .. n /\ DOMAIN f.maps = 1 .. Len(f.maps) /\ DOMAIN f.data = 1 .. Len(f.data)
          BY <1>7, <1>8, <1>9
    <3> QED
          BY <1>8, <1>9, <3>1 DEF Elems
  <2> QED
        BY <1>12, <2>1 DEF SectorsOf
<1>14. \A k \in DOMAIN sdx \ {name} : Apart(F, sdx[k])
       BY <1>2, <1>12, <1>13, StaysApart
<1>15. Begins(F, f) /\ Len(F.bytes) <= Len(f.bytes)
       BY <1>1, <1>4, <1>5, <1>8, <1>9, <1>12 DEF Begins
<1>16. BegunWith(o, "replace", name, name, F, T)
  <2>1. Beginning("replace", name, name, F, T)
        BY <1>2, <1>12 DEF Beginning, Whole
  <2> HIDE DEF T
  <2> QED
        BY <2>1, FreshIs
<1> HIDE DEF o, T
<1>17. /\ o \in Ops /\ o.kind = "replace" /\ o.name = name /\ o.as = name /\ o.file = F /\ o.phase = "open"
       /\ o.todo = {Dir}
       BY <1>16 DEF BegunWith, Whole
<1>18. sdx[name] = f
       BY DEF f
<1>19. Plan(sdx, o)
       BY <1>1, <1>12, <1>14, <1>15, <1>17, <1>18 DEF Plan, Whole
<1>20. Opens(disk, sdx, o)
       BY <1>17 DEF Opens
<1> QED
       BY <1>1, <1>17, <1>19, <1>20, BeginKeeps DEF o

-----------------------------------------------------------------------------
(* mount(). *)

(* Sectors that mounting takes for the data and for the maps of a file. *)
DataCount(i) == SectorsFor(Inventory[i].length)

MapCount(i) == MapsFor(DataCount(i))

(* The recursion that defines Search. *)
LEMMA SearchIs ==
    /\ Search[1] = Dir + 1
    /\ \A i \in 1 .. Len(Inventory) : Search[i + 1] = Search[i] + DataCount(i) + MapCount(i)
<1> DEFINE N == Len(Inventory)
           Next(u, i) == u + DataCount(i - 1) + MapCount(i - 1)
           P(t) == t = [i \in 1 .. N + 1 |-> IF i = 1 THEN Dir + 1 ELSE Next(t[i - 1], i)]
           t == CHOOSE t : P(t)
           Runs(n, s) == DOMAIN s = 1 .. n + 1 /\ s[1] = Dir + 1 /\ \A k \in 2 .. n + 1 : s[k] = Next(s[k - 1], k)
           T == {n \in 0 .. N : \E s : Runs(n, s)}
<1>1. Search = t
      BY DEF Search, DataCount, MapCount
<1>2. N \in Nat
      BY SdfsAssumption, Sizes
<1> HIDE DEF Next, N
<1>3. 0 \in T
  <2> DEFINE s == [k \in 1 .. 1 |-> Dir + 1]
  <2>1. Runs(0, s)
        OBVIOUS
  <2> HIDE DEF s
  <2> QED
        BY <1>2, <2>1
<1>4. ASSUME NEW m \in 1 .. N, m - 1 \in T
      PROVE  m \in T
  <2>1. PICK s : Runs(m - 1, s)
        BY <1>4
  <2>2. m \in Nat /\ m > 0 /\ (m - 1) + 1 = m /\ m \in 0 .. N
        BY <1>2
  <2> DEFINE r == [k \in 1 .. m + 1 |-> IF k = m + 1 THEN Next(s[m], m + 1) ELSE s[k]]
  <2>3. r[1] = Dir + 1
        BY <2>1, <2>2
  <2>4. ASSUME NEW k \in 2 .. m + 1
        PROVE  r[k] = Next(r[k - 1], k)
    <3>1. k - 1 \in 1 .. m + 1 /\ k - 1 # m + 1 /\ k \in 1 .. m + 1 /\ (k = m + 1 => k - 1 = m)
          BY <2>2
    <3>2. r[k - 1] = s[k - 1]
          BY <3>1
    <3>3. CASE k = m + 1
      <4>1. r[k] = Next(s[m], m + 1)
            BY <3>1, <3>3
      <4> HIDE DEF r
      <4> QED
            BY <3>1, <3>2, <3>3, <4>1
    <3>4. CASE k # m + 1
      <4>1. r[k] = s[k] /\ k \in 2 .. (m - 1) + 1
            BY <2>2, <3>1, <3>4
      <4> HIDE DEF r
      <4> QED
            BY <2>1, <3>2, <4>1
    <3> QED
        BY <3>3, <3>4
  <2>5. DOMAIN r = 1 .. m + 1
        OBVIOUS
  <2> HIDE DEF r
  <2> QED
        BY <2>2, <2>3, <2>4, <2>5
<1>5. N \in T
  <2>1. 0 .. N \subseteq T
    <3> HIDE DEF T
    <3> QED
        BY <1>2, <1>3, <1>4, Upto
  <2> QED
        BY <1>2, <2>1
<1>6. PICK g : Runs(N, g)
      BY <1>5
<1>7. \A k \in 1 .. N + 1 : g[k] = IF k = 1 THEN Dir + 1 ELSE Next(g[k - 1], k)
      BY <1>2, <1>6
<1> DEFINE G == [k \in 1 .. N + 1 |-> g[k]]
<1>8. P(G)
  <2>1. \A k \in 1 .. N + 1 : G[k] = IF k = 1 THEN Dir + 1 ELSE Next(G[k - 1], k)
    <3> TAKE k \in 1 .. N + 1
    <3>1. k # 1 => k - 1 \in 1 .. N + 1
          BY <1>2
    <3> QED
        BY <1>7, <3>1
  <2>2. [k \in 1 .. N + 1 |-> G[k]] = [k \in 1 .. N + 1 |-> IF k = 1 THEN Dir + 1 ELSE Next(G[k - 1], k)]
    <3> HIDE DEF G, N
    <3> QED
        BY <2>1, Zenon
  <2>3. G = [k \in 1 .. N + 1 |-> G[k]]
        OBVIOUS
  <2> HIDE DEF G
  <2> QED
        BY <2>2, <2>3
<1>9. P(t)
  <2> HIDE DEF P, G
  <2> QED
        BY <1>8, Zenon
<1>10. \A k \in 1 .. N + 1 : t[k] = IF k = 1 THEN Dir + 1 ELSE Next(t[k - 1], k)
  <2> HIDE DEF t
  <2> QED
        BY <1>9
<1> HIDE DEF t
<1>11. t[1] = Dir + 1
       BY <1>2, <1>10
<1>12. ASSUME NEW i \in 1 .. N
       PROVE  t[i + 1] = t[i] + DataCount(i) + MapCount(i)
  <2>1. i + 1 \in 1 .. N + 1 /\ i + 1 # 1 /\ (i + 1) - 1 = i
        BY <1>2
  <2>2. t[i + 1] = Next(t[i], i + 1)
        BY <1>10, <2>1
  <2> QED
        BY <2>1, <2>2 DEF Next
<1> QED
      BY <1>1, <1>11, <1>12 DEF N

(* What mount() is given: files that are not empty, with an entry for      *)
(* each.                                                                   *)
LEMMA Takes ==
    /\ Len(Inventory) \in Nat /\ Len(Inventory) <= Slots /\ DOMAIN Inventory = 1 .. Len(Inventory)
    /\ \A i \in DOMAIN Inventory : /\ Inventory[i].length \in Nat \ {0}
                                   /\ DataCount(i) \in Nat \ {0} /\ MapCount(i) \in Nat \ {0}
<1>1. /\ Len(Inventory) \in Nat /\ Len(Inventory) <= Slots /\ DOMAIN Inventory = 1 .. Len(Inventory)
      /\ \A i \in DOMAIN Inventory : Inventory[i].length \in Nat \ {0}
      BY SdfsAssumption, Sizes
<1>2. ASSUME NEW i \in DOMAIN Inventory
      PROVE  DataCount(i) \in Nat \ {0} /\ MapCount(i) \in Nat \ {0}
      BY <1>1, Needs DEF DataCount, MapCount
<1> QED
      BY <1>1, <1>2

(* What is taken grows with every file, and ends within the disk. *)
LEMMA SearchGrows ==
    /\ \A i \in 1 .. Len(Inventory) + 1 : Search[i] \in Nat /\ 2 <= Search[i]
    /\ \A i, j \in 1 .. Len(Inventory) + 1 : i < j => Search[i] + DataCount(i) + MapCount(i) <= Search[j]
    /\ \A i \in 1 .. Len(Inventory) : Search[i] + DataCount(i) + MapCount(i) <= LastSector + 1
<1> DEFINE N == Len(Inventory)
           T == {n \in 0 .. N : /\ \A i \in 1 .. n + 1 : Search[i] \in Nat /\ 2 <= Search[i]
                                /\ \A i, j \in 1 .. n + 1 : i < j => Search[i] + DataCount(i) + MapCount(i) <= Search[j]}
<1>1. N \in Nat /\ \A i \in 1 .. N : DataCount(i) \in Nat \ {0} /\ MapCount(i) \in Nat \ {0}
      BY Takes
<1>2. Search[1] = 2 /\ \A i \in 1 .. N : Search[i + 1] = Search[i] + DataCount(i) + MapCount(i)
      BY SearchIs DEF Dir
<1>3. Search[N + 1] <= LastSector + 1 /\ LastSector \in Nat
      BY SdfsAssumption
<1> HIDE DEF N
<1>4. 0 \in T
      BY <1>1, <1>2
<1>5. ASSUME NEW m \in 1 .. N, m - 1 \in T
      PROVE  m \in T
  <2>1. m \in 0 .. N /\ (m - 1) + 1 = m /\ m \in 1 .. m /\ m \in Nat
        BY <1>1
  <2>2. Search[m] \in Nat /\ 2 <= Search[m]
        BY <1>5, <2>1
  <2>3. Search[m + 1] = Search[m] + DataCount(m) + MapCount(m) /\ DataCount(m) \in Nat /\ MapCount(m) \in Nat
        BY <1>1, <1>2
  <2>4. Search[m + 1] \in Nat /\ 2 <= Search[m + 1] /\ Search[m] <= Search[m + 1]
        BY <2>2, <2>3
  <2>5. ASSUME NEW i \in 1 .. m + 1
        PROVE  Search[i] \in Nat /\ 2 <= Search[i]
    <3>1. i = m + 1 \/ i \in 1 .. (m - 1) + 1
          BY <2>1
    <3> QED
          BY <1>5, <2>4, <3>1
  <2>6. ASSUME NEW i \in 1 .. m + 1, NEW j \in 1 .. m + 1, i < j
        PROVE  Search[i] + DataCount(i) + MapCount(i) <= Search[j]
    <3>1. i \in 1 .. m /\ i \in 1 .. N
          BY <1>1, <2>1, <2>6
    <3>2. CASE j # m + 1
      <4>1. i \in 1 .. (m - 1) + 1 /\ j \in 1 .. (m - 1) + 1
            BY <2>1, <3>1, <3>2
      <4> QED
            BY <1>5, <2>6, <4>1
    <3>3. CASE j = m + 1 /\ i = m
      <4>1. Search[j] = Search[i] + DataCount(i) + MapCount(i)
            BY <2>3, <3>3
      <4> QED
            BY <2>4, <3>3, <4>1
    <3>4. CASE j = m + 1 /\ i # m
      <4>1. i < m /\ i \in 1 .. (m - 1) + 1 /\ m \in 1 .. (m - 1) + 1
            BY <2>1, <3>1, <3>4
      <4>2. Search[i] + DataCount(i) + MapCount(i) <= Search[m]
            BY <1>5, <4>1
      <4>3. Search[i] \in Nat /\ DataCount(i) \in Nat /\ MapCount(i) \in Nat
            BY <1>1, <2>5, <3>1
      <4> QED
            BY <2>2, <2>4, <3>4, <4>2, <4>3
    <3> QED
        BY <3>2, <3>3, <3>4
  <2> QED
      BY <2>1, <2>5, <2>6
<1>6. N \in T
  <2>1. 0 .. N \subseteq T
    <3> HIDE DEF T
    <3> QED
        BY <1>1, <1>4, <1>5, Upto
  <2> QED
        BY <1>1, <2>1
<1>7. ASSUME NEW i \in 1 .. N
      PROVE  Search[i] + DataCount(i) + MapCount(i) <= LastSector + 1
  <2>1. i \in 1 .. N + 1 /\ N + 1 \in 1 .. N + 1 /\ i < N + 1
        BY <1>1
  <2>2. Search[i] + DataCount(i) + MapCount(i) <= Search[N + 1]
        BY <1>6, <2>1
  <2>3. Search[i] \in Nat /\ Search[N + 1] \in Nat /\ DataCount(i) \in Nat /\ MapCount(i) \in Nat
        BY <1>1, <1>6, <2>1
  <2> QED
        BY <1>3, <2>2, <2>3
<1> QED
      BY <1>6, <1>7 DEF N

(* The i-th file of the host as the guest knows it at first. *)
Given(i) == [slot |-> i, maps |-> AllocateFile(i).mapSectors, data |-> AllocateFile(i).dataSectors,
             bytes |-> Contents(i), host |-> AllocateFile(i).hostName]

Run(from, n) == [k \in 1 .. n |-> from + k - 1]

(* A run of sectors. *)
LEMMA RunIs ==
    ASSUME NEW from \in Nat, 2 <= from, NEW n \in Nat, from + n <= LastSector + 1
    PROVE  /\ Run(from, n) \in Seq(Sectors) /\ Len(Run(from, n)) = n /\ Distinct(Run(from, n))
           /\ Elems(Run(from, n)) \subseteq from .. from + n - 1
<1> DEFINE s == Run(from, n)
<1>1. LastSector \in Nat
      BY Sizes
<1>2. \A k \in 1 .. n : from + k - 1 \in Sectors /\ from + k - 1 \in from .. from + n - 1
      BY <1>1 DEF Sectors
<1>3. s = [k \in 1 .. n |-> from + k - 1]
      BY DEF Run
<1> HIDE DEF s
<1>4. s \in [1 .. n -> Sectors] /\ DOMAIN s = 1 .. n /\ \A k \in 1 .. n : s[k] = from + k - 1
      BY <1>2, <1>3
<1>5. s \in Seq(Sectors) /\ Len(s) = n
      BY <1>4
<1>6. Distinct(s)
      BY <1>4, <1>5 DEF Distinct
<1>7. Elems(s) \subseteq from .. from + n - 1
      BY <1>2, <1>4 DEF Elems
<1> QED
      BY <1>5, <1>6, <1>7 DEF s

(* What mount() gives a host file, part by part. *)
LEMMA GivenParts ==
    ASSUME NEW i \in DOMAIN Inventory
    PROVE  LET f == Given(i)
           IN  /\ f.slot = i /\ f.host = Inventory[i].hostName /\ f.bytes = Contents(i)
               /\ f.data = Run(Search[i], DataCount(i)) /\ f.maps = Run(Search[i] + DataCount(i), MapCount(i))
               /\ AllocateFile(i) = Record(Inventory[i].name, f)
<1> DEFINE a == AllocateFile(i)
<1>1. /\ a.hostName = Inventory[i].hostName /\ a.name = Inventory[i].name /\ a.length = Inventory[i].length
      /\ a.dataSectors = [k \in 1 .. DataCount(i) |-> Search[i] + k - 1]
      /\ a.mapSectors = [k \in 1 .. MapCount(i) |-> Search[i] + DataCount(i) + k - 1]
      /\ a = [hostName |-> a.hostName, name |-> a.name, length |-> a.length, dataSectors |-> a.dataSectors,
              mapSectors |-> a.mapSectors]
      BY DEF AllocateFile, DataCount, MapCount
<1> HIDE DEF a
<1>2. Inventory[i].length \in Nat /\ Len(Contents(i)) = Inventory[i].length
  <2>1. Inventory[i].length \in Nat
        BY Takes
  <2> QED
        BY <2>1 DEF Contents
<1> QED
      BY <1>1, <1>2 DEF Given, Run, Record, a

(* It is a sound file, in the sectors from where its search begins. *)
LEMMA GivenIs ==
    ASSUME NEW i \in DOMAIN Inventory
    PROVE  /\ Sound(Given(i)) /\ Given(i).slot = i /\ Given(i).host = Inventory[i].hostName
           /\ AllocateFile(i) = Record(Inventory[i].name, Given(i))
           /\ SectorsOf(Given(i)) \subseteq Search[i] .. Search[i] + DataCount(i) + MapCount(i) - 1
<1> DEFINE f == Given(i)
           D == Run(Search[i], DataCount(i))
           M == Run(Search[i] + DataCount(i), MapCount(i))
<1>1. /\ f.slot = i /\ f.host = Inventory[i].hostName /\ f.bytes = Contents(i) /\ f.data = D /\ f.maps = M
      /\ AllocateFile(i) = Record(Inventory[i].name, f)
  <2>1. LET g == Given(i)
        IN  /\ g.slot = i /\ g.host = Inventory[i].hostName /\ g.bytes = Contents(i)
            /\ g.data = Run(Search[i], DataCount(i)) /\ g.maps = Run(Search[i] + DataCount(i), MapCount(i))
            /\ AllocateFile(i) = Record(Inventory[i].name, g)
        BY GivenParts
  <2> QED
        BY <2>1
<1>2. /\ Search[i] \in Nat /\ 2 <= Search[i] /\ DataCount(i) \in Nat \ {0} /\ MapCount(i) \in Nat \ {0}
      /\ Search[i] + DataCount(i) + MapCount(i) <= LastSector + 1 /\ i \in 1 .. Slots
  <2>1. i \in 1 .. Len(Inventory) /\ i \in 1 .. Len(Inventory) + 1 /\ i \in 1 .. Slots
        BY Takes, Sizes
  <2> QED
        BY <2>1, Takes, SearchGrows
<1>3. LastSector \in Nat
      BY Sizes
<1>4. /\ D \in Seq(Sectors) /\ Len(D) = DataCount(i) /\ Distinct(D)
      /\ Elems(D) \subseteq Search[i] .. Search[i] + DataCount(i) - 1
  <2>1. DataCount(i) \in Nat /\ Search[i] + DataCount(i) <= LastSector + 1
        BY <1>2, <1>3
  <2> QED
        BY <1>2, <2>1, RunIs
<1>5. /\ M \in Seq(Sectors) /\ Len(M) = MapCount(i) /\ Distinct(M)
      /\ Elems(M) \subseteq Search[i] + DataCount(i) .. Search[i] + DataCount(i) + MapCount(i) - 1
  <2> DEFINE s == Search[i] + DataCount(i)
             m == MapCount(i)
  <2>1. s \in Nat /\ 2 <= s /\ m \in Nat /\ s + m <= LastSector + 1
        BY <1>2, <1>3
  <2> HIDE DEF s, m
  <2>2. /\ Run(s, m) \in Seq(Sectors) /\ Len(Run(s, m)) = m /\ Distinct(Run(s, m))
        /\ Elems(Run(s, m)) \subseteq s .. s + m - 1
        BY <2>1, RunIs
  <2> QED
        BY <2>2 DEF s, m
<1>6. Elems(M) \cap Elems(D) = {}
      BY <1>2, <1>4, <1>5
<1>7. Elems(M) \cup Elems(D) \subseteq Search[i] .. Search[i] + DataCount(i) + MapCount(i) - 1
      BY <1>2, <1>4, <1>5
<1>8. Contents(i) \in Seq(Int) /\ Len(Contents(i)) = Inventory[i].length /\ Inventory[i].length \in Nat \ {0}
  <2>1. Inventory[i].length \in Nat \ {0} /\ i \in Int
        BY <1>2, Takes
  <2>2. Contents(i) \in [1 .. Inventory[i].length -> Int]
        BY <2>1 DEF Contents
  <2> QED
        BY <2>1, <2>2
<1>9. Inventory[i].hostName \in Paths
      BY DEF Paths
<1>10. f = [slot |-> f.slot, maps |-> f.maps, data |-> f.data, bytes |-> f.bytes, host |-> f.host]
       BY DEF Given
<1> HIDE DEF f, D, M
<1>11. f \in Files
       BY <1>1, <1>2, <1>4, <1>5, <1>8, <1>9, <1>10 DEF Files
<1>12. Sound(f)
       BY <1>1, <1>4, <1>5, <1>6, <1>8, <1>11 DEF Sound, DataCount, MapCount
<1>13. SectorsOf(f) \subseteq Search[i] .. Search[i] + DataCount(i) + MapCount(i) - 1
       BY <1>1, <1>7 DEF SectorsOf
<1> QED
       BY <1>1, <1>12, <1>13 DEF f

(* Mounting gives every file sectors of its own. *)
LEMMA GivenApart ==
    ASSUME NEW i \in DOMAIN Inventory, NEW j \in DOMAIN Inventory, i # j
    PROVE  Apart(Given(i), Given(j))
<1>1. ASSUME NEW a \in DOMAIN Inventory, NEW b \in DOMAIN Inventory, a < b
      PROVE  SectorsOf(Given(a)) \cap SectorsOf(Given(b)) = {}
  <2>1. a \in 1 .. Len(Inventory) + 1 /\ b \in 1 .. Len(Inventory) + 1
        BY Takes
  <2>2. Search[a] + DataCount(a) + MapCount(a) <= Search[b] /\ Search[a] \in Nat /\ Search[b] \in Nat
        BY <1>1, <2>1, SearchGrows
  <2>3. DataCount(a) \in Nat /\ MapCount(a) \in Nat /\ DataCount(b) \in Nat /\ MapCount(b) \in Nat
        BY Takes
  <2> DEFINE p == Search[a] + DataCount(a) + MapCount(a)
             q == Search[b] + DataCount(b) + MapCount(b)
  <2>4. p \in Nat /\ q \in Nat /\ p <= Search[b]
        BY <2>2, <2>3
  <2>5. SectorsOf(Given(a)) \subseteq Search[a] .. p - 1 /\ SectorsOf(Given(b)) \subseteq Search[b] .. q - 1
    <3> HIDE DEF p, q
    <3>1. \A k \in DOMAIN Inventory : SectorsOf(Given(k)) \subseteq Search[k] .. Search[k] + DataCount(k) + MapCount(k) - 1
          BY GivenIs, Zenon
    <3>2. p - 1 = Search[a] + DataCount(a) + MapCount(a) - 1 /\ q - 1 = Search[b] + DataCount(b) + MapCount(b) - 1
          BY <2>2, <2>3 DEF p, q
    <3> QED
          BY <3>1, <3>2
  <2> HIDE DEF p, q
  <2>6. \A x \in Search[a] .. p - 1 : x \notin Search[b] .. q - 1
        BY <2>2, <2>4
  <2> QED
        BY <2>5, <2>6
<1>2. SectorsOf(Given(i)) \cap SectorsOf(Given(j)) = {}
  <2>1. i < j \/ j < i
        BY Takes
  <2> QED
        BY <1>1, <2>1
<1>3. Given(i).host # Given(j).host
      BY GivenIs, SdfsAssumption
<1>4. Given(i).slot # Given(j).slot
  <2>1. Given(i).slot = i
        BY DEF Given
  <2>2. Given(j).slot = j
        BY DEF Given
  <2> QED
        BY <2>1, <2>2
<1> QED
      BY <1>2, <1>3, <1>4 DEF Apart

(* The file a sector belongs to at first. *)
Owner(x) == CHOOSE i \in DOMAIN Inventory :
                x \in Elems(AllocateFile(i).dataSectors) \cup Elems(AllocateFile(i).mapSectors)

(* The file that mount() gave a sector to. *)
LEMMA OwnerIs ==
    ASSUME NEW i \in DOMAIN Inventory, NEW x \in SectorsOf(Given(i))
    PROVE  Owner(x) = i
<1>1. \A j \in DOMAIN Inventory :
          SectorsOf(Given(j)) = Elems(AllocateFile(j).dataSectors) \cup Elems(AllocateFile(j).mapSectors)
      BY DEF Given, SectorsOf
<1>2. \A j \in DOMAIN Inventory : x \in SectorsOf(Given(j)) <=> j = i
      BY GivenApart DEF Apart
<1> QED
      BY <1>1, <1>2 DEF Owner

(* Mount, part by part. *)
AsMounted(d, files) ==
    /\ d.files = files
    /\ d.allocated = DOMAIN d.dataRefs \cup DOMAIN d.metadata
    /\ DOMAIN d.dataRefs = UNION {Elems(files[i].dataSectors) : i \in DOMAIN Inventory}
    /\ DOMAIN d.metadata = UNION {Elems(files[i].mapSectors) : i \in DOMAIN Inventory}
    /\ \A x \in DOMAIN d.dataRefs :
                d.dataRefs[x] = [file |-> Owner(x), at |-> Place(files[Owner(x)].dataSectors, x)]
    /\ \A x \in DOMAIN d.metadata :
                d.metadata[x] = MapImage(files[Owner(x)].mapSectors, files[Owner(x)].dataSectors,
                                             Place(files[Owner(x)].mapSectors, x))
    /\ DOMAIN d.directory = 1 .. Slots
    /\ \A i \in 1 .. Slots : d.directory[i] =
                IF i \in DOMAIN Inventory
                THEN [status |-> "active", map |-> files[i].mapSectors[1], length |-> files[i].length,
                      name |-> files[i].name]
                ELSE Blank
    /\ DOMAIN d.pendingSectorWrites = {} /\ NoPending(d)
    /\ DOMAIN d.io.host = {files[i].hostName : i \in DOMAIN Inventory}
    /\ d.io.fault = 0 /\ d.io.ok = TRUE /\ d.error = FALSE
    /\ d.io = [host |-> d.io.host, fault |-> d.io.fault, ok |-> d.io.ok]
    /\ d = [files |-> d.files, allocated |-> d.allocated, metadata |-> d.metadata,
                    dataRefs |-> d.dataRefs, directory |-> d.directory,
                    pendingSectorWrites |-> d.pendingSectorWrites, pendingCreates |-> d.pendingCreates,
                    pendingAppends |-> d.pendingAppends, pendingReplacements |-> d.pendingReplacements,
                    io |-> d.io, error |-> d.error]

(* The image mount() makes, part by part. *)
LEMMA MountParts ==
    AsMounted(Mount, [i \in DOMAIN Inventory |-> AllocateFile(i)])
<1> DEFINE files == [i \in DOMAIN Inventory |-> AllocateFile(i)]
           data == UNION {Elems(files[i].dataSectors) : i \in DOMAIN files}
           maps == UNION {Elems(files[i].mapSectors) : i \in DOMAIN files}
           owner(x) == CHOOSE i \in DOMAIN files :
                           x \in Elems(files[i].dataSectors) \cup Elems(files[i].mapSectors)
           meta == [m \in maps |-> MapImage(files[owner(m)].mapSectors, files[owner(m)].dataSectors,
                                            Place(files[owner(m)].mapSectors, m))]
           refs == [x \in data |-> [file |-> owner(x), at |-> Place(files[owner(x)].dataSectors, x)]]
           dir == [i \in 1 .. Slots |->
                    IF i \in DOMAIN files
                    THEN [status |-> "active", map |-> files[i].mapSectors[1], length |-> files[i].length,
                          name |-> files[i].name]
                    ELSE Blank]
           host == [h \in {files[i].hostName : i \in DOMAIN files} |->
                        Contents(CHOOSE i \in DOMAIN files : files[i].hostName = h)]
           io == [host |-> host, fault |-> 0, ok |-> TRUE]
           d == [files |-> files, allocated |-> data \cup maps, metadata |-> meta, dataRefs |-> refs,
                 directory |-> dir, pendingSectorWrites |-> <<>>, pendingCreates |-> <<>>, pendingAppends |-> <<>>,
                 pendingReplacements |-> <<>>, io |-> io, error |-> FALSE]
<1>1. Mount = d
      BY DEF Mount
<1>2. DOMAIN files = DOMAIN Inventory
      OBVIOUS
<1>3. \A x : owner(x) = Owner(x)
      BY DEF Owner
<1>4. DOMAIN meta = maps /\ DOMAIN refs = data /\ DOMAIN dir = 1 .. Slots
      OBVIOUS
<1>5. DOMAIN host = {files[i].hostName : i \in DOMAIN files}
      OBVIOUS
<1>6. /\ \A x \in data : refs[x] = [file |-> owner(x), at |-> Place(files[owner(x)].dataSectors, x)]
      /\ \A x \in maps : meta[x] = MapImage(files[owner(x)].mapSectors, files[owner(x)].dataSectors,
                                            Place(files[owner(x)].mapSectors, x))
  <2> HIDE DEF owner, files, data, maps
  <2> QED
        OBVIOUS
<1>7. \A i \in 1 .. Slots : dir[i] =
          IF i \in DOMAIN files
          THEN [status |-> "active", map |-> files[i].mapSectors[1], length |-> files[i].length, name |-> files[i].name]
          ELSE Blank
  <2> HIDE DEF files
  <2> QED
        OBVIOUS
<1>8. DOMAIN <<>> = {}
      OBVIOUS
<1>9. io.host = host /\ io.fault = 0 /\ io.ok = TRUE /\ io = [host |-> io.host, fault |-> io.fault, ok |-> io.ok]
      OBVIOUS
<1>10. data = UNION {Elems(files[i].dataSectors) : i \in DOMAIN Inventory}
       OBVIOUS
<1>11. maps = UNION {Elems(files[i].mapSectors) : i \in DOMAIN Inventory}
       OBVIOUS
<1> HIDE DEF io, host, dir, refs, meta, owner, maps, data, files
<1>12. /\ d.files = files /\ d.allocated = data \cup maps /\ d.metadata = meta /\ d.dataRefs = refs /\ d.directory = dir
       /\ d.pendingSectorWrites = <<>> /\ d.pendingCreates = <<>> /\ d.pendingAppends = <<>>
       /\ d.pendingReplacements = <<>> /\ d.io = io /\ d.error = FALSE
       OBVIOUS
<1>13. d = [files |-> d.files, allocated |-> d.allocated, metadata |-> d.metadata,
            dataRefs |-> d.dataRefs, directory |-> d.directory,
            pendingSectorWrites |-> d.pendingSectorWrites, pendingCreates |-> d.pendingCreates,
            pendingAppends |-> d.pendingAppends, pendingReplacements |-> d.pendingReplacements,
            io |-> d.io, error |-> d.error]
       OBVIOUS
<1> HIDE DEF d
<1>14. NoPending(d)
       BY <1>8, <1>12 DEF NoPending
<1>15. /\ d.files = files
       /\ d.allocated = DOMAIN d.dataRefs \cup DOMAIN d.metadata
       /\ DOMAIN d.dataRefs = data /\ DOMAIN d.metadata = maps
       /\ \A x \in DOMAIN d.dataRefs : d.dataRefs[x] = [file |-> Owner(x), at |-> Place(files[Owner(x)].dataSectors, x)]
       /\ \A x \in DOMAIN d.metadata :
                d.metadata[x] = MapImage(files[Owner(x)].mapSectors, files[Owner(x)].dataSectors,
                                             Place(files[Owner(x)].mapSectors, x))
       BY <1>3, <1>4, <1>6, <1>12
<1>16. /\ DOMAIN d.directory = 1 .. Slots
       /\ \A i \in 1 .. Slots : d.directory[i] =
                IF i \in DOMAIN Inventory
                THEN [status |-> "active", map |-> files[i].mapSectors[1], length |-> files[i].length,
                      name |-> files[i].name]
                ELSE Blank
       BY <1>2, <1>4, <1>7, <1>12
<1>17. /\ DOMAIN d.pendingSectorWrites = {}
       /\ DOMAIN d.io.host = {files[i].hostName : i \in DOMAIN Inventory}
       /\ d.io.fault = 0 /\ d.io.ok = TRUE /\ d.error = FALSE
       /\ d.io = [host |-> d.io.host, fault |-> d.io.fault, ok |-> d.io.ok]
       BY <1>2, <1>5, <1>8, <1>9, <1>12
<1>18. files = [i \in DOMAIN Inventory |-> AllocateFile(i)]
       BY DEF files
<1>19. AsMounted(d, files)
       BY <1>10, <1>11, <1>13, <1>14, <1>15, <1>16, <1>17 DEF AsMounted
<1> QED
       BY <1>1, <1>18, <1>19

(* A guest that knows the files of the host, and no others. *)
Knows(cat) ==
    /\ DOMAIN cat = {Inventory[i].name : i \in DOMAIN Inventory}
    /\ \A i \in DOMAIN Inventory : cat[Inventory[i].name] = Given(i)

(* The guest's files at the start are the host's. *)
LEMMA InitKnows ==
    ASSUME SdfsInit
    PROVE  Knows(sdx) /\ sdx = [n \in DOMAIN sdx |-> sdx[n]]
<1> DEFINE N == {Inventory[i].name : i \in DOMAIN Inventory}
           at(n) == CHOOSE i \in DOMAIN Inventory : Inventory[i].name = n
<1>1. sdx = [n \in N |-> Given(at(n))]
      BY DEF SdfsInit, Given
<1>2. ASSUME NEW i \in DOMAIN Inventory
      PROVE  at(Inventory[i].name) = i /\ Inventory[i].name \in N
      BY SdfsAssumption
<1> HIDE DEF N, at
<1>3. DOMAIN sdx = N /\ \A n \in N : sdx[n] = Given(at(n))
      BY <1>1
<1>4. \A i \in DOMAIN Inventory : sdx[Inventory[i].name] = Given(i)
  <2> TAKE i \in DOMAIN Inventory
  <2>1. sdx[Inventory[i].name] = Given(at(Inventory[i].name))
        BY <1>2, <1>3
  <2> QED
        BY <1>2, <2>1
<1>5. sdx = [n \in DOMAIN sdx |-> sdx[n]]
      BY <1>1
<1> QED
      BY <1>3, <1>4, <1>5 DEF Knows, N

(* They are a catalogue. *)
LEMMA InitCatalogue ==
    ASSUME SdfsGuest, NEW cat, Knows(cat), cat = [n \in DOMAIN cat |-> cat[n]]
    PROVE  Catalogue(cat)
<1>1. DOMAIN cat \subseteq AllNames
      BY DEF Knows, AllNames
<1>2. ASSUME NEW n \in DOMAIN cat
      PROVE  Sound(cat[n]) /\ (cat[n].host = n \/ cat[n].host \notin AllNames)
  <2>1. PICK i \in DOMAIN Inventory : n = Inventory[i].name
        BY DEF Knows
  <2>2. cat[n] = Given(i)
        BY <2>1 DEF Knows
  <2>3. Sound(Given(i)) /\ Given(i).host = Inventory[i].hostName
        BY GivenIs
  <2> QED
        BY <2>1, <2>2, <2>3 DEF SdfsGuest
<1>3. ASSUME NEW n \in DOMAIN cat, NEW m \in DOMAIN cat, n # m
      PROVE  Apart(cat[n], cat[m])
  <2>1. PICK i \in DOMAIN Inventory : n = Inventory[i].name
        BY DEF Knows
  <2>2. PICK j \in DOMAIN Inventory : m = Inventory[j].name
        BY DEF Knows
  <2>3. cat[n] = Given(i) /\ cat[m] = Given(j) /\ i # j
        BY <1>3, <2>1, <2>2 DEF Knows
  <2> QED
        BY <2>3, GivenApart
<1> QED
      BY <1>1, <1>2, <1>3 DEF Catalogue

(* What the tables say of a file at first. *)
LEMMA MountedFile ==
    ASSUME NEW d, AsMounted(d, [i \in DOMAIN Inventory |-> AllocateFile(i)]), NEW i \in DOMAIN Inventory
    PROVE  LET f == Given(i)
           IN  /\ d.files[i] = Record(Inventory[i].name, f)
               /\ d.directory[i] = EntryOf(Inventory[i].name, f)
               /\ Elems(f.data) \subseteq DOMAIN d.dataRefs /\ Elems(f.maps) \subseteq DOMAIN d.metadata
               /\ \A k \in 1 .. Len(f.data) : d.dataRefs[f.data[k]] = [file |-> i, at |-> k]
               /\ \A k \in 1 .. Len(f.maps) : d.metadata[f.maps[k]] = MapImage(f.maps, f.data, k)
<1> DEFINE files == [j \in DOMAIN Inventory |-> AllocateFile(j)]
           f == Given(i)
<1>1. Sound(f) /\ AllocateFile(i) = Record(Inventory[i].name, f)
      BY GivenIs
<1>2. files[i] = Record(Inventory[i].name, f)
      BY <1>1
<1> HIDE DEF files
<1>3. AsMounted(d, files)
      BY DEF files
<1> HIDE DEF f
<1>4. /\ files[i].dataSectors = f.data /\ files[i].mapSectors = f.maps /\ files[i].length = Len(f.bytes)
      /\ files[i].name = Inventory[i].name
      BY <1>2 DEF Record
<1>5. /\ f.maps \in Seq(Sectors) /\ f.data \in Seq(Sectors) /\ Distinct(f.maps) /\ Distinct(f.data)
      /\ SectorsOf(f) = Elems(f.maps) \cup Elems(f.data)
      BY <1>1, SoundFacts DEF SectorsOf
<1>6. Elems(f.data) \subseteq DOMAIN d.dataRefs /\ Elems(f.maps) \subseteq DOMAIN d.metadata
      BY <1>3, <1>4 DEF AsMounted
<1>7. ASSUME NEW k \in 1 .. Len(f.data)
      PROVE  d.dataRefs[f.data[k]] = [file |-> i, at |-> k]
  <2> DEFINE x == f.data[k]
  <2>1. x \in Elems(f.data) /\ Place(f.data, x) = k
        BY <1>5, ElemsAre, PlaceIs
  <2>2. Owner(x) = i
        BY <1>5, <2>1, OwnerIs DEF f
  <2> HIDE DEF x
  <2>3. d.dataRefs[x] = [file |-> Owner(x), at |-> Place(files[Owner(x)].dataSectors, x)]
        BY <1>3, <1>6, <2>1 DEF AsMounted
  <2> QED
        BY <1>4, <2>1, <2>2, <2>3 DEF x
<1>8. ASSUME NEW k \in 1 .. Len(f.maps)
      PROVE  d.metadata[f.maps[k]] = MapImage(f.maps, f.data, k)
  <2> DEFINE x == f.maps[k]
  <2>1. x \in Elems(f.maps) /\ Place(f.maps, x) = k
        BY <1>5, ElemsAre, PlaceIs
  <2>2. Owner(x) = i
        BY <1>5, <2>1, OwnerIs DEF f
  <2> HIDE DEF x
  <2>3. d.metadata[x] = MapImage(files[Owner(x)].mapSectors, files[Owner(x)].dataSectors,
                                 Place(files[Owner(x)].mapSectors, x))
        BY <1>3, <1>6, <2>1 DEF AsMounted
  <2> QED
        BY <1>4, <2>1, <2>2, <2>3 DEF x
<1>9. d.files[i] = Record(Inventory[i].name, f)
      BY <1>2, <1>3 DEF AsMounted
<1>10. d.directory[i] = EntryOf(Inventory[i].name, f)
  <2>1. i \in 1 .. Slots
        BY Takes, Sizes
  <2> QED
        BY <1>3, <1>4, <2>1 DEF AsMounted, EntryOf
<1> QED
      BY <1>6, <1>7, <1>8, <1>9, <1>10 DEF f

(* mount() lays them out. *)
LEMMA MountedLayout ==
    ASSUME NEW d, AsMounted(d, [i \in DOMAIN Inventory |-> AllocateFile(i)]), NEW cat, Knows(cat)
    PROVE  Layout(d, cat)
<1> DEFINE files == [i \in DOMAIN Inventory |-> AllocateFile(i)]
<1>1. /\ d.files = files /\ DOMAIN files = DOMAIN Inventory /\ DOMAIN d.files = DOMAIN Inventory
      /\ d.allocated = DOMAIN d.dataRefs \cup DOMAIN d.metadata
      BY DEF AsMounted
<1>2. \A i \in DOMAIN Inventory : d.files[i] = Record(Inventory[i].name, Given(i)) /\ Inventory[i].name \in DOMAIN cat
                                  /\ cat[Inventory[i].name] = Given(i)
      BY MountedFile DEF Knows
<1>3. \A i \in DOMAIN Inventory : /\ d.files[i].name = Inventory[i].name /\ d.files[i].hostName = Given(i).host
                                  /\ d.files[i].dataSectors = Given(i).data /\ d.files[i].mapSectors = Given(i).maps
                                  /\ d.files[i] = Record(d.files[i].name, cat[d.files[i].name])
  <2> TAKE i \in DOMAIN Inventory
  <2> DEFINE n == Inventory[i].name
             f == Given(i)
             r == d.files[i]
  <2>1. r = Record(n, f) /\ cat[n] = f
        BY <1>2
  <2> HIDE DEF n, f, r
  <2>2. r.name = n /\ r.hostName = f.host /\ r.dataSectors = f.data /\ r.mapSectors = f.maps
        BY <2>1 DEF Record
  <2>3. r = Record(r.name, cat[r.name])
        BY <2>1, <2>2
  <2> QED
      BY <2>2, <2>3 DEF n, f, r
<1>4. \A n \in DOMAIN cat : \E i \in DOMAIN Inventory : n = Inventory[i].name
      BY DEF Knows
<1>5. DOMAIN d.dataRefs = UNION {Elems(cat[n].data) : n \in DOMAIN cat}
  <2>1. DOMAIN d.dataRefs = UNION {Elems(d.files[i].dataSectors) : i \in DOMAIN Inventory}
        BY <1>1 DEF AsMounted
  <2> QED
        BY <1>2, <1>3, <1>4, <2>1
<1>6. DOMAIN d.metadata = UNION {Elems(cat[n].maps) : n \in DOMAIN cat}
  <2>1. DOMAIN d.metadata = UNION {Elems(d.files[i].mapSectors) : i \in DOMAIN Inventory}
        BY <1>1 DEF AsMounted
  <2> QED
        BY <1>2, <1>3, <1>4, <2>1
<1>7. DOMAIN d.io.host = {cat[n].host : n \in DOMAIN cat}
  <2>1. DOMAIN d.io.host = {d.files[i].hostName : i \in DOMAIN Inventory}
        BY <1>1 DEF AsMounted
  <2> QED
        BY <1>2, <1>3, <1>4, <2>1
<1>8. \A i, j \in DOMAIN Inventory : Inventory[i].name = Inventory[j].name => i = j
      BY SdfsAssumption
<1>9. ASSUME NEW i \in DOMAIN Inventory, NEW k \in 1 .. Len(d.files[i].dataSectors)
      PROVE  d.dataRefs[d.files[i].dataSectors[k]] = [file |-> i, at |-> k]
      BY <1>3, MountedFile
<1> HIDE DEF files
<1>10. \A n \in DOMAIN cat : \E i \in DOMAIN d.files : d.files[i] = Record(n, cat[n])
       BY <1>1, <1>2, <1>4
<1>11. \A i, j \in DOMAIN d.files : Live(d, i) /\ Live(d, j) /\ d.files[i].name = d.files[j].name => i = j
       BY <1>1, <1>3, <1>8
<1>12. \A i \in DOMAIN d.files : d.files[i].name \in DOMAIN cat /\ d.files[i] = Record(d.files[i].name, cat[d.files[i].name])
       BY <1>1, <1>2, <1>3
<1> QED
       BY <1>1, <1>5, <1>6, <1>7, <1>9, <1>10, <1>11, <1>12 DEF Layout

(* What mount() makes is an image. *)
LEMMA MountedImage ==
    ASSUME NEW d, AsMounted(d, [i \in DOMAIN Inventory |-> AllocateFile(i)])
    PROVE  Image(d)
<1> DEFINE files == [i \in DOMAIN Inventory |-> AllocateFile(i)]
<1>1. ASSUME NEW i \in DOMAIN Inventory
      PROVE  files[i] \in FileRecs
  <2>1. files[i] = Record(Inventory[i].name, Given(i)) /\ Sound(Given(i))
        BY GivenIs
  <2>2. Inventory[i].name \in AllNames
        BY DEF AllNames
  <2> HIDE DEF files
  <2> QED
        BY <2>1, <2>2, SoundFacts DEF Record, FileRecs
<1>2. files \in Seq(FileRecs)
  <2>1. files \in [1 .. Len(Inventory) -> FileRecs] /\ Len(Inventory) \in Nat
        BY <1>1, Takes
  <2> HIDE DEF files
  <2> QED
        BY <2>1
<1> HIDE DEF files
<1>3. AsMounted(d, files)
      BY DEF files
<1>4. d.files \in Seq(FileRecs)
      BY <1>2, <1>3 DEF AsMounted
<1>5. d = [files |-> d.files, allocated |-> d.allocated, metadata |-> d.metadata, dataRefs |-> d.dataRefs,
           directory |-> d.directory, pendingSectorWrites |-> d.pendingSectorWrites,
           pendingCreates |-> d.pendingCreates, pendingAppends |-> d.pendingAppends,
           pendingReplacements |-> d.pendingReplacements, io |-> d.io, error |-> d.error]
      BY <1>3, Zenon DEF AsMounted
<1>6. d.io = [host |-> d.io.host, fault |-> d.io.fault, ok |-> d.io.ok]
      BY <1>3, Zenon DEF AsMounted
<1>7. DOMAIN d.directory = 1 .. Slots /\ DOMAIN d.pendingSectorWrites = {} /\ d.io.fault = 0 /\ d.io.ok = TRUE
      /\ d.error = FALSE
      BY <1>3, Zenon DEF AsMounted
<1>8. DOMAIN d.pendingSectorWrites \subseteq Sectors /\ d.io.fault \in Nat
      BY <1>7
<1>9. d.io.ok \in BOOLEAN /\ d.error \in BOOLEAN
      BY <1>7
<1> QED
      BY <1>4, <1>5, <1>6, <1>7, <1>8, <1>9, Zenon DEF Image

(* The image as it is mounted is one at rest. *)
LEMMA MountRests ==
    ASSUME SdfsGuest, NEW d, AsMounted(d, [i \in DOMAIN Inventory |-> AllocateFile(i)]),
           NEW cat, Knows(cat), cat = [n \in DOMAIN cat |-> cat[n]]
    PROVE  Resting(d, cat)
<1>1. Catalogue(cat) /\ Image(d) /\ Layout(d, cat)
      BY InitCatalogue, MountedImage, MountedLayout
<1>2. NoPending(d) /\ DOMAIN d.pendingSectorWrites = {}
      BY DEF AsMounted
<1>3. ASSUME NEW n \in DOMAIN cat
      PROVE  AtRest(d, cat, n)
  <2>1. PICK i \in DOMAIN Inventory : n = Inventory[i].name
        BY DEF Knows
  <2> DEFINE f == Given(i)
  <2>2. cat[n] = f
        BY <2>1 DEF Knows
  <2>3. Sound(f) /\ f.slot = i
        BY GivenIs
  <2>4. /\ d.directory[i] = EntryOf(Inventory[i].name, f)
        /\ Elems(f.maps) \subseteq DOMAIN d.metadata
        /\ \A k \in 1 .. Len(f.maps) : d.metadata[f.maps[k]] = MapImage(f.maps, f.data, k)
        BY MountedFile
  <2> HIDE DEF f
  <2>5. \A k \in 1 .. Len(f.maps) : f.maps[k] \in Elems(f.maps)
        BY <2>3, SoundFacts, ElemsAre
  <2>6. Reads(d, f)
        BY <1>2, <2>4, <2>5 DEF Reads, Value
  <2> QED
        BY <2>1, <2>2, <2>3, <2>4, <2>6 DEF AtRest
<1>4. ASSUME NEW i \in 1 .. Slots
      PROVE  Vacant(d, i) \/ \E n \in DOMAIN cat : cat[n].slot = i
  <2>1. CASE i \in DOMAIN Inventory
    <3>1. Inventory[i].name \in DOMAIN cat /\ cat[Inventory[i].name] = Given(i) /\ Given(i).slot = i
          BY <2>1, GivenIs DEF Knows
    <3> QED
          BY <3>1
  <2>2. CASE i \notin DOMAIN Inventory
    <3>1. d.directory[i] = Blank
          BY <2>2 DEF AsMounted
    <3> QED
          BY <3>1 DEF Vacant, Blank
  <2> QED
        BY <2>1, <2>2
<1> QED
      BY <1>1, <1>2, <1>3, <1>4 DEF Resting

(* The invariant holds initially. *)
LEMMA InitHolds ==
    ASSUME SdfsGuest, SdfsInit
    PROVE  SdfsInv
<1>1. Knows(sdx) /\ sdx = [n \in DOMAIN sdx |-> sdx[n]]
      BY InitKnows
<1>2. AsMounted(disk, [i \in DOMAIN Inventory |-> AllocateFile(i)])
      BY MountParts DEF SdfsInit
<1>3. Resting(disk, sdx)
      BY <1>1, <1>2, MountRests
<1>4. disk.error = FALSE /\ disk.io.fault = 0 /\ disk.io.ok = TRUE
      BY <1>2 DEF AsMounted
<1>5. op = NoOp /\ ops = 0
      BY DEF SdfsInit
<1> QED
      BY <1>3, <1>4, <1>5 DEF SdfsInv

-----------------------------------------------------------------------------
(* The commits, for the bytes. *)

(* The bytes of a commit that finished. *)
LEMMA FinishedBytes ==
    ASSUME NEW d, NEW e, NEW cat, NEW o, Going(d, cat, o), o.kind \in Outputs, o.phase = "rest",
           d.directory[o.file.slot] = EntryOf(o.name, o.file), Finished(d, e, cat, o.name, o.file),
           Early(d, cat, o), Others(d, cat, o.name), Tidy(e.io), Stored(e, o.file, Unsure(o)),
           \A m \in DOMAIN cat \ {o.name} : e.io.host[cat[m].host] = d.io.host[cat[m].host]
    PROVE  BytesOutcome(d, e, cat, o)
<1> DEFINE f == o.file
           n == o.name
           C == Put(cat, n, f)
<1>1. Committed(e, cat, o) /\ e.error = FALSE /\ Lasts(d, e) /\ Unmapped(e, cat, n)
      BY FinishedGoes DEF Finished
<1>2. After(cat, o) = C
      BY DEF After, Outputs, Whole
<1>3. Others(e, cat, n)
      BY <1>1, OthersLast
<1>4. Clean(e, f, Unsure(o))
      BY <1>1, LastsIs DEF Early
<1>5. Typed(e, MapsIn(C))
  <2>1. DOMAIN C = DOMAIN cat \cup {n} /\ C[n] = f /\ \A m \in DOMAIN cat \ {n} : C[m] = cat[m]
    <3> HIDE DEF f, n
    <3> QED
          BY DEF Put
  <2> HIDE DEF C
  <2> SUFFICES ASSUME NEW x \in DOMAIN e.pendingSectorWrites, x \notin MapsIn(C)
               PROVE  e.pendingSectorWrites[x] \in Blocks
        BY DEF Typed
  <2>2. x \in DOMAIN d.pendingSectorWrites /\ e.pendingSectorWrites[x] = d.pendingSectorWrites[x]
        BY <1>1 DEF Lasts
  <2>3. x \notin Elems(f.maps)
        BY <2>1 DEF MapsIn
  <2>4. ASSUME NEW m \in DOMAIN cat PROVE x \notin Elems(cat[m].maps)
    <3>1. CASE m = n
          BY <3>1, <1>1 DEF Unmapped
    <3>2. CASE m # n
          BY <3>2, <2>1 DEF MapsIn
    <3> QED
          BY <3>1, <3>2
  <2>5. x \notin MapsIn(cat) \cup Elems(f.maps)
        BY <2>3, <2>4 DEF MapsIn
  <2> QED
        BY <2>2, <2>5 DEF Early, Typed
<1>6. Late(e, cat, o)
      BY <1>2, <1>4, <1>5 DEF Late
<1> QED
      BY <1>1, <1>3, <1>6 DEF BytesOutcome, Bytes, Doing

(* The commits of write() during a create, for the bytes. *)
LEMMA CreateBytes ==
    ASSUME SdfsGuest, NEW d, NEW cat, NEW o, Going(d, cat, o), Underway(d, cat, o), o.kind = "create",
           d.error = FALSE, Early(d, cat, o), Others(d, cat, o.name), Tidy(d.io)
    PROVE  BytesOutcome(d, Commits(d), cat, o)
<1> DEFINE f == o.file
           n == o.name
           m == f.maps[1]
           e == CommitCreate(d, m)
<1>0. BytesOutcome(d, d, cat, o)
      BY DEF BytesOutcome, Bytes, Doing
<1>1. CASE NoPending(d)
      BY <1>0, <1>1, CommitsNone
<1>2. CASE /\ CreateStaged(d, cat, n, f) /\ Only(d, {m}, {}, {}) /\ o.phase = "rest"
           /\ Linked(d, Bare(m), f, o.todo) /\ d.directory[f.slot] = EntryOf(n, f)
  <2>1. Sound(f) /\ Image(d) /\ n \notin DOMAIN cat /\ f.host = n /\ Catalogue(cat) /\ Layout(d, cat)
        BY <1>2 DEF CreateStaged, Fits
  <2>2. m \in Int
        BY <2>1, SoundFacts DEF Sectors
  <2>3. Reads(d, Bare(m)) \/ Reads(d, f) \/ Gap(d, Bare(m), f)
        BY <1>2 DEF Linked
  <2>5. CASE e = d
    <3>1. Commits(d) = d
          BY <2>5, <1>2, <2>2, CommitsCreate DEF Only
    <3> QED
          BY <3>1, <1>0
  <2>6. CASE Reads(d, f) /\ Elems(f.data) \subseteq DOMAIN d.pendingSectorWrites
    <3>1. Refused(d, e) \/ Finished(d, e, cat, n, f)
          BY <2>6, <1>2, CreateCommits
    <3>2. DOMAIN e.pendingAppends = {} /\ DOMAIN e.pendingReplacements = {}
          BY <3>1, <1>2 DEF Refused, Finished, Same, Only, NoPending
    <3>3. Commits(d) = e
          BY <3>2, <1>2, <2>2, CommitsCreate
    <3> DEFINE new == CreateNew(d, n)
               full == CreateFull(d, n, f)
               gone == Unlink(full, n)
               H == DOMAIN d.io.host
    <3>4. e = IF ~new.ok THEN Failed(d, new) ELSE IF ~full.ok THEN Failed(d, gone) ELSE Created(d, n, f)
          BY <1>2, <2>6, CreateSteps
    <3>5. o.kind \in Outputs
          BY DEF Outputs, Whole
    <3>6. Clean(d, f, Unsure(o)) /\ Typed(d, MapsIn(cat) \cup Elems(f.maps))
          BY <3>5 DEF Early
    <3>7. /\ ~new.ok => Tidy(new) /\ Storage(new, H) /\ new.host = d.io.host
          /\ new.ok /\ ~full.ok => /\ Tidy(gone) /\ Storage(gone, H) /\ \A h \in H : gone.host[h] = d.io.host[h]
          /\ new.ok /\ full.ok =>
                /\ Tidy(full) /\ Storage(full, H \cup {n}) /\ \A h \in H : full.host[h] = d.io.host[h]
                /\ full.host[n] \in Seq(Int) /\ Len(full.host[n]) = Len(f.bytes)
                /\ \A j \in 1 .. Len(f.bytes) : f.data[SectorsFor(j)] \notin Unsure(o) => full.host[n][j] = f.bytes[j]
      <4> DEFINE U == Unsure(o)
      <4>1. /\ CreateStaged(d, cat, n, f) /\ Clean(d, f, U) /\ Elems(f.data) \subseteq DOMAIN d.pendingSectorWrites
            /\ Typed(d, MapsIn(cat) \cup Elems(f.maps)) /\ SdfsGuest /\ Tidy(d.io)
            BY <1>2, <2>6, <3>6
      <4> HIDE DEF f, n, U
      <4>2. CreateFilled(d, n, f, U)
            BY ONLY <4>1, CreateFills
      <4> QED
            BY <4>2 DEF U, CreateFilled
    <3> HIDE DEF new, full, gone, e
    <3>8. ASSUME NEW io, Tidy(io), Storage(io, H), \A h \in H : io.host[h] = d.io.host[h], e = Failed(d, io)
          PROVE  BytesOutcome(d, e, cat, o)
      <4>1. Same(d, e) /\ e.io = io
            BY <3>8, <2>1, FailedIs
      <4>2. HostSame(d, e)
            BY <4>1, <3>8 DEF HostSame, Storage
      <4> QED
            BY <4>1, <4>2, <3>8, RefusedBytes
    <3>9. CASE ~new.ok
      <4>1. e = Failed(d, new)
            BY <3>4, <3>9
      <4> QED
            BY <3>7, <3>8, <3>9, <4>1, <3>3
    <3>10. CASE new.ok /\ ~full.ok
      <4>1. e = Failed(d, gone)
            BY <3>4, <3>10
      <4> QED
            BY <3>7, <3>8, <3>10, <4>1, <3>3
    <3>11. CASE new.ok /\ full.ok
      <4>1. e = Created(d, n, f)
            BY <3>4, <3>11
      <4>2. Finished(d, e, cat, n, f) /\ e.io = full
        <5>1. Storage(full, H \cup {n})
              BY <3>7, <3>11
        <5>2. CreateStaged(d, cat, n, f) /\ d.error = FALSE /\ Only(d, {f.maps[1]}, {}, {}) /\ Reads(d, f)
              BY <1>2, <2>6
        <5>3. Storage(CreateFull(d, n, f), DOMAIN d.io.host \cup {n})
              BY <5>1 DEF full
        <5> HIDE DEF f, n
        <5>4. Finished(d, Created(d, n, f), cat, n, f) /\ Created(d, n, f).io = CreateFull(d, n, f)
              BY ONLY <5>2, <5>3, CreatedIs
        <5> QED
              BY <5>4, <4>1 DEF full
      <4>3. Stored(e, f, Unsure(o)) /\ Tidy(e.io)
            BY <4>2, <3>7, <3>11, <2>1 DEF Stored
      <4>4. \A k \in DOMAIN cat \ {n} : e.io.host[cat[k].host] = d.io.host[cat[k].host]
            BY <4>2, <3>7, <3>11, <2>1, HostsAre
      <4>5. BytesOutcome(d, e, cat, o)
            BY <4>2, <4>3, <4>4, <3>5, <1>2, FinishedBytes
      <4> QED
            BY <4>5, <3>3
    <3> QED
          BY <3>9, <3>10, <3>11
  <2>7. CASE Reads(d, f) /\ ~(Elems(f.data) \subseteq DOMAIN d.pendingSectorWrites)
    <3>1. e = d
          BY <2>7, <1>2, CreateSteps
    <3> QED
          BY <3>1, <2>5
  <2>8. CASE ~Reads(d, f)
    <3>1. e = d
          BY <2>8, <2>3, <1>2, CreateWaits
    <3> QED
          BY <3>1, <2>5
  <2> QED
        BY <2>6, <2>7, <2>8
<1> QED
      BY <1>1, <1>2, CreateGoes

(* An append that waits leaves the bytes as they were. *)
LEMMA StillBytes ==
    ASSUME NEW d, NEW e, NEW cat, NEW o, NEW i, Going(d, cat, o), Underway(d, cat, o), o.kind = "append",
           AppendingAt(d, cat, o, i), StillAppending(d, e, cat[o.name], o, i), HostSame(d, e), Tidy(e.io),
           Early(d, cat, o), Others(d, cat, o.name)
    PROVE  BytesOutcome(d, e, cat, o)
<1>1. Catalogue(cat) /\ Plan(cat, o) /\ Layout(d, cat)
      BY DEF Going, Underway
<1>2. Lasts(d, e)
      BY DEF StillAppending, Kept, Lasts
<1>3. \A n \in DOMAIN cat : e.io.host[cat[n].host] = d.io.host[cat[n].host]
      BY <1>1, HostsAre DEF HostSame
<1>4. Others(e, cat, o.name)
      BY <1>2, <1>3, OthersLast
<1>5. o.name \in DOMAIN cat
      BY <1>1, PlanFacts
<1>6. Early(e, cat, o)
      BY <1>2, <1>3, <1>5, EarlyLasts
<1>7. Underway(e, cat, o)
      BY StillGoes
<1> QED
      BY <1>4, <1>6, <1>7 DEF BytesOutcome, Bytes, Doing

(* commitAppend during an append, for the bytes. *)
LEMMA AppendBytes ==
    ASSUME NEW d, NEW cat, NEW o, Going(d, cat, o), Underway(d, cat, o), o.kind = "append", d.error = FALSE,
           NEW i \in DOMAIN d.files, AppendingAt(d, cat, o, i), Early(d, cat, o), Others(d, cat, o.name), Tidy(d.io),
           Prefixed(cat, o)
    PROVE  LET e == CommitAppend(d, o.file.maps[1])
           IN  BytesOutcome(d, e, cat, o) /\ (e.error \/ NoPending(e) \/ e.io = d.io)
<1> DEFINE f == o.file
           n == o.name
           m == f.maps[1]
           old == cat[n]
           e == CommitAppend(d, m)
           g == Hinted(d, old, f)
           new == AppendOpen(g, f)
           full == AppendFull(g, old, f)
           cut == Truncate(full, f.host, Len(old.bytes))
           U == Unsure(o)
           H == DOMAIN d.io.host
<1> SUFFICES BytesOutcome(d, e, cat, o) /\ (e.error \/ NoPending(e) \/ e.io = d.io)
      OBVIOUS
<1>1. /\ AppendStaged(d, cat, o, i) /\ Only(d, {}, {m}, {}) /\ Linked(d, old, f, o.todo)
      /\ d.directory[f.slot] = EntryOf(n, f)
      BY DEF AppendingAt
<1>2. /\ Sound(f) /\ Sound(old) /\ Begins(old, f) /\ Catalogue(cat) /\ n \in DOMAIN cat /\ Layout(d, cat) /\ Image(d)
      /\ old.host = f.host /\ AppendNoted(d, old, o, i) /\ DOMAIN d.pendingAppends = {m}
      BY <1>1 DEF AppendStaged, Fits, Catalogue
<1>3. Plan(cat, o) /\ o.phase = "rest" /\ o.kind \in Outputs
      BY DEF Going, Plan, Whole, Outputs
<1>4. e = d => BytesOutcome(d, e, cat, o) /\ (e.error \/ NoPending(e) \/ e.io = d.io)
      BY DEF BytesOutcome, Bytes, Doing
<1>5. Reads(d, old) \/ Reads(d, f) \/ Gap(d, old, f)
      BY <1>1 DEF Linked
<1>6. CASE ~Reads(d, f)
  <2>1. Gap(d, old, f) \/ (Reads(d, old) /\ Len(old.data) < Len(f.data))
    <3> SUFFICES ASSUME ~Gap(d, old, f), ~(Len(old.data) < Len(f.data)) PROVE FALSE
          BY <1>5, <1>6
    <3>1. old.data = f.data /\ old.maps = f.maps
          BY <1>2, SameSectors
    <3>2. Reads(d, f)
          BY <1>5, <3>1 DEF Reads
    <3> QED
          BY <3>2, <1>6
  <2>2. e = d
        BY <1>1, <2>1, AppendWaits
  <2> QED
        BY <2>2, <1>4
<1>7. CASE Reads(d, f)
  <2>1. e = IF ~(Elems(NewData(old, f)) \subseteq DOMAIN g.pendingSectorWrites) THEN d
            ELSE IF ~(Elems(TailOf(old)) \subseteq DOMAIN g.pendingSectorWrites) THEN g
            ELSE IF ~new.ok THEN Failed(g, new)
            ELSE IF ~full.ok THEN Failed(g, cut)
            ELSE Extended(g, old, f, i)
    <3> DEFINE q == WithNote(d, m, NewData(old, f))
               r == CommitAppend(d, m)
               was == Len(old.bytes)
    <3>1. r = IF ~(Elems(NewData(old, f)) \subseteq DOMAIN q.pendingSectorWrites) THEN d
              ELSE IF ~(Elems(TailOf(old)) \subseteq DOMAIN q.pendingSectorWrites) THEN q
              ELSE IF ~AppendOpen(q, f).ok THEN Failed(q, AppendOpen(q, f))
              ELSE IF ~AppendFull(q, old, f).ok THEN Failed(q, Truncate(AppendFull(q, old, f), f.host, was))
              ELSE Extended(q, old, f, i)
      <4>1. AppendStaged(d, cat, o, i) /\ Reads(d, o.file)
            BY <1>1, <1>7
      <4> QED
            BY ONLY <4>1, AppendSteps
    <3> QED
          BY ONLY <3>1 DEF Hinted
  <2>2. Kept(d, g) /\ g.io = d.io /\ StillAppending(d, g, old, o, i)
    <3> DEFINE u == NewData(old, f)
    <3>1. g = WithNote(d, m, u)
          BY DEF Hinted
    <3> HIDE DEF u, old, g
    <3>2. /\ Image(g) /\ Kept(d, g) /\ g.directory = d.directory /\ g.pendingCreates = d.pendingCreates
          /\ g.pendingReplacements = d.pendingReplacements /\ g.io = d.io /\ g.error = d.error
          /\ DOMAIN g.pendingAppends = {o.file.maps[1]} /\ AppendNoted(g, old, o, i)
          BY <1>2, <3>1, WithNoteIs
    <3> QED
          BY <3>2 DEF StillAppending
  <2>3. g.pendingSectorWrites = d.pendingSectorWrites
        BY <2>2 DEF Kept
  <2>4. ASSUME NEW t, StillAppending(d, t, old, o, i), HostSame(d, t), Tidy(t.io)
        PROVE  BytesOutcome(d, t, cat, o)
        BY <2>4, StillBytes
  <2> HIDE DEF e, g, new, full, cut
  <2>5. e = g => BytesOutcome(d, e, cat, o) /\ (e.error \/ NoPending(e) \/ e.io = d.io)
        BY <2>2, <2>4 DEF HostSame
  <2>6. CASE Elems(NewData(old, f)) \cup Elems(TailOf(old)) \subseteq DOMAIN d.pendingSectorWrites
    <3>1. Extending(g, old, f, U) /\ Image(g) /\ g.error = d.error
          BY <1>1, <2>6, HintedExtends DEF g
    <3>2. AppendFilled(g, old, f, U)
          BY <3>1, AppendFills
    <3>3. DOMAIN g.io.host = H
          BY <2>2
    <3> HIDE DEF U, f, old, n, H
    <3>4. /\ ~new.ok => Tidy(new) /\ Storage(new, H) /\ new.host = d.io.host
          /\ new.ok /\ ~full.ok => Tidy(cut) /\ Storage(cut, H) /\ \A h \in H : cut.host[h] = d.io.host[h]
          /\ new.ok /\ full.ok =>
               /\ Tidy(full) /\ Storage(full, H) /\ \A h \in H \ {f.host} : full.host[h] = d.io.host[h]
               /\ full.host[f.host] \in Seq(Int) /\ Len(full.host[f.host]) = Len(f.bytes)
               /\ \A j \in 1 .. Len(f.bytes) : f.data[SectorsFor(j)] \notin U => full.host[f.host][j] = f.bytes[j]
          BY <3>2, <3>3, <2>2, Zenon DEF AppendFilled, new, full, cut
    <3>5. e = IF ~new.ok THEN Failed(g, new) ELSE IF ~full.ok THEN Failed(g, cut) ELSE Extended(g, old, f, i)
          BY <2>1, <2>3, <2>6
    <3>6. ASSUME NEW io, Tidy(io), Storage(io, H), \A h \in H : io.host[h] = d.io.host[h], e = Failed(g, io)
          PROVE  BytesOutcome(d, e, cat, o) /\ e.error
      <4>1. Same(g, e) /\ e.io = io /\ e.error = TRUE
            BY <3>6, <3>1, <3>3, FailedIs
      <4>2. StillAppending(d, e, old, o, i)
            BY <4>1, <2>2, SameAppending
      <4>3. HostSame(d, e)
            BY <4>1, <3>6 DEF HostSame, Storage, H
      <4> QED
            BY <4>1, <4>2, <4>3, <2>4, <3>6
    <3>7. CASE ~new.ok
          BY <3>4, <3>5, <3>6, <3>7
    <3>8. CASE new.ok /\ ~full.ok
          BY <3>4, <3>5, <3>6, <3>8
    <3>9. CASE new.ok /\ full.ok
      <4>1. e = Extended(g, old, f, i)
            BY <3>5, <3>9
      <4>2. Finished(d, e, cat, n, f) /\ e.io = full
        <5>1. /\ Storage(AppendFull(Hinted(d, cat[o.name], o.file), cat[o.name], o.file), DOMAIN d.io.host)
              /\ AppendStaged(d, cat, o, i) /\ Only(d, {}, {o.file.maps[1]}, {}) /\ Reads(d, o.file) /\ d.error = FALSE
              BY <3>4, <3>9, <1>1, <1>7 DEF full, H, g, old, f, n, m
        <5>2. LET k == Hinted(d, cat[o.name], o.file)
                  q == Extended(k, cat[o.name], o.file, i)
              IN  Finished(d, q, cat, o.name, o.file) /\ q.io = AppendFull(k, cat[o.name], o.file)
              BY ONLY <5>1, ExtendedIs
        <5> QED
              BY <5>2, <4>1 DEF full, g, old, f, n
      <4>3. Stored(e, f, U) /\ Tidy(e.io)
            BY <4>2, <3>4, <3>9 DEF Stored
      <4>4. \A k \in DOMAIN cat \ {n} : e.io.host[cat[k].host] = d.io.host[cat[k].host]
        <5>1. \A k \in DOMAIN cat \ {n} : cat[k].host \in H /\ cat[k].host # f.host
              BY <1>2, HostsAre DEF old, H
        <5> QED
              BY <5>1, <4>2, <3>4, <3>9
      <4>5. BytesOutcome(d, e, cat, o)
            BY <4>2, <4>3, <4>4, <1>1, <1>3, FinishedBytes DEF f, n, U
      <4> QED
            BY <4>5, <4>2 DEF Finished
    <3> QED
          BY <3>7, <3>8, <3>9
  <2>7. CASE ~(Elems(NewData(old, f)) \cup Elems(TailOf(old)) \subseteq DOMAIN d.pendingSectorWrites)
    <3>1. e = d \/ e = g
          BY <2>1, <2>3, <2>7
    <3> QED
          BY <3>1, <1>4, <2>5 DEF e
  <2> QED
        BY <2>6, <2>7
<1> QED
      BY <1>6, <1>7

(* The commits of write() during an append, for the bytes. *)
LEMMA AppendCommitsBytes ==
    ASSUME NEW d, NEW cat, NEW o, Going(d, cat, o), Underway(d, cat, o), o.kind = "append", d.error = FALSE,
           Early(d, cat, o), Others(d, cat, o.name), Tidy(d.io), Prefixed(cat, o)
    PROVE  BytesOutcome(d, Commits(d), cat, o)
<1>1. CASE NoPending(d)
      BY <1>1, CommitsNone DEF BytesOutcome, Bytes, Doing
<1>2. ASSUME NEW i \in DOMAIN d.files, AppendingAt(d, cat, o, i)
      PROVE  BytesOutcome(d, Commits(d), cat, o)
  <2> DEFINE m == o.file.maps[1]
             e == CommitAppend(d, m)
  <2>1. Outcome(d, e, cat, o) /\ DOMAIN e.pendingReplacements = {}
        BY <1>2, AppendOutcome
  <2>2. Only(d, {}, {m}, {})
        BY <1>2 DEF AppendingAt
  <2>3. m \in Int
        BY <1>2, SoundFacts DEF AppendingAt, AppendStaged, Fits, Sectors
  <2>4. Commits(d) = e
        BY <2>1, <2>2, <2>3, CommitsAppend
  <2>5. BytesOutcome(d, e, cat, o)
        BY <1>2, AppendBytes
  <2> QED
        BY <2>4, <2>5
<1> QED
      BY <1>1, <1>2, AppendGoes

(* The commits of write() during a replacement, for the bytes. *)
LEMMA ReplaceCommitsBytes ==
    ASSUME "open" \notin FaultKinds, NEW d, NEW cat, NEW o, Going(d, cat, o), Underway(d, cat, o), o.kind = "replace",
           d.error = FALSE, Early(d, cat, o), Others(d, cat, o.name), Tidy(d.io)
    PROVE  BytesOutcome(d, Commits(d), cat, o)
<1> DEFINE f == o.file
           n == o.name
           m == f.maps[1]
           old == cat[n]
           h == f.host
           H == DOMAIN d.io.host
           e == CommitReplacement(d, m)
           U == Unsure(o)
<1>0. BytesOutcome(d, d, cat, o)
      BY DEF BytesOutcome, Bytes, Doing
<1>1. CASE NoPending(d) /\ o.phase = "open"
      BY <1>0, <1>1, CommitsNone
<1>2. ASSUME NEW i \in DOMAIN d.files, ReplaceStaged(d, cat, o, i), Only(d, {}, {}, {m})
      PROVE  Commits(d) = e
  <2>1. m \in Int
        BY <1>2, SoundFacts DEF ReplaceStaged, Fits, Sectors
  <2> QED
        BY <1>2, <2>1, CommitsReplace
<1>3. ASSUME NEW i \in DOMAIN d.files, ReplaceStaged(d, cat, o, i), Only(d, {}, {}, {m}),
             d.directory[f.slot] = Opened(n, f)
      PROVE  BytesOutcome(d, Commits(d), cat, o)
  <2>1. e = d
        BY <1>3, ReplaceOpened
  <2> QED
        BY <2>1, <1>0, <1>2, <1>3
<1>4. ASSUME NEW i \in DOMAIN d.files, ReplaceStaged(d, cat, o, i), Only(d, {}, {}, {m}),
             d.directory[f.slot] = EntryOf(n, f), o.phase = "rest", Linked(d, Bare(m), f, o.todo)
      PROVE  BytesOutcome(d, Commits(d), cat, o)
  <2>1. Sound(f) /\ Image(d) /\ Catalogue(cat) /\ Layout(d, cat) /\ n \in DOMAIN cat /\ old.host = h
        BY <1>4 DEF ReplaceStaged, Fits
  <2>9. ~Gap(d, Bare(m), f)
    <3>1. Len(Bare(m).maps) \in Nat
          BY DEF Bare
    <3> QED
          BY <1>4, <3>1, ReplaceNoGap
  <2>3. Reads(d, Bare(m)) \/ Reads(d, f)
        BY <1>4, <2>9 DEF Linked
  <2>5. Commits(d) = e
        BY <1>2, <1>4
  <2>6. e = d => BytesOutcome(d, e, cat, o)
        BY <1>0
  <2>7. CASE Reads(d, f)
    <3>1. e = IF ~(Elems(f.data) \subseteq DOMAIN d.pendingSectorWrites) THEN d
              ELSE IF ~ReplaceOpen(d, h).ok THEN Failed(d, ReplaceOpen(d, h))
              ELSE IF ~ReplaceRead(d, h).ok THEN Failed(d, ReplaceRead(d, h))
              ELSE IF ~ReplaceCut(d, h).ok THEN Failed(d, ReplaceCut(d, h))
              ELSE IF ~ReplaceNew(d, h).ok THEN Failed(d, ReplaceNew(d, h))
              ELSE IF ~ReplaceFull(d, f).ok THEN Failed(d, ReplaceUndo(d, f))
              ELSE Replaced(d, old, f, i)
      <4>1. ReplaceStaged(d, cat, o, i) /\ d.directory[o.file.slot] = EntryOf(o.name, o.file) /\ Reads(d, o.file)
            BY <1>4, <2>7
      <4> QED
            BY ONLY <4>1, ReplaceSteps
    <3> HIDE DEF e
    <3>2. CASE ~(Elems(f.data) \subseteq DOMAIN d.pendingSectorWrites)
          BY <2>5, <2>6, <3>1, <3>2
    <3>3. CASE Elems(f.data) \subseteq DOMAIN d.pendingSectorWrites
      <4> DEFINE rold == ReplaceOpen(d, h)
                 rread == ReplaceRead(d, h)
                 rcut == ReplaceCut(d, h)
                 rnew == ReplaceNew(d, h)
                 rfull == ReplaceFull(d, f)
                 rundo == ReplaceUndo(d, f)
                 Safe(io) == Tidy(io) /\ Storage(io, H) /\ \A g \in H : io.host[g] = d.io.host[g]
      <4>1. ReplaceFilled(d, f, U)
        <5>1. Replaceable(d, f, U)
              BY <1>4, <3>3, MayReplace
        <5> QED
              BY <5>1, ReplaceFills
      <4>2. /\ Safe(rold) /\ Safe(rread)
            /\ ~rcut.ok => Safe(rcut)
            /\ rcut.ok => rnew.ok
            /\ rcut.ok /\ ~rfull.ok => Safe(rundo)
            /\ rcut.ok /\ rfull.ok =>
                 /\ Tidy(rfull) /\ Storage(rfull, H) /\ \A g \in H \ {h} : rfull.host[g] = d.io.host[g]
                 /\ rfull.host[h] \in Seq(Int) /\ Len(rfull.host[h]) = Len(f.bytes)
                 /\ \A j \in 1 .. Len(f.bytes) : f.data[SectorsFor(j)] \notin U => rfull.host[h][j] = f.bytes[j]
            BY ONLY <4>1 DEF ReplaceFilled
      <4>3. e = IF ~rold.ok THEN Failed(d, rold)
                ELSE IF ~rread.ok THEN Failed(d, rread)
                ELSE IF ~rcut.ok THEN Failed(d, rcut)
                ELSE IF ~rnew.ok THEN Failed(d, rnew)
                ELSE IF ~rfull.ok THEN Failed(d, rundo)
                ELSE Replaced(d, old, f, i)
            BY <3>1, <3>3
      <4> HIDE DEF rold, rread, rcut, rnew, rfull, rundo
      <4>4. ASSUME NEW io, Safe(io), e = Failed(d, io)
            PROVE  BytesOutcome(d, e, cat, o)
        <5>1. Same(d, e) /\ e.io = io
              BY <4>4, <2>1, FailedIs
        <5>2. HostSame(d, e)
              BY <5>1, <4>4 DEF HostSame, Storage
        <5> QED
              BY <5>1, <5>2, <4>4, RefusedBytes
      <4>5. CASE ~rold.ok \/ (rold.ok /\ ~rread.ok)
            BY <4>2, <4>3, <4>4, <4>5, <2>5
      <4>6. CASE rold.ok /\ rread.ok /\ ~rcut.ok
            BY <4>2, <4>3, <4>4, <4>6, <2>5
      <4>7. CASE rold.ok /\ rread.ok /\ rcut.ok /\ ~rfull.ok
            BY <4>2, <4>3, <4>4, <4>7, <2>5
      <4>8. CASE rold.ok /\ rread.ok /\ rcut.ok /\ rfull.ok
        <5>1. e = Replaced(d, old, f, i)
              BY <4>2, <4>3, <4>8
        <5>2. Finished(d, e, cat, n, f) /\ e.io = rfull
          <6>1. /\ ReplaceStaged(d, cat, o, i) /\ d.error = FALSE /\ Only(d, {}, {}, {o.file.maps[1]}) /\ Reads(d, o.file)
                /\ Storage(ReplaceFull(d, o.file), DOMAIN d.io.host)
                BY <1>4, <2>7, <4>2, <4>8 DEF rfull
          <6>2. LET q == Replaced(d, cat[o.name], o.file, i)
                IN  Finished(d, q, cat, o.name, o.file) /\ q.io = ReplaceFull(d, o.file)
                BY ONLY <6>1, ReplacedIs
          <6> QED
                BY <6>2, <5>1 DEF rfull
        <5>3. Stored(e, f, U) /\ Tidy(e.io)
              BY <5>2, <4>2, <4>8 DEF Stored
        <5>4. \A k \in DOMAIN cat \ {n} : e.io.host[cat[k].host] = d.io.host[cat[k].host]
          <6>1. \A k \in DOMAIN cat \ {n} : cat[k].host \in H /\ cat[k].host # h
                BY <2>1, HostsAre
          <6> QED
                BY <6>1, <5>2, <4>2, <4>8
        <5>5. o.kind \in Outputs
              BY DEF Outputs, Whole
        <5>6. BytesOutcome(d, e, cat, o)
              BY <5>2, <5>3, <5>4, <5>5, <1>4, FinishedBytes
        <5> QED
              BY <5>6, <2>5
      <4> QED
            BY <4>5, <4>6, <4>7, <4>8
    <3> QED
          BY <3>2, <3>3
  <2>8. CASE ~Reads(d, f)
    <3>1. e = d
          BY <2>8, <2>3, <1>4, ReplaceWaits
    <3> QED
          BY <3>1, <2>5, <2>6
  <2> QED
        BY <2>7, <2>8
<1> QED
      BY <1>1, <1>3, <1>4, ReplaceGoes

(* The commits at the end of a write, for the bytes. *)
LEMMA CommitsBytes ==
    ASSUME SdfsGuest, SdfsStorage, NEW d, NEW cat, NEW o, Going(d, cat, o), d.error = FALSE, o.kind \in Kinds,
           Bytes(d, cat, o), Prefixed(cat, o)
    PROVE  BytesOutcome(d, Commits(d), cat, o)
<1>0. BytesOutcome(d, d, cat, o) /\ Tidy(d.io) /\ Others(d, cat, o.name)
      BY DEF BytesOutcome, Bytes
<1>1. (Underway(d, cat, o) /\ Early(d, cat, o)) \/ (Committed(d, cat, o) /\ Late(d, cat, o))
      BY DEF Bytes, Doing
<1>2. CASE Committed(d, cat, o)
  <2>1. Commits(d) = d
        BY <1>2, CommitsNone DEF Committed
  <2> QED
        BY <2>1, <1>0
<1>3. CASE Underway(d, cat, o) /\ Early(d, cat, o) /\ o.kind = "create"
      BY <1>0, <1>3, CreateBytes
<1>4. CASE Underway(d, cat, o) /\ Early(d, cat, o) /\ o.kind = "append"
      BY <1>0, <1>4, AppendCommitsBytes
<1>5. CASE Underway(d, cat, o) /\ Early(d, cat, o) /\ o.kind = "replace"
      BY <1>0, <1>5, ReplaceCommitsBytes DEF SdfsStorage
<1>6. CASE Underway(d, cat, o) /\ o.kind \notin {"create", "append", "replace"}
  <2>1. NoPending(d)
        BY <1>6 DEF Underway, Outputs, Whole
  <2>2. Commits(d) = d
        BY <2>1, CommitsNone
  <2> QED
        BY <2>2, <1>0
<1> QED
      BY <1>1, <1>2, <1>3, <1>4, <1>5, <1>6

-----------------------------------------------------------------------------
(* A write of the directory, for the bytes. *)

(* A directory write that enters a file tries the appends that waited; no more of it is about bytes. *)
LEMMA EntersBytes ==
    ASSUME NEW d, NEW cat, NEW o, Going(d, cat, o), Bytes(d, cat, o), Prefixed(cat, o),
           NEW u, u.kind = o.kind, u.name = o.name, u.file = o.file,
           Unsure(o) \cap Elems(o.file.data) \subseteq Unsure(u), EntersAs(d, cat, o, u)
    PROVE  DirBytes(d, DirWritten(d, o), cat, u)
<1>1. PICK t : Leading(d, t, cat, o, u)
      BY DEF EntersAs
<1>2. /\ t.error = FALSE /\ t.io = d.io /\ Kept(d, t) /\ Going(t, cat, u)
      /\ \/ Underway(d, cat, o) /\ Underway(t, cat, u)
         \/ Committed(d, cat, o) /\ Committed(t, cat, u)
      BY <1>1 DEF Leading
<1> DEFINE e == CommitEach("append", t, Waiting(t))
<1>3. DirWritten(d, o) = e
      BY <1>1 DEF Leading
<1>4. t.pendingSectorWrites = d.pendingSectorWrites
      BY <1>2 DEF Kept
<1>5. Bytes(t, cat, u)
      BY <1>2, <1>4, BytesShift
<1>6. Prefixed(cat, u)
      BY DEF Prefixed
<1>7. CASE e = t
      BY <1>2, <1>3, <1>5, <1>7 DEF DirBytes, BytesOutcome
<1>8. CASE NoPending(t)
  <2>1. Waiting(t) = {}
        BY <1>8 DEF Waiting, NoPending
  <2> QED
        BY <2>1, <1>7, CommitNone
<1>9. CASE u.kind # "append" /\ Underway(t, cat, u)
  <2>1. DOMAIN t.pendingAppends = {}
    <3>1. CASE u.kind = "create"
          BY <3>1, <1>2, <1>9, CreateGoes DEF NoPending, Only
    <3>2. CASE u.kind = "replace"
          BY <3>2, <1>2, <1>9, ReplaceGoes DEF NoPending, Only
    <3>3. CASE u.kind \notin {"create", "append", "replace"}
          BY <3>3, <1>9 DEF Underway, NoPending
    <3> QED
          BY <3>1, <3>2, <3>3, <1>9
  <2>2. Waiting(t) = {}
        BY <2>1 DEF Waiting
  <2> QED
        BY <2>2, <1>7, CommitNone
<1>10. ASSUME Underway(t, cat, u), u.kind = "append", NEW i \in DOMAIN t.files, AppendingAt(t, cat, u, i)
       PROVE  DirBytes(d, DirWritten(d, o), cat, u)
  <2> DEFINE m == u.file.maps[1]
  <2>1. DOMAIN t.pendingAppends = {m}
        BY <1>10 DEF AppendingAt, Only
  <2>2. Waiting(t) = {} \/ Waiting(t) = {m}
        BY <2>1 DEF Waiting
  <2>3. m \in Int
        BY <1>10, SoundFacts DEF AppendingAt, AppendStaged, Fits, Sectors
  <2>4. CASE Waiting(t) = {}
        BY <2>4, <1>7, CommitNone
  <2>5. CASE Waiting(t) = {m}
    <3>1. e = CommitAppend(t, m)
          BY <2>3, <2>5, <1>2, CommitOne, CommitIs
    <3>2. ~Committed(t, cat, u)
          BY <1>2, <1>10, Exclusive
    <3>3. Early(t, cat, u) /\ Others(t, cat, u.name) /\ Tidy(t.io)
          BY <3>2, <1>5 DEF Bytes, Doing
    <3> HIDE DEF m, e
    <3>4. BytesOutcome(t, CommitAppend(t, m), cat, u)
          /\ (CommitAppend(t, m).error \/ NoPending(CommitAppend(t, m)) \/ CommitAppend(t, m).io = t.io)
          BY <1>2, <1>6, <1>10, <3>3, AppendBytes DEF m
    <3>5. BytesOutcome(t, e, cat, u) /\ (e.error \/ NoPending(e) \/ e.io = t.io)
          BY <3>1, <3>4
    <3>6. HostSame(t, e) => HostSame(d, e)
          BY <1>2 DEF HostSame
    <3> QED
          BY <3>5, <3>6, <1>2, <1>3 DEF DirBytes, BytesOutcome, e
  <2> QED
        BY <2>2, <2>4, <2>5
<1>11. CASE Committed(t, cat, u)
      BY <1>8, <1>11 DEF Committed
<1> QED
      BY <1>2, <1>8, <1>9, <1>10, <1>11, AppendGoes

(* Erasing a file leaves the bytes of the others. *)
LEMMA EraseBytes ==
    ASSUME SdfsGuest, NEW d, NEW cat, NEW o, Going(d, cat, o), d.error = FALSE, o.kind = "erase", Bytes(d, cat, o)
    PROVE  Tidy(DirWritten(d, o).io) /\ Rested(DirWritten(d, o), After(cat, o))
<1> DEFINE e == DirWritten(d, o)
           n == o.name
           h == cat[n].host
           C == Without(cat, {n})
<1>1. Catalogue(cat) /\ Plan(cat, o) /\ Image(d) /\ Layout(d, cat) /\ n \in DOMAIN cat /\ o.file = cat[n]
  <2>1. Plan(cat, o) /\ Catalogue(cat) /\ Image(d) /\ Underway(d, cat, o)
        BY DEF Going, Committed, Outputs, Whole
  <2> QED
        BY <2>1, PlanFacts DEF Plan, Underway
<1>2. PICK g : Kept(d, g) /\ g.io = d.io /\ Erased(g, e, cat, n)
      BY DirErase
<1>3. Early(d, cat, o) /\ Others(d, cat, n) /\ Tidy(d.io)
      BY DEF Bytes, Doing, Committed, Outputs, Whole
<1> HIDE DEF e
<1>4. Lasts(d, e) /\ Unmapped(e, cat, n) /\ e.io = Unlink(d.io, h)
      BY <1>2 DEF Erased, Lasts, Kept
<1>5. h \in DOMAIN d.io.host /\ \A m \in DOMAIN cat \ {n} : cat[m].host \in DOMAIN d.io.host \ {h}
      BY <1>1, HostsAre
<1>6. e.io.host = Without(d.io.host, {h}) /\ Tidy(e.io)
  <2> DEFINE u == d.io
             H == DOMAIN u.host
  <2>1. Storage(u, H) /\ h \in H /\ SdfsGuest /\ Tidy(u)
        BY <1>1, <1>3, <1>5, ImageStorage
  <2> HIDE DEF u, H, h
  <2>2. Unlink(u, h).host = Without(u.host, {h})
        BY ONLY <2>1, UnlinkIs
  <2>3. \A k : Tidy(Unlink(u, k))
        BY ONLY <2>1, TidyOver
  <2> QED
        BY <2>2, <2>3, <1>4 DEF u
<1>7. \A m \in DOMAIN cat \ {n} : e.io.host[cat[m].host] = d.io.host[cat[m].host]
  <2> DEFINE w == Without(d.io.host, {h})
  <2>1. \A k \in DOMAIN d.io.host \ {h} : w[k] = d.io.host[k]
    <3> HIDE DEF h
    <3> QED
          BY WithoutIs
  <2> HIDE DEF w, h
  <2> QED
        BY <1>5, <1>6, <2>1 DEF w
<1>8. Others(e, cat, n)
      BY <1>3, <1>4, <1>7, OthersLast
<1>9. After(cat, o) = C /\ DOMAIN C = DOMAIN cat \ {n} /\ \A m \in DOMAIN cat \ {n} : C[m] = cat[m]
      BY WithoutIs DEF After
<1> HIDE DEF C
<1>10. Typed(e, MapsIn(C))
  <2> SUFFICES ASSUME NEW x \in DOMAIN e.pendingSectorWrites, x \notin MapsIn(C)
               PROVE  e.pendingSectorWrites[x] \in Blocks
        BY DEF Typed
  <2>1. x \in DOMAIN d.pendingSectorWrites /\ e.pendingSectorWrites[x] = d.pendingSectorWrites[x]
        BY <1>4 DEF Lasts
  <2>2. ASSUME NEW m \in DOMAIN cat PROVE x \notin Elems(cat[m].maps)
    <3>1. CASE m = n
          BY <3>1, <1>4 DEF Unmapped
    <3>2. CASE m # n
          BY <3>2, <1>9 DEF MapsIn
    <3> QED
          BY <3>1, <3>2
  <2>3. x \notin MapsIn(cat) \cup Elems(o.file.maps)
        BY <1>1, <2>2 DEF MapsIn
  <2> QED
        BY <1>3, <2>1, <2>3 DEF Early, Typed
<1>11. Rested(e, C)
      BY <1>8, <1>9, <1>10 DEF Rested, Others
<1> QED
      BY <1>6, <1>9, <1>11 DEF e

(* Renaming a file keeps its bytes and those of the others. *)
LEMMA RenameBytes ==
    ASSUME SdfsGuest, NEW d, NEW cat, NEW o, Going(d, cat, o), d.error = FALSE, o.kind = "rename", Bytes(d, cat, o)
    PROVE  Tidy(DirWritten(d, o).io) /\ Rested(DirWritten(d, o), After(cat, o))
<1> DEFINE e == DirWritten(d, o)
           n == o.name
           f == o.file
           old == cat[n]
           h == old.host
           title == o.as
           W == Without(cat, {n})
           C == Put(W, title, f)
<1>1. /\ Catalogue(cat) /\ Plan(cat, o) /\ Image(d) /\ Layout(d, cat) /\ n \in DOMAIN cat /\ Sound(old)
      /\ title \notin DOMAIN cat /\ f.host = title /\ f = [old EXCEPT !.host = title] /\ title \in AllNames
  <2>1. Plan(cat, o) /\ Catalogue(cat) /\ Image(d) /\ Underway(d, cat, o)
        BY DEF Going, Committed, Outputs, Whole
  <2> QED
        BY <2>1, PlanFacts DEF Plan, Underway
<1>2. f.maps = old.maps /\ f.data = old.data /\ f.bytes = old.bytes
  <2>1. old \in Files
        BY <1>1, SoundFacts
  <2> HIDE DEF old, title, f
  <2> QED
        BY <2>1, <1>1 DEF Files
<1>3. PICK g : Kept(d, g) /\ g.io = d.io /\ Renamed(g, e, cat, n, title, f)
      BY DirRename
<1>4. Early(d, cat, o) /\ Others(d, cat, n) /\ Tidy(d.io)
      BY DEF Bytes, Doing, Committed, Outputs, Whole
<1> HIDE DEF e
<1>5. e.pendingSectorWrites = d.pendingSectorWrites /\ e.io = RenameIo(d, h, title)
      BY <1>3 DEF Renamed, Kept, RenameIo
<1>6. /\ h \in DOMAIN d.io.host /\ (title \in DOMAIN d.io.host => h = title)
      /\ \A m \in DOMAIN cat \ {n} : cat[m].host \in DOMAIN d.io.host /\ cat[m].host # h /\ cat[m].host # title
  <2>1. DOMAIN d.io.host = {cat[l].host : l \in DOMAIN cat}
        BY <1>1 DEF Layout
  <2>2. \A l \in DOMAIN cat : cat[l].host # title
        BY <1>1 DEF Catalogue
  <2>3. \A m \in DOMAIN cat \ {n} : cat[m].host \in DOMAIN d.io.host /\ cat[m].host # h
        BY <1>1, HostsAre
  <2> QED
        BY <1>1, <2>1, <2>2, <2>3
<1>7. e.io.host = IF h = title THEN d.io.host ELSE Put(Without(d.io.host, {h}), title, d.io.host[h])
  <2> HIDE DEF h, title
  <2>1. SdfsGuest /\ Image(d) /\ h \in DOMAIN d.io.host /\ (title \in DOMAIN d.io.host => h = title)
        BY <1>1, <1>6
  <2>2. RenameIo(d, h, title).host = IF h = title THEN d.io.host ELSE Put(Without(d.io.host, {h}), title, d.io.host[h])
        BY ONLY <2>1, RenameHost
  <2> QED
        BY <1>5, <2>2
<1>8. Tidy(e.io)
  <2>1. CASE h = title
        BY <1>4, <1>7, <2>1 DEF Tidy
  <2>2. CASE h # title
    <3> DEFINE w == Without(d.io.host, {h})
               v == d.io.host[h]
    <3>1. e.io.host = Put(w, title, v)
          BY <1>7, <2>2
    <3> HIDE DEF w, v
    <3>2. TidyF(Put(w, title, v))
          BY TidyExcept
    <3> QED
          BY <3>1, <3>2 DEF Tidy, TidyF
  <2> QED
        BY <2>1, <2>2
<1>9. e.io.host[title] = d.io.host[h] /\ \A k \in DOMAIN d.io.host : k # h /\ k # title => e.io.host[k] = d.io.host[k]
  <2>1. CASE h = title
        BY <1>7, <2>1
  <2>2. CASE h # title
    <3> DEFINE w == Without(d.io.host, {h})
               v == d.io.host[h]
    <3>1. e.io.host = Put(w, title, v)
          BY <1>7, <2>2
    <3>2. DOMAIN w = DOMAIN d.io.host \ {h} /\ \A k \in DOMAIN d.io.host \ {h} : w[k] = d.io.host[k]
      <4> HIDE DEF h
      <4> QED
            BY WithoutIs
    <3> HIDE DEF w
    <3>3. v = d.io.host[h]
          OBVIOUS
    <3> HIDE DEF v, h, title
    <3>4. Put(w, title, v)[title] = v /\ \A k \in DOMAIN w : k # title => Put(w, title, v)[k] = w[k]
          BY DEF Put
    <3> QED
          BY <3>1, <3>2, <3>3, <3>4
  <2> QED
        BY <2>1, <2>2
<1>10. \A m \in DOMAIN cat \ {n} : e.io.host[cat[m].host] = d.io.host[cat[m].host]
      BY <1>6, <1>9
<1>11. Lasts(d, e)
      BY <1>5 DEF Lasts
<1>12. Others(e, cat, n)
      BY <1>4, <1>10, <1>11, OthersLast
<1>13. Clean(e, f, {}) /\ Stored(e, f, {})
  <2>1. Clean(d, old, {}) /\ Stored(d, old, {})
        BY <1>4 DEF Early
  <2>2. Clean(e, f, {})
        BY <2>1, <1>2, <1>5 DEF Clean
  <2>3. Stored(e, f, {})
    <3>1. f.data = old.data /\ f.bytes = old.bytes /\ e.io.host[f.host] = d.io.host[old.host]
          BY <1>1, <1>2, <1>9
    <3> HIDE DEF f, old
    <3> QED
          BY ONLY <2>1, <3>1 DEF Stored
  <2> QED
        BY <2>2, <2>3
<1>14. DOMAIN W = DOMAIN cat \ {n} /\ \A m \in DOMAIN cat \ {n} : W[m] = cat[m]
  <2> HIDE DEF n
  <2> QED
        BY WithoutIs
<1>15. After(cat, o) = C
      BY DEF After
<1> HIDE DEF W
<1>16. DOMAIN C = DOMAIN W \cup {title} /\ C[title] = f /\ \A m \in DOMAIN W \ {title} : C[m] = W[m]
  <2> HIDE DEF title, f
  <2> QED
        BY DEF Put
<1> HIDE DEF C
<1>17. \A m \in DOMAIN cat \ {n} : m \in DOMAIN C /\ C[m] = cat[m]
      BY <1>1, <1>14, <1>16
<1>18. Typed(e, MapsIn(C))
  <2>1. MapsIn(cat) \cup Elems(f.maps) \subseteq MapsIn(C)
    <3> SUFFICES ASSUME NEW m \in DOMAIN cat PROVE Elems(cat[m].maps) \subseteq MapsIn(C) /\ Elems(f.maps) \subseteq MapsIn(C)
          BY <1>1 DEF MapsIn
    <3>1. Elems(f.maps) \subseteq MapsIn(C)
          BY <1>16 DEF MapsIn
    <3>2. CASE m = n
          BY <3>1, <3>2, <1>2
    <3>3. CASE m # n
      <4>1. m \in DOMAIN C /\ C[m] = cat[m]
            BY <3>3, <1>17
      <4> HIDE DEF n
      <4> QED
            BY ONLY <3>1, <4>1 DEF MapsIn
    <3> QED
          BY <3>1, <3>2, <3>3
  <2>2. Typed(d, MapsIn(cat) \cup Elems(f.maps))
        BY <1>4 DEF Early
  <2> QED
        BY <1>11, <2>1, <2>2, LastsIs
<1>19. Rested(e, C)
  <2>1. \A m \in DOMAIN cat \ {n} : Clean(e, cat[m], {}) /\ Stored(e, cat[m], {})
        BY <1>12 DEF Others
  <2>2. \A m \in DOMAIN C : m = title \/ m \in DOMAIN cat \ {n}
        BY <1>14, <1>16
  <2> QED
        BY <2>1, <2>2, <1>13, <1>16, <1>17, <1>18 DEF Rested
<1> QED
      BY <1>8, <1>15, <1>19 DEF e

-----------------------------------------------------------------------------
(* A write of a sector, for the bytes. *)

(* The overlay once a sector of the operation's file is in it. *)
Papered(d, t, cat, o, x) ==
    /\ \A m \in DOMAIN cat \ {o.name} : Clean(t, cat[m], {})
    /\ Underway(d, cat, o) =>
         /\ Typed(t, MapsIn(cat) \cup Elems(o.file.maps)) /\ Clean(t, o.file, Unsure(o) \ {x})
         /\ o.kind = "append" => Intact(t, cat[o.name])
    /\ Committed(d, cat, o) => Typed(t, MapsIn(After(cat, o))) /\ Clean(t, o.file, Unsure(o) \ {x})

(* What the overlay holds once a sector of the operation is in it. *)
LEMMA OverlayBytes ==
    ASSUME NEW d, NEW t, NEW cat, NEW o, Going(d, cat, o), Bytes(d, cat, o), Prefixed(cat, o), NEW x, x \in o.todo,
           x # Dir, Overlaid(d, t, x, SectorImage(o, x))
    PROVE  Papered(d, t, cat, o, x)
<1> DEFINE f == o.file
           n == o.name
           c == SectorImage(o, x)
           U == Unsure(o)
<1>1. Catalogue(cat) /\ Plan(cat, o) /\ Sound(f) /\ \A m \in DOMAIN cat : Sound(cat[m])
      BY PlanFacts DEF Going
<1>2. x \in SectorsOf(f)
      BY <1>1, PlanFacts
<1>3. /\ \A k \in 1 .. Len(f.data) : f.data[k] = x => c = Block(f.bytes, k)
      /\ x \in Elems(f.maps) \/ c \in Blocks
      BY <1>1, <1>2, SectorImageIs
<1>4. (Underway(d, cat, o) => Early(d, cat, o)) /\ (Committed(d, cat, o) => Late(d, cat, o)) /\ Others(d, cat, n)
      BY Exclusive DEF Bytes, Doing
<1>5. o.kind \in Outputs \cup {"update"}
  <2>1. o.kind \in Whole \cup {"append", "erase", "rename", "update"}
        BY <1>1, PlanFacts DEF Ops
  <2>2. o.kind \notin {"erase", "rename"}
        BY <1>1 DEF Plan
  <2> QED
        BY <2>1, <2>2 DEF Outputs
<1> HIDE DEF c
<1>6. Overlaid(d, t, x, c)
      BY DEF c
<1>7. ASSUME NEW m \in DOMAIN cat \ {n} PROVE Clean(t, cat[m], {})
  <2>1. Apart(f, cat[m]) /\ Sound(cat[m])
        BY <1>1, PlanFacts
  <2>2. \A k \in 1 .. Len(cat[m].data) : cat[m].data[k] # x
        BY <1>2, <2>1, SectorsAt DEF Apart, SectorsOf
  <2>3. Clean(d, cat[m], {})
        BY <1>4 DEF Others
  <2>4. Clean(t, cat[m], {} \ {x})
        BY <1>6, <2>2, <2>3, OverlaidClean
  <2> QED
        BY <2>4
<1>8. \A M : Typed(d, M) /\ Elems(f.maps) \subseteq M => Typed(t, M)
      BY <1>3, <1>6 DEF Typed, Overlaid
<1>9. Clean(d, f, U) => Clean(t, f, U \ {x})
      BY <1>3, <1>6, OverlaidClean
<1>10. ASSUME Underway(d, cat, o)
       PROVE  /\ Typed(t, MapsIn(cat) \cup Elems(f.maps)) /\ Clean(t, f, U \ {x})
              /\ o.kind = "append" => Intact(t, cat[n])
  <2>1. Early(d, cat, o)
        BY <1>4, <1>10
  <2>2. Typed(t, MapsIn(cat) \cup Elems(f.maps))
        BY <1>8, <2>1 DEF Early
  <2>3. Clean(t, f, U \ {x})
        BY <1>5, <1>9, <2>1 DEF Early
  <2>4. ASSUME o.kind = "append" PROVE Intact(t, cat[n])
    <3> DEFINE old == cat[n]
    <3>1. Intact(d, old) /\ Begins(old, f) /\ old \in Files /\ n \in DOMAIN cat /\ Sound(old)
          BY <1>1, <2>1, <2>4, PlanFacts, SoundFacts DEF Early, Plan
    <3>2. \A j \in 1 .. Len(old.bytes) : f.bytes[j] = old.bytes[j]
          BY <2>4 DEF Prefixed
    <3>3. Len(old.bytes) \in Nat /\ Len(f.bytes) \in Nat /\ Len(old.bytes) < Len(f.bytes) /\ f.bytes \in Seq(Int)
          /\ Len(old.data) \in Nat /\ Len(f.data) \in Nat /\ Len(old.data) <= Len(f.data)
          BY <1>1, <2>4, <3>1, SoundFacts DEF Plan, Begins
    <3>4. \A k \in 1 .. Len(old.data) : old.data[k] = f.data[k]
          BY <3>1 DEF Begins
    <3> HIDE DEF old
    <3> SUFFICES ASSUME NEW k \in 1 .. Len(old.data), old.data[k] \in DOMAIN t.pendingSectorWrites
                 PROVE  Matches(t.pendingSectorWrites[old.data[k]], old.bytes, k)
          BY DEF Intact, old
    <3>5. CASE old.data[k] = x
      <4>1. t.pendingSectorWrites[old.data[k]] = Block(f.bytes, k)
            BY <1>3, <1>6, <3>3, <3>4, <3>5 DEF Overlaid
      <4>2. Matches(Block(f.bytes, k), f.bytes, k)
            BY <3>3, BlockIs
      <4> DEFINE B == Block(f.bytes, k)
      <4> HIDE DEF B
      <4>3. Matches(B, old.bytes, k)
            BY <3>2, <3>3, <4>2 DEF Matches, B
      <4> QED
            BY <4>1, <4>3 DEF B
    <3>6. CASE old.data[k] # x
          BY <1>6, <3>1, <3>6 DEF Overlaid, Intact
    <3> QED
          BY <3>5, <3>6
  <2> QED
        BY <2>2, <2>3, <2>4
<1>11. ASSUME Committed(d, cat, o)
       PROVE  Typed(t, MapsIn(After(cat, o))) /\ Clean(t, f, U \ {x})
  <2>1. Late(d, cat, o)
        BY <1>4, <1>11
  <2>2. After(cat, o) = Put(cat, n, f)
        BY <1>11 DEF Committed, After, Outputs, Whole
  <2>3. n \in DOMAIN After(cat, o) /\ After(cat, o)[n] = f
        BY <2>2 DEF Put
  <2>4. Elems(f.maps) \subseteq MapsIn(After(cat, o))
        BY <2>3 DEF MapsIn
  <2> QED
        BY <1>8, <1>9, <2>1, <2>4 DEF Late
<1> QED
      BY <1>7, <1>10, <1>11 DEF Papered

(* What a write that goes through leaves of its file and of the others.    *)
LEMMA ThroughStores ==
    ASSUME NEW g, NEW t, NEW h, NEW c, NEW k, Through(g, t, h, c, k), NEW F, Sound(F), NEW V, Stored(g, F, V)
    PROVE  /\ F.host # h /\ F.host \in DOMAIN g.io.host => Stored(t, F, V)
           /\ F.host = h /\ Matches(c, F.bytes, k) =>
                /\ Stored(t, F, V)
                /\ NoPending(g) /\ ~t.error /\ k \in 1 .. Len(F.data) => Stored(t, F, V \ {F.data[k]})
<1>1. ASSUME F.host # h, F.host \in DOMAIN g.io.host PROVE Stored(t, F, V)
  <2>1. t.io.host[F.host] = g.io.host[F.host]
        BY <1>1 DEF Through
  <2> QED
        BY <2>1 DEF Stored
<1>2. ASSUME F.host = h, Matches(c, F.bytes, k)
      PROVE  /\ Stored(t, F, V)
             /\ NoPending(g) /\ ~t.error /\ k \in 1 .. Len(F.data) => Stored(t, F, V \ {F.data[k]})
  <2> DEFINE a == g.io.host[h]
             b == t.io.host[h]
             L == Len(F.bytes)
  <2>1. /\ b \in Seq(Int) /\ Len(b) = L /\ Len(a) = L
        /\ \A j \in 1 .. L : b[j] = a[j] \/ (SectorsFor(j) = k /\ b[j] = c[Cell(j)])
        /\ NoPending(g) /\ ~t.error => \A j \in 1 .. L : SectorsFor(j) = k => b[j] = c[Cell(j)]
        BY <1>2 DEF Through, Stored
  <2>2. \A j \in 1 .. L : F.data[SectorsFor(j)] \notin V => a[j] = F.bytes[j]
        BY <1>2 DEF Stored
  <2>3. \A j \in 1 .. L : SectorsFor(j) = k => c[Cell(j)] = F.bytes[j]
        BY <1>2 DEF Matches
  <2>4. Stored(t, F, V)
    <3>1. \A j \in 1 .. L : F.data[SectorsFor(j)] \notin V => b[j] = F.bytes[j]
          BY <2>1, <2>2, <2>3
    <3> QED
          BY <1>2, <2>1, <3>1 DEF Stored
  <2>5. ASSUME NoPending(g), ~t.error, k \in 1 .. Len(F.data) PROVE Stored(t, F, V \ {F.data[k]})
    <3>1. \A j \in 1 .. L : SectorsFor(j) \in 1 .. Len(F.data)
          BY SectorIn
    <3>2. Distinct(F.data)
          BY SoundFacts
    <3>3. \A j \in 1 .. L : F.data[SectorsFor(j)] = F.data[k] => SectorsFor(j) = k
          BY <2>5, <3>1, <3>2 DEF Distinct
    <3> HIDE DEF a, b, L
    <3>4. ASSUME NEW j \in 1 .. L, F.data[SectorsFor(j)] \notin V \ {F.data[k]} PROVE b[j] = F.bytes[j]
      <4>1. CASE SectorsFor(j) = k
            BY <2>1, <2>3, <2>5, <4>1
      <4>2. CASE SectorsFor(j) # k
            BY <2>1, <2>2, <3>3, <3>4, <4>2
      <4> QED
            BY <4>1, <4>2
    <3> QED
          BY <1>2, <2>1, <3>4 DEF Stored, b, L
  <2> QED
        BY <2>4, <2>5
<1> QED
      BY <1>1, <1>2

(* Two hosts that store a file store the same bytes. *)
LEMMA StoredSame ==
    ASSUME NEW d, NEW t, NEW F, Stored(d, F, {}), Stored(t, F, {})
    PROVE  t.io.host[F.host] = d.io.host[F.host]
<1> DEFINE a == d.io.host[F.host]
           b == t.io.host[F.host]
<1>1. /\ a \in Seq(Int) /\ b \in Seq(Int) /\ Len(a) = Len(b)
      /\ \A j \in 1 .. Len(b) : b[j] = a[j]
      BY DEF Stored
<1> HIDE DEF a, b
<1>2. b = a
      BY <1>1, SameBytesAre
<1> QED
      BY <1>2 DEF a, b

(* A write that goes through, by the file n of the catalogue cat: F has    *)
(* its host file and its sectors, and perhaps other bytes.                 *)
Carried(g, t, cat, n, F, V, x) ==
    /\ Tidy(t.io) /\ \A m \in DOMAIN cat \ {n} : Stored(g, cat[m], {}) => Stored(t, cat[m], {})
    /\ Stored(t, F, V)
    /\ NoPending(g) /\ ~t.error => Stored(t, F, V \ {x})
    /\ t.error => g.io.fault > 0
    /\ g.io.fault = 0 => t.io.fault = 0
    /\ V = {} => HostSame(g, t)

(* The host once a sector of the operation's file was written.             *)
Housed(d, t, cat, o, x) ==
    /\ Tidy(t.io) /\ \A m \in DOMAIN cat \ {o.name} : Stored(t, cat[m], {})
    /\ Underway(d, cat, o) =>
         /\ o.kind \in {"append", "replace"} => Stored(t, cat[o.name], {})
         /\ o.kind = "update" => Stored(t, o.file, Unsure(o)) /\ (~t.error => Stored(t, o.file, Unsure(o) \ {x}))
    /\ Committed(d, cat, o) => Stored(t, o.file, Unsure(o)) /\ (~t.error => Stored(t, o.file, Unsure(o) \ {x}))
    /\ o.kind # "update" /\ ~o.stale => HostSame(d, t)
    /\ t.error => d.io.fault > 0
    /\ d.io.fault = 0 => t.io.fault = 0

(* The host as it was stores what it stored. *)
LEMMA StoredOn ==
    ASSUME NEW d, NEW t, t.io.host = d.io.host
    PROVE  /\ \A f, T : Stored(d, f, T) => Stored(t, f, T)
           /\ HostSame(d, t)
BY DEF Stored, HostSame

(* A write that goes no further than the overlay. *)
LEMMA HousedQuiet ==
    ASSUME NEW d, NEW t, NEW cat, NEW o, Going(d, cat, o), Bytes(d, cat, o), NEW x,
           t.io = d.io, t.error = FALSE,
           o.kind # "update", Committed(d, cat, o) => x \notin Elems(o.file.data)
    PROVE  Housed(d, t, cat, o, x)
<1>1. (Underway(d, cat, o) => Early(d, cat, o)) /\ (Committed(d, cat, o) => Late(d, cat, o)) /\ Others(d, cat, o.name)
      BY Exclusive DEF Bytes, Doing
<1>2. (\A f, T : Stored(d, f, T) => Stored(t, f, T)) /\ HostSame(d, t)
      BY StoredOn
<1>3. Sound(o.file)
      BY PlanFacts DEF Going
<1>4. ASSUME Committed(d, cat, o) PROVE Stored(t, o.file, Unsure(o)) /\ Stored(t, o.file, Unsure(o) \ {x})
  <2>1. Stored(t, o.file, Unsure(o))
        BY <1>1, <1>2, <1>4 DEF Late
  <2>2. Unsure(o) \cap Elems(o.file.data) \subseteq Unsure(o) \ {x}
        BY <1>4
  <2> QED
        BY <1>3, <2>1, <2>2, UnsureGrows
<1>5. Tidy(t.io)
      BY DEF Bytes, Tidy
<1>6. Underway(d, cat, o) /\ o.kind \in {"append", "replace"} => Stored(t, cat[o.name], {})
      BY <1>1, <1>2 DEF Early
<1>7. \A m \in DOMAIN cat \ {o.name} : Stored(t, cat[m], {})
      BY <1>1, <1>2 DEF Others
<1> QED
      BY <1>2, <1>4, <1>5, <1>6, <1>7 DEF Housed

(* A write that goes through to the operation's own file. *)
LEMMA HousedThrough ==
    ASSUME NEW d, NEW t, NEW g, g.io = d.io, NEW cat, NEW o, NEW c, NEW F, NEW V, NEW x,
           DOMAIN cat \ {o.name} \subseteq DOMAIN c, \A m \in DOMAIN cat \ {o.name} : c[m] = cat[m],
           Others(d, cat, o.name), Carried(g, t, c, o.name, F, V, x),
           Underway(d, cat, o) => o.kind = "update" /\ F = o.file /\ V = Unsure(o) /\ NoPending(g),
           Committed(d, cat, o) => F = o.file /\ V = Unsure(o) /\ NoPending(g),
           o.kind # "update" /\ ~o.stale => V = {}
    PROVE  Housed(d, t, cat, o, x)
<1>1. \A f, T : Stored(d, f, T) => Stored(g, f, T)
      BY StoredOn
<1>2. \A m \in DOMAIN cat \ {o.name} : Stored(t, cat[m], {})
  <2> TAKE m \in DOMAIN cat \ {o.name}
  <2>1. Stored(g, cat[m], {})
        BY <1>1 DEF Others
  <2> QED
        BY <2>1 DEF Carried
<1>3. /\ Tidy(t.io) /\ Stored(t, F, V)
      /\ NoPending(g) /\ ~t.error => Stored(t, F, V \ {x})
      /\ t.error => g.io.fault > 0
      /\ g.io.fault = 0 => t.io.fault = 0
      /\ V = {} => HostSame(g, t)
      BY DEF Carried
<1>4. HostSame(g, t) => HostSame(d, t)
      BY DEF HostSame
<1>5. Underway(d, cat, o) =>
         /\ o.kind \in {"append", "replace"} => Stored(t, cat[o.name], {})
         /\ o.kind = "update" => Stored(t, o.file, Unsure(o)) /\ (~t.error => Stored(t, o.file, Unsure(o) \ {x}))
      BY <1>3
<1>6. Committed(d, cat, o) => Stored(t, o.file, Unsure(o)) /\ (~t.error => Stored(t, o.file, Unsure(o) \ {x}))
      BY <1>3
<1>7. (t.error => d.io.fault > 0) /\ (d.io.fault = 0 => t.io.fault = 0)
      BY <1>3
<1>8. o.kind # "update" /\ ~o.stale => HostSame(d, t)
      BY <1>3, <1>4
<1> QED
      BY <1>2, <1>3, <1>5, <1>6, <1>7, <1>8 DEF Housed

(* A write that goes through to what an append keeps of the file. *)
LEMMA HousedAppend ==
    ASSUME NEW d, NEW t, NEW g, g.io = d.io, NEW cat, NEW o, NEW x, Others(d, cat, o.name),
           Carried(g, t, cat, o.name, cat[o.name], {}, x), ~Committed(d, cat, o), o.kind = "append"
    PROVE  Housed(d, t, cat, o, x)
<1>1. \A f, T : Stored(d, f, T) => Stored(g, f, T)
      BY StoredOn
<1>2. \A m \in DOMAIN cat \ {o.name} : Stored(t, cat[m], {})
  <2> TAKE m \in DOMAIN cat \ {o.name}
  <2>1. Stored(g, cat[m], {})
        BY <1>1 DEF Others
  <2> QED
        BY <2>1 DEF Carried
<1>3. /\ Tidy(t.io) /\ Stored(t, cat[o.name], {})
      /\ t.error => g.io.fault > 0
      /\ g.io.fault = 0 => t.io.fault = 0
      /\ HostSame(g, t)
      BY DEF Carried
<1>4. HostSame(g, t) => HostSame(d, t)
      BY DEF HostSame
<1> QED
      BY <1>2, <1>3, <1>4 DEF Housed

(* A write is staged: in the overlay, and through to the host.             *)
Staged(d, g, cat, o, x) ==
    /\ Going(d, cat, o) /\ d.error = FALSE /\ Bytes(d, cat, o) /\ Prefixed(cat, o)
    /\ x \in o.todo /\ x # Dir /\ InOrder(d, o, x)
    /\ Overlaid(d, g, x, SectorImage(o, x)) /\ g.io = d.io /\ g.error = FALSE

(* What such a write finds. *)
LEMMA StagedFinds ==
    ASSUME NEW d, NEW g, NEW cat, NEW o, NEW x, Staged(d, g, cat, o, x)
    PROVE  /\ Catalogue(cat) /\ Plan(cat, o) /\ Sound(o.file) /\ Image(g) /\ Tidy(g.io) /\ Papered(d, g, cat, o, x)
           /\ x \in SectorsOf(o.file) /\ x \in DOMAIN g.pendingSectorWrites
           /\ o.kind \in Outputs \cup {"update"}
           /\ x \in Elems(o.file.data) => g.pendingSectorWrites[x] \in Blocks
           /\ \A k \in 1 .. Len(o.file.data) : o.file.data[k] = x =>
                Matches(g.pendingSectorWrites[x], o.file.bytes, k)
           /\ \A m \in DOMAIN cat \ {o.name} : x \notin Elems(cat[m].data)
           /\ Underway(d, cat, o) => Layout(g, cat)
           /\ Underway(d, cat, o) /\ o.kind = "update" => NoPending(g)
           /\ Underway(d, cat, o) /\ o.kind = "replace" => Replacing(g, cat[o.name], At(o, o.todo \ {x}))
           /\ Committed(d, cat, o) => Layout(g, After(cat, o)) /\ NoPending(g)
           /\ (Underway(d, cat, o) \/ Committed(d, cat, o)) /\ ~(Underway(d, cat, o) /\ Committed(d, cat, o))
           /\ Underway(d, cat, o) => Early(d, cat, o)
           /\ Committed(d, cat, o) => Late(d, cat, o)
           /\ Others(d, cat, o.name)
<1> DEFINE f == o.file
           n == o.name
           u == At(o, o.todo \ {x})
<1>1. Catalogue(cat) /\ Plan(cat, o) /\ Sound(f) /\ o \in Ops
      BY PlanFacts DEF Staged, Going
<1>2. Image(g) /\ Tidy(g.io)
      BY DEF Staged, Overlaid, Bytes, Tidy
<1>3. Papered(d, g, cat, o, x)
      BY OverlayBytes DEF Staged
<1>4. x \in SectorsOf(f)
      BY <1>1, PlanFacts DEF Staged
<1>5. x \in DOMAIN g.pendingSectorWrites /\ g.pendingSectorWrites[x] = SectorImage(o, x)
      BY DEF Staged, Overlaid
<1>6. o.kind \in Outputs \cup {"update"}
  <2>1. o.kind \in Whole \cup {"append", "erase", "rename", "update"}
        BY <1>1 DEF Ops
  <2>2. o.kind \notin {"erase", "rename"}
        BY <1>1 DEF Plan, Staged
  <2> QED
        BY <2>1, <2>2 DEF Outputs
<1>7. /\ \A k \in 1 .. Len(f.data) : f.data[k] = x => SectorImage(o, x) = Block(f.bytes, k)
      /\ x \in Elems(f.maps) \/ SectorImage(o, x) \in Blocks
      BY <1>1, <1>4, SectorImageIs
<1>8. x \in Elems(f.data) => g.pendingSectorWrites[x] \in Blocks
  <2>1. Elems(f.maps) \cap Elems(f.data) = {}
        BY <1>1, SoundFacts
  <2> QED
        BY <1>5, <1>7, <2>1
<1>9. \A k \in 1 .. Len(f.data) : f.data[k] = x => Matches(g.pendingSectorWrites[x], f.bytes, k)
  <2> TAKE k \in 1 .. Len(f.data)
  <2> HAVE f.data[k] = x
  <2>1. f.bytes \in Seq(Int) /\ k \in Nat \ {0}
        BY <1>1, SoundFacts
  <2>2. Matches(Block(f.bytes, k), f.bytes, k)
        BY <2>1, BlockIs
  <2> QED
        BY <1>5, <1>7, <2>2
<1>10. \A m \in DOMAIN cat \ {n} : x \notin Elems(cat[m].data)
  <2>1. \A m \in DOMAIN cat \ {n} : Apart(f, cat[m])
        BY <1>1, PlanFacts
  <2> QED
        BY <1>4, <2>1 DEF Apart, SectorsOf
<1>11. /\ Underway(d, cat, o) => Underway(g, cat, u)
       /\ Committed(d, cat, o) => Committed(g, cat, u)
      BY SectorStored DEF Staged
<1>12. u.kind = o.kind /\ u.name = n /\ u.file = f /\ u.as = o.as
  <2>1. o.todo \ {x} \subseteq 1 .. LastSector
        BY <1>1 DEF Ops
  <2> QED
        BY <1>1, <2>1, AtIs
<1> HIDE DEF u
<1>13. Underway(d, cat, o) =>
          /\ Layout(g, cat)
          /\ o.kind = "update" => NoPending(g)
          /\ o.kind = "replace" => Replacing(g, cat[n], u)
  <2>1. ASSUME Underway(g, cat, u)
        PROVE  /\ Layout(g, cat)
               /\ o.kind = "update" => NoPending(g)
               /\ o.kind = "replace" => Replacing(g, cat[n], u)
        BY <1>12, <2>1 DEF Underway
  <2> QED
        BY <1>11, <2>1
<1>14. Committed(d, cat, o) => Layout(g, After(cat, o)) /\ NoPending(g)
  <2>1. After(cat, u) = After(cat, o)
        BY <1>12 DEF After
  <2> QED
        BY <1>11, <2>1 DEF Committed
<1>15. /\ Underway(d, cat, o) \/ Committed(d, cat, o)
       /\ ~(Underway(d, cat, o) /\ Committed(d, cat, o))
       BY Exclusive DEF Staged, Going
<1>16. (Underway(d, cat, o) => Early(d, cat, o)) /\ (Committed(d, cat, o) => Late(d, cat, o)) /\ Others(d, cat, n)
      BY <1>15 DEF Staged, Bytes, Doing
<1> QED
      BY <1>1, <1>2, <1>3, <1>4, <1>5, <1>6, <1>8, <1>9, <1>10, <1>13, <1>14, <1>15, <1>16 DEF u

(* A data sector of a file that is not being replaced goes through. *)
LEMMA CarriedIs ==
    ASSUME NEW g, Image(g), g.error = FALSE, Tidy(g.io), NEW cat, Catalogue(cat), Layout(g, cat), NEW n \in DOMAIN cat,
           NEW k \in 1 .. Len(cat[n].data), NEW x, x = cat[n].data[k], x \in DOMAIN g.pendingSectorWrites,
           g.pendingSectorWrites[x] \in Blocks, NEW F, Sound(F), F.host = cat[n].host, F.data = cat[n].data,
           Len(F.bytes) = Len(cat[n].bytes), Matches(g.pendingSectorWrites[x], F.bytes, k), NEW V, Stored(g, F, V)
    PROVE  Carried(g, WriteThrough(g, x), cat, n, F, V, x)
<1> DEFINE t == WriteThrough(g, x)
           h == cat[n].host
           c == g.pendingSectorWrites[x]
<1>1. Sound(cat[n]) /\ \A m \in DOMAIN cat : Sound(cat[m])
      BY DEF Catalogue
<1>2. Stored(g, cat[n], Elems(cat[n].data))
  <2>1. \A j \in 1 .. Len(cat[n].bytes) : cat[n].data[SectorsFor(j)] \in Elems(cat[n].data)
        BY <1>1, SectorIn, SectorsAt
  <2> QED
        BY <2>1 DEF Stored
<1>3. Through(g, t, h, c, k)
  <2>1. Passable(g, cat, n, k, x, Elems(cat[n].data))
        BY <1>2 DEF Passable
  <2> QED
        BY <2>1, ThroughIs
<1>4. Same(g, t)
      BY WriteThroughIs
<1>5. /\ \A m \in DOMAIN cat : cat[m].host \in DOMAIN g.io.host
      /\ \A m \in DOMAIN cat \ {n} : cat[m].host # h
      BY HostsAre
<1> HIDE DEF t, c, h
<1>6. \A m \in DOMAIN cat \ {n} : Stored(g, cat[m], {}) => Stored(t, cat[m], {})
      BY <1>1, <1>3, <1>5, ThroughStores
<1>7. /\ Stored(t, F, V)
      /\ NoPending(g) /\ ~t.error => Stored(t, F, V \ {x})
  <2>1. F.host = h /\ Matches(c, F.bytes, k) /\ k \in 1 .. Len(F.data) /\ F.data[k] = x
        BY DEF h, c
  <2>2. /\ Stored(t, F, V)
        /\ NoPending(g) /\ ~t.error /\ k \in 1 .. Len(F.data) => Stored(t, F, V \ {F.data[k]})
        BY ONLY <1>3, <2>1, Sound(F), Stored(g, F, V), ThroughStores
  <2> QED
        BY <2>1, <2>2
<1>8. ASSUME V = {} PROVE HostSame(g, t)
  <2>1. t.io.host[h] = g.io.host[h]
    <3>1. Stored(g, F, {}) /\ Stored(t, F, {}) /\ F.host = h
          BY <1>7, <1>8 DEF h
    <3> QED
          BY <3>1, StoredSame
  <2>2. DOMAIN t.io.host = DOMAIN g.io.host
        BY <1>4 DEF Same
  <2>3. \A y \in DOMAIN g.io.host \ {h} : t.io.host[y] = g.io.host[y]
        BY <1>3 DEF Through
  <2> QED
        BY <2>1, <2>2, <2>3 DEF HostSame
<1>9. /\ Tidy(t.io)
      /\ t.error => g.io.fault > 0
      /\ g.io.fault = 0 => t.io.fault = 0
      BY <1>3 DEF Through
<1> QED
      BY <1>6, <1>7, <1>8, <1>9 DEF Carried, t

(* A sector that the layout knows is one of the catalogue's. *)
LEMMA KnownSector ==
    ASSUME NEW g, NEW cat, Layout(g, cat), NEW x
    PROVE  x \in DOMAIN g.dataRefs <=> \E m \in DOMAIN cat : x \in Elems(cat[m].data)
BY DEF Layout

(* Without a sector of the layout, or under a replacement, nothing goes    *)
(* through.                                                                *)
LEMMA ThroughNothing ==
    ASSUME NEW g, NEW x, x \notin DOMAIN g.dataRefs
    PROVE  WriteThrough(g, x) = g
BY DEF WriteThrough

(* An in-place update goes through. *)
LEMMA UpdateHoused ==
    ASSUME NEW d, NEW g, NEW cat, NEW o, NEW x, Staged(d, g, cat, o, x), o.kind = "update"
    PROVE  Housed(d, WriteThrough(g, x), cat, o, x)
<1> DEFINE f == o.file
           n == o.name
           t == WriteThrough(g, x)
           V == Unsure(o)
<1>1. /\ Catalogue(cat) /\ Plan(cat, o) /\ Sound(f) /\ Image(g) /\ Tidy(g.io) /\ x \in DOMAIN g.pendingSectorWrites
      /\ Underway(d, cat, o) \/ Committed(d, cat, o)
      BY StagedFinds
<1>2. Underway(d, cat, o) /\ ~Committed(d, cat, o)
      BY <1>1 DEF Committed, Outputs, Whole
<1>3. Layout(g, cat) /\ NoPending(g) /\ Early(d, cat, o) /\ Others(d, cat, n) /\ g.error = FALSE /\ g.io = d.io
      BY <1>2, StagedFinds DEF Staged
<1>4. /\ n \in DOMAIN cat /\ f.data = cat[n].data /\ Len(f.bytes) = Len(cat[n].bytes) /\ x \in Elems(f.data)
      /\ f.host = cat[n].host
      BY <1>1, PlanFacts DEF Plan, Staged
<1>5. PICK k \in 1 .. Len(f.data) : x = f.data[k]
      BY <1>1, <1>4, SectorsAt
<1>6. g.pendingSectorWrites[x] \in Blocks /\ Matches(g.pendingSectorWrites[x], f.bytes, k)
      BY <1>4, <1>5, StagedFinds
<1>7. Stored(g, f, V)
      BY <1>3, StoredOn DEF Early
<1>8. Carried(g, t, cat, n, f, V, x)
  <2> HIDE DEF V, f
  <2>1. k \in 1 .. Len(cat[n].data) /\ x = cat[n].data[k]
        BY <1>4, <1>5
  <2> QED
        BY <1>1, <1>3, <1>4, <1>6, <1>7, <2>1, CarriedIs
<1> HIDE DEF t, V
<1>9. \A m \in DOMAIN cat \ {o.name} : cat[m] = cat[m]
      OBVIOUS
<1>10. Housed(d, t, cat, o, x)
      BY <1>2, <1>3, <1>8, <1>9, HousedThrough DEF V
<1> QED
      BY <1>10 DEF t

(* A write of a file that is committed already goes through, but for its   *)
(* map sectors.                                                            *)
LEMMA CommittedHoused ==
    ASSUME NEW d, NEW g, NEW cat, NEW o, NEW x, Staged(d, g, cat, o, x), Committed(d, cat, o)
    PROVE  Housed(d, WriteThrough(g, x), cat, o, x)
<1> DEFINE f == o.file
           n == o.name
           c == After(cat, o)
           t == WriteThrough(g, x)
           V == Unsure(o)
<1>1. /\ Catalogue(cat) /\ Plan(cat, o) /\ Sound(f) /\ Image(g) /\ Tidy(g.io) /\ x \in DOMAIN g.pendingSectorWrites
      /\ x \in SectorsOf(f) /\ ~Underway(d, cat, o) /\ Layout(g, c) /\ NoPending(g) /\ Late(d, cat, o)
      /\ Others(d, cat, n) /\ \A m \in DOMAIN cat \ {n} : x \notin Elems(cat[m].data)
      BY StagedFinds
<1>2. g.error = FALSE /\ g.io = d.io /\ Going(d, cat, o) /\ Bytes(d, cat, o)
      BY DEF Staged
<1>3. o.kind \in Outputs /\ o.kind # "update" /\ o.kind # "rename" /\ c = Put(cat, n, f)
      BY DEF Committed, After, Outputs, Whole
<1>4. Catalogue(c)
  <2>1. Fits(cat, n, f)
        BY <1>1, <1>3, PlanFacts
  <2> QED
        BY <1>1, <1>3, <2>1, PutCatalogue
<1>5. DOMAIN c = DOMAIN cat \cup {n} /\ c[n] = f /\ \A m \in DOMAIN cat \ {n} : c[m] = cat[m]
      BY <1>3 DEF Put
<1> HIDE DEF c
<1>6. CASE x \in Elems(f.data)
  <2>0. Sound(f)
        BY <1>1
  <2>1. PICK k \in 1 .. Len(f.data) : x = f.data[k]
        BY <1>6, <2>0, SectorsAt
  <2>2. g.pendingSectorWrites[x] \in Blocks /\ Matches(g.pendingSectorWrites[x], f.bytes, k)
        BY <1>6, <2>1, StagedFinds
  <2>3. Stored(g, f, V)
        BY <1>1, <1>2, StoredOn DEF Late
  <2>4. Carried(g, t, c, n, f, V, x)
    <3> HIDE DEF V
    <3> QED
        BY <1>1, <1>2, <1>4, <1>5, <2>1, <2>2, <2>3, CarriedIs
  <2>5. o.kind # "update" /\ ~o.stale => V = {}
        BY DEF Unsure
  <2> HIDE DEF t
  <2>6. DOMAIN cat \ {o.name} \subseteq DOMAIN c
        BY <1>5
  <2> HIDE DEF V
  <2>7. Housed(d, t, cat, o, x)
        BY <1>1, <1>2, <1>5, <2>4, <2>5, <2>6, HousedThrough DEF V
  <2> QED
        BY <2>7 DEF t
<1>7. CASE x \notin Elems(f.data)
  <2>1. x \notin DOMAIN g.dataRefs
        BY <1>1, <1>5, <1>7, KnownSector
  <2>2. t = g
        BY <2>1, ThroughNothing
  <2> QED
        BY <1>2, <1>3, <1>7, <2>2, HousedQuiet
<1> QED
      BY <1>6, <1>7

(* A write of a file still under way goes through where an append keeps    *)
(* the bytes, and nowhere else.                                            *)
LEMMA OutputHoused ==
    ASSUME NEW d, NEW g, NEW cat, NEW o, NEW x, Staged(d, g, cat, o, x), Underway(d, cat, o), o.kind \in Outputs
    PROVE  Housed(d, WriteThrough(g, x), cat, o, x)
<1> DEFINE f == o.file
           n == o.name
           old == cat[n]
           t == WriteThrough(g, x)
<1>1. /\ Catalogue(cat) /\ Plan(cat, o) /\ Sound(f) /\ Image(g) /\ Tidy(g.io) /\ x \in DOMAIN g.pendingSectorWrites
      /\ x \in SectorsOf(f) /\ ~Committed(d, cat, o) /\ Layout(g, cat) /\ Early(d, cat, o)
      /\ Others(d, cat, n) /\ \A m \in DOMAIN cat \ {n} : x \notin Elems(cat[m].data)
      /\ Papered(d, g, cat, o, x)
      BY StagedFinds
<1>2. g.error = FALSE /\ g.io = d.io /\ Going(d, cat, o) /\ Bytes(d, cat, o)
      BY DEF Staged
<1>3. o.kind # "update" /\ o.kind \in {"create", "append", "replace"}
      BY DEF Outputs, Whole
<1>4. CASE x \notin DOMAIN g.dataRefs
  <2>1. t = g
        BY <1>4, ThroughNothing
  <2> QED
        BY <1>1, <1>2, <1>3, <2>1, HousedQuiet
<1>5. CASE x \in DOMAIN g.dataRefs
  <2>1. n \in DOMAIN cat /\ x \in Elems(old.data)
        BY <1>1, <1>5, KnownSector
  <2>2. Sound(old) /\ old.host = f.host /\ o.kind \in {"append", "replace"}
        BY <1>1, <1>3, <2>1, PlanFacts
  <2>3. PICK k \in 1 .. Len(old.data) : x = old.data[k]
        BY <2>1, <2>2, SectorsAt
  <2>4. Stored(g, old, {})
        BY <1>1, <1>2, <2>2, StoredOn DEF Early
  <2>5. x \in Elems(f.data)
    <3>1. x \notin Elems(old.maps)
          BY <2>1, <2>2, SoundFacts
    <3>2. CASE o.kind = "append"
      <4>1. Begins(old, f)
            BY <1>1, <3>2 DEF Plan
      <4> QED
            BY <1>1, <2>1, <2>2, <4>1, BeginsWithin
    <3>3. CASE o.kind = "replace"
      <4>1. Begins(f, old)
            BY <1>1, <3>3 DEF Plan
      <4>2. Elems(f.maps) \subseteq Elems(old.maps)
            BY <1>1, <2>2, <4>1, BeginsWithin
      <4> QED
            BY <1>1, <3>1, <4>2 DEF SectorsOf
    <3> QED
          BY <2>2, <3>2, <3>3
  <2>6. g.pendingSectorWrites[x] \in Blocks
        BY <2>5, StagedFinds
  <2>7. CASE o.kind = "append"
    <3>1. Intact(g, old)
          BY <1>1, <2>7 DEF Papered
    <3>2. Matches(g.pendingSectorWrites[x], old.bytes, k)
          BY <1>1, <2>3, <3>1 DEF Intact
    <3>3. Carried(g, t, cat, n, old, {}, x)
      <4> HIDE DEF old
      <4>1. /\ old.host = cat[n].host /\ old.data = cat[n].data /\ Len(old.bytes) = Len(cat[n].bytes)
            /\ k \in 1 .. Len(cat[n].data) /\ x = cat[n].data[k]
            BY <2>3 DEF old
      <4>2. Sound(old) /\ Matches(g.pendingSectorWrites[x], old.bytes, k) /\ Stored(g, old, {})
            BY <2>2, <2>4, <3>2
      <4> QED
            BY <1>1, <1>2, <2>1, <2>6, <4>1, <4>2, CarriedIs
    <3> HIDE DEF t
    <3>5. Housed(d, t, cat, o, x)
          BY <1>1, <1>2, <2>7, <3>3, HousedAppend
    <3> QED
          BY <3>5 DEF t
  <2>8. CASE o.kind = "replace"
    <3> DEFINE u == At(o, o.todo \ {x})
               m == f.maps[1]
    <3>1. Replacing(g, old, u)
          BY <2>8, StagedFinds
    <3>2. u.name = n /\ u.file = f /\ u.phase = o.phase
      <4>1. o \in Ops /\ o.todo \ {x} \subseteq 1 .. LastSector
            BY <1>1, PlanFacts DEF Ops
      <4> QED
            BY <4>1, AtIs
    <3>3. o.phase \in {"empty", "rest"}
      <4>1. o.phase \in {"open", "empty", "rest"}
            BY <1>1, PlanFacts DEF Ops
      <4>2. o.phase # "open"
            BY <1>1 DEF Plan, Staged
      <4> QED
            BY <4>1, <4>2
    <3> HIDE DEF u
    <3>4. /\ m \in DOMAIN g.pendingReplacements
          /\ g.pendingReplacements[m].file \in DOMAIN g.files
          /\ g.files[g.pendingReplacements[m].file] = Record(n, old)
      <4> HIDE DEF old
      <4>1. /\ Only(g, {}, {}, {m})
            /\ \E i \in DOMAIN g.files : /\ g.files[i] = Record(n, old)
                                         /\ g.pendingReplacements[m] = [file |-> i, name |-> old.host]
            BY <3>1, <3>2, <3>3 DEF Replacing
      <4>2. m \in DOMAIN g.pendingReplacements
            BY <4>1 DEF Only
      <4> QED
            BY <4>1, <4>2
    <3>5. Passable(g, cat, n, k, x, {})
          BY <1>1, <1>2, <2>1, <2>3, <2>4, <2>6 DEF Passable
    <3>6. t = g
      <4>1. \A y \in DOMAIN g.pendingReplacements :
                  /\ g.pendingReplacements[y].file \in DOMAIN g.files
                  /\ g.files[g.pendingReplacements[y].file] = Record(n, cat[n])
                  => WriteThrough(g, x) = g
            BY ONLY <3>5, ThroughIs
      <4>2. cat[n] = old /\ t = WriteThrough(g, x)
            OBVIOUS
      <4> HIDE DEF t, m, old
      <4> QED
            BY ONLY <3>4, <4>1, <4>2
    <3> QED
          BY <1>1, <1>2, <1>3, <3>6, HousedQuiet
  <2> QED
        BY <2>2, <2>7, <2>8
<1> QED
      BY <1>4, <1>5

(* A write of a data or map sector of an operation. *)
LEMMA SectorHoused ==
    ASSUME NEW d, NEW g, NEW cat, NEW o, NEW x, Staged(d, g, cat, o, x)
    PROVE  Housed(d, WriteThrough(g, x), cat, o, x)
<1>1. o.kind \in Outputs \cup {"update"} /\ (Underway(d, cat, o) \/ Committed(d, cat, o))
      BY StagedFinds
<1> QED
      BY <1>1, UpdateHoused, CommittedHoused, OutputHoused

(* The sectors an operation is not sure of, as it goes on. *)
LEMMA UnsureAt ==
    ASSUME NEW o \in Ops, NEW T, T \subseteq o.todo
    PROVE  /\ Unsure(At(o, T)) \subseteq Unsure(o)
           /\ \A x : T = o.todo \ {x} => Unsure(o) \ {x} \subseteq Unsure(At(o, T))
           /\ At(o, T).stale = o.stale
<1>1. T \subseteq 1 .. LastSector
      BY DEF Ops
<1>2. At(o, T).kind = o.kind /\ At(o, T).file = o.file /\ At(o, T).phase = o.phase /\ At(o, T).todo = T
      BY <1>1, AtIs
<1>3. At(o, T).stale = o.stale
      BY DEF At, Ops
<1> DEFINE u == At(o, T)
<1> HIDE DEF u
<1>4. u.kind = o.kind /\ u.file = o.file /\ u.phase = o.phase /\ u.todo = T /\ u.stale = o.stale
      BY <1>2, <1>3 DEF u
<1>5. Unsure(u) \subseteq Unsure(o)
      BY <1>4 DEF Unsure
<1>6. \A x : T = o.todo \ {x} => Unsure(o) \ {x} \subseteq Unsure(u)
      BY <1>4 DEF Unsure
<1> QED
      BY <1>3, <1>5, <1>6 DEF u

(* What the overlay and the host say of a sector that was written. *)
LEMMA Carries ==
    ASSUME NEW d, NEW t, NEW cat, NEW o, NEW x, Sound(o.file), Papered(d, t, cat, o, x), Housed(d, t, cat, o, x),
           o.kind \in Outputs \cup {"update"},
           NEW u, u.kind = o.kind, u.name = o.name, u.file = o.file, u.as = o.as,
           (Unsure(o) \ {x}) \subseteq Unsure(u), t.error => Unsure(o) \subseteq Unsure(u), t.error \in BOOLEAN,
           (Underway(d, cat, o) /\ Underway(t, cat, u)) \/ (Committed(d, cat, o) /\ Committed(t, cat, u))
    PROVE  Bytes(t, cat, u)
<1> DEFINE f == o.file
<1>1. Tidy(t.io) /\ \A m \in DOMAIN cat \ {o.name} : Stored(t, cat[m], {})
      BY DEF Housed
<1>2. \A m \in DOMAIN cat \ {o.name} : Clean(t, cat[m], {})
      BY DEF Papered
<1>3. Others(t, cat, u.name)
      BY <1>1, <1>2 DEF Others
<1>4. Clean(t, f, Unsure(o) \ {x}) => Clean(t, f, Unsure(u))
  <2>1. (Unsure(o) \ {x}) \cap Elems(f.data) \subseteq Unsure(u)
        OBVIOUS
  <2> HIDE DEF f
  <2>2. Sound(f)
        BY DEF f
  <2> QED
        BY <2>1, <2>2, UnsureGrows
<1>5. Stored(t, f, Unsure(o)) /\ (~t.error => Stored(t, f, Unsure(o) \ {x})) => Stored(t, f, Unsure(u))
  <2> HIDE DEF f
  <2>0. Sound(f)
        BY DEF f
  <2>1. CASE t.error
    <3>1. Unsure(o) \cap Elems(f.data) \subseteq Unsure(u)
          BY <2>1
    <3> QED
          BY <2>0, <3>1, UnsureGrows
  <2>2. CASE ~t.error
    <3>1. (Unsure(o) \ {x}) \cap Elems(f.data) \subseteq Unsure(u)
          OBVIOUS
    <3> QED
          BY <2>0, <2>2, <3>1, UnsureGrows
  <2> QED
        BY <2>1, <2>2
<1>6. CASE Underway(d, cat, o) /\ Underway(t, cat, u)
  <2>1. /\ Typed(t, MapsIn(cat) \cup Elems(f.maps)) /\ Clean(t, f, Unsure(o) \ {x})
        /\ o.kind = "append" => Intact(t, cat[o.name])
        BY <1>6 DEF Papered
  <2>2. /\ o.kind \in {"append", "replace"} => Stored(t, cat[o.name], {})
        /\ o.kind = "update" => Stored(t, f, Unsure(o)) /\ (~t.error => Stored(t, f, Unsure(o) \ {x}))
        BY <1>6 DEF Housed
  <2>3. o.kind \notin {"erase", "rename"}
        BY DEF Outputs, Whole
  <2>4. Early(t, cat, u)
        BY <1>4, <1>5, <2>1, <2>2, <2>3 DEF Early
  <2> QED
        BY <1>1, <1>3, <1>6, <2>4 DEF Bytes, Doing
<1>7. CASE Committed(d, cat, o) /\ Committed(t, cat, u)
  <2>1. Typed(t, MapsIn(After(cat, o))) /\ Clean(t, f, Unsure(o) \ {x})
        BY <1>7 DEF Papered
  <2>2. Stored(t, f, Unsure(o)) /\ (~t.error => Stored(t, f, Unsure(o) \ {x}))
        BY <1>7 DEF Housed
  <2>3. After(cat, u) = After(cat, o)
        BY DEF After
  <2>4. Late(t, cat, u)
        BY <1>4, <1>5, <2>1, <2>2, <2>3 DEF Late
  <2> QED
        BY <1>1, <1>3, <1>7, <2>4 DEF Bytes, Doing
<1> QED
      BY <1>6, <1>7

(* An operation that is under way with sectors less is under way with them.*)
LEMMA StateGrows ==
    ASSUME NEW d, NEW cat, NEW o, Plan(cat, o), Catalogue(cat), NEW T, T \subseteq o.todo, Going(d, cat, At(o, T))
    PROVE  /\ Underway(d, cat, At(o, T)) => Underway(d, cat, o)
           /\ Committed(d, cat, At(o, T)) => Committed(d, cat, o)
<1>1. o \in Ops
      BY PlanFacts
<1>2. T \subseteq 1 .. LastSector
      BY <1>1 DEF Ops
<1> DEFINE u == At(o, T)
<1>3. u.kind = o.kind /\ u.name = o.name /\ u.file = o.file /\ u.as = o.as /\ u.phase = o.phase
      BY <1>1, <1>2, AtIs
<1>4. Going(d, cat, u) /\ Going(d, cat, o)
      BY GoingGrows
<1> HIDE DEF u
<1>5. Committed(d, cat, u) <=> Committed(d, cat, o)
  <2>1. After(cat, u) = After(cat, o)
        BY <1>3 DEF After
  <2> QED
        BY <1>3, <2>1 DEF Committed
<1>6. ASSUME Underway(d, cat, u)
      PROVE  Underway(d, cat, o)
  <2>1. ~Committed(d, cat, u)
        BY <1>4, <1>6, Exclusive
  <2>2. Underway(d, cat, o) \/ Committed(d, cat, o)
        BY <1>4 DEF Going
  <2> QED
        BY <1>5, <2>1, <2>2
<1> QED
      BY <1>5, <1>6 DEF u

(* What the staging of a sector leaves of the bytes: refused, it is as if  *)
(* the sector was not sent.                                                *)
Staging(d, s, cat, o, x) ==
    /\ s.error => Bytes(s, cat, o)
    /\ ~s.error => Bytes(s, cat, At(o, o.todo \ {x}))
    /\ o.kind # "update" /\ ~o.stale => HostSame(d, s)
    /\ d.io.ok /\ s.error => d.io.fault > 0
    /\ d.io.ok /\ d.io.fault = 0 => s.io.fault = 0

(* The staging of a data or map sector. *)
LEMMA SectorBytes ==
    ASSUME NEW d, NEW cat, NEW o, Going(d, cat, o), d.error = FALSE, Bytes(d, cat, o), Prefixed(cat, o),
           NEW x, x \in o.todo, x # Dir, InOrder(d, o, x)
    PROVE  Staging(d, Stage(d, x, SectorImage(o, x)), cat, o, x)
<1> DEFINE c == SectorImage(o, x)
           s == Stage(d, x, c)
           g == Noted(d, x, c)
           T == o.todo \ {x}
           u == At(o, T)
<1>1. Catalogue(cat) /\ Plan(cat, o) /\ Image(d) /\ o \in Ops /\ Sound(o.file)
      BY PlanFacts DEF Going
<1>2. x \in Sectors
  <2>1. o.todo \subseteq {Dir} \cup SectorsOf(o.file) /\ Sound(o.file)
        BY <1>1, PlanFacts
  <2> QED
        BY <2>1, SoundFacts
<1>3. CASE ~d.io.ok
  <2>1. s = Failed(d, d.io)
        BY <1>3 DEF Stage, Fail
  <2> HIDE DEF s
  <2>0. Storage(d.io, DOMAIN d.io.host)
        BY <1>1, ImageStorage
  <2>2. Same(d, s) /\ s.error = TRUE /\ s.io = d.io
        BY <1>1, <2>0, <2>1, FailedIs
  <2>3. (Underway(d, cat, o) /\ Underway(s, cat, o)) \/ (Committed(d, cat, o) /\ Committed(s, cat, o))
        BY <2>2, SameUnderway, SameCommitted DEF Going
  <2>4. s.pendingSectorWrites = d.pendingSectorWrites /\ s.io.host = d.io.host
        BY <2>2 DEF Same
  <2>5. Bytes(s, cat, o)
        BY <2>3, <2>4, BytesShift
  <2>6. HostSame(d, s)
        BY <2>2 DEF HostSame
  <2> QED
        BY <1>3, <2>2, <2>5, <2>6 DEF Staging, s, c
<1>4. CASE d.io.ok
  <2>1. s = WriteThrough(g, x)
        BY <1>4 DEF Stage, Noted
  <2> HIDE DEF s, g
  <2>2. Overlaid(d, g, x, c) /\ g.error = FALSE /\ g.io = d.io
        BY <1>1, <1>2, NotedOverlay DEF g
  <2>3. /\ Going(g, cat, u)
        /\ Underway(d, cat, o) => Underway(g, cat, u)
        /\ Committed(d, cat, o) => Committed(g, cat, u)
        BY <2>2, SectorStored DEF c
  <2>4. Image(g) /\ \E k : Catalogue(k) /\ Layout(g, k)
        BY <2>3, LaidOut DEF Going
  <2>5. Same(g, s)
        BY <2>1, <2>4, WriteThroughIs
  <2>6. Going(s, cat, u) /\ (Underway(g, cat, u) => Underway(s, cat, u)) /\ (Committed(g, cat, u) => Committed(s, cat, u))
    <3> HIDE DEF u
    <3> QED
        BY <2>3, <2>5, SameGoes, SameUnderway, SameCommitted
  <2>7. T \subseteq o.todo
        OBVIOUS
  <2>8. (Underway(s, cat, u) => Underway(s, cat, o)) /\ (Committed(s, cat, u) => Committed(s, cat, o))
    <3> HIDE DEF T
    <3> QED
        BY <1>1, <2>6, <2>7, StateGrows
  <2>9. Overlaid(d, s, x, c)
        BY <2>2, <2>5 DEF Overlaid, Same
  <2>10. Papered(d, s, cat, o, x)
         BY <2>9, OverlayBytes DEF c
  <2>11. Housed(d, s, cat, o, x)
    <3>1. Staged(d, g, cat, o, x)
          BY <2>2 DEF Staged, c
    <3> QED
          BY <2>1, <3>1, SectorHoused
  <2>12. /\ Unsure(o) \ {x} \subseteq Unsure(u) /\ u.kind = o.kind /\ u.name = o.name /\ u.file = o.file /\ u.as = o.as
    <3>1. T \subseteq 1 .. LastSector
          BY <1>1 DEF Ops
    <3>2. T = o.todo \ {x}
          OBVIOUS
    <3> HIDE DEF T
    <3>3. u.kind = o.kind /\ u.name = o.name /\ u.file = o.file /\ u.as = o.as
      <4>1. o \in Ops
            BY <1>1
      <4> QED
          BY ONLY <3>1, <4>1, AtIs
    <3>4. Unsure(o) \ {x} \subseteq Unsure(u)
          BY <1>1, <2>7, <3>2, UnsureAt
    <3> QED
          BY <3>3, <3>4
  <2>13. o.kind \in Outputs \cup {"update"} /\ s.error \in BOOLEAN
    <3>1. Staged(d, g, cat, o, x)
          BY <2>2 DEF Staged, c
    <3> QED
          BY <2>6, <3>1, StagedFinds DEF Going, Image
  <2>14. Underway(d, cat, o) \/ Committed(d, cat, o)
         BY DEF Going
  <2> HIDE DEF u, T, c
  <2>15. ~s.error => Bytes(s, cat, u)
         BY <1>1, <2>3, <2>6, <2>10, <2>11, <2>12, <2>13, <2>14, Carries
  <2>16. s.error => Bytes(s, cat, o)
    <3>1. (Underway(d, cat, o) /\ Underway(s, cat, o)) \/ (Committed(d, cat, o) /\ Committed(s, cat, o))
          BY <2>3, <2>6, <2>8, <2>14
    <3>2. Unsure(o) \ {x} \subseteq Unsure(o) /\ Unsure(o) \subseteq Unsure(o)
          OBVIOUS
    <3> QED
          BY <1>1, <2>10, <2>11, <2>13, <3>1, <3>2, Carries
  <2> QED
        BY <2>11, <2>15, <2>16 DEF Staging, Housed, s, c, u, T
<1> QED
      BY <1>3, <1>4

-----------------------------------------------------------------------------
(* A write, for the bytes. *)

(* The bytes of its host file that a file's k-th sector is read from. *)
Extent(f, k) == Min({k * SectorSize, Len(f.bytes)})

(* A data sector that is not in the overlay is read from the host. *)
LEMMA FromHost ==
    ASSUME NEW d, Image(d), NEW cat, Catalogue(cat), Layout(d, cat), NEW n \in DOMAIN cat,
           NEW k \in 1 .. Len(cat[n].data), NEW x, x = cat[n].data[k], x \notin DOMAIN d.pendingSectorWrites
    PROVE  /\ x \in DOMAIN d.dataRefs /\ d.files[d.dataRefs[x].file] = Record(n, cat[n])
           /\ d.io.host[cat[n].host] \in Seq(Int) /\ Len(d.io.host[cat[n].host]) >= Extent(cat[n], k) =>
                ReadSector(d, x) = Block(SubSeq(d.io.host[cat[n].host], 1, Extent(cat[n], k)), k)
<1> DEFINE F == cat[n]
           h == F.host
           b == d.io.host[h]
           u == Extent(F, k)
<1>1. Sound(F) /\ \A m \in DOMAIN cat \ {n} : Apart(F, cat[m])
      BY DEF Catalogue
<1>2. x \in Elems(F.data)
      BY <1>1, SectorsAt
<1>3. x \in DOMAIN d.dataRefs
      BY <1>2 DEF Layout
<1>4. \E m \in DOMAIN cat, i \in DOMAIN d.files : \E j \in 1 .. Len(cat[m].data) :
          /\ d.files[i] = Record(m, cat[m]) /\ x = cat[m].data[j] /\ d.dataRefs[x] = [file |-> i, at |-> j]
      BY <1>3, RefIs
<1>5. PICK m \in DOMAIN cat, i \in DOMAIN d.files : \E j \in 1 .. Len(cat[m].data) :
          /\ d.files[i] = Record(m, cat[m]) /\ x = cat[m].data[j] /\ d.dataRefs[x] = [file |-> i, at |-> j]
      BY <1>4
<1>6. PICK j \in 1 .. Len(cat[m].data) :
          d.files[i] = Record(m, cat[m]) /\ x = cat[m].data[j] /\ d.dataRefs[x] = [file |-> i, at |-> j]
      BY <1>5
<1>7. m = n
  <2>1. x \in Elems(cat[m].data)
    <3>1. Sound(cat[m])
          BY DEF Catalogue
    <3> QED
          BY <1>6, <3>1, SectorsAt
  <2> QED
        BY <1>1, <1>2, <2>1 DEF Apart, SectorsOf
<1>8. j = k
  <2>1. Distinct(F.data) /\ F.data[j] = F.data[k] /\ j \in 1 .. Len(F.data)
        BY <1>1, <1>6, <1>7 DEF Sound
  <2> QED
        BY <2>1 DEF Distinct
<1>9. d.dataRefs[x].file = i /\ d.dataRefs[x].at = k /\ d.files[i] = Record(n, F)
      BY <1>6, <1>7, <1>8
<1>10. x \notin DOMAIN d.metadata
  <2>1. \A a \in DOMAIN cat : x \notin Elems(cat[a].maps)
        BY <1>1, <1>2, SoundFacts DEF Apart, SectorsOf
  <2> QED
        BY <2>1 DEF Layout
<1>11. d.files[d.dataRefs[x].file].hostName = h /\ d.files[d.dataRefs[x].file].length = Len(F.bytes)
       BY <1>1, <1>9, RecordIs
<1>12. ReadSector(d, x) = IF Len(b) < u THEN <<>> ELSE Block(SubSeq(b, 1, u), k)
       BY <1>3, <1>9, <1>10, <1>11 DEF ReadSector, Extent
<1>13. u \in Nat
    <3>1. Len(F.bytes) \in Nat /\ k * SectorSize \in Nat
          BY <1>1, Sizes, SoundFacts
    <3> DEFINE p == k * SectorSize
    <3>2. p \in Int /\ Len(F.bytes) \in Int /\ p \in Nat
          BY <3>1
    <3> HIDE DEF p
    <3>3. Min({p, Len(F.bytes)}) = IF p <= Len(F.bytes) THEN p ELSE Len(F.bytes)
          BY <3>2, MinOfTwo
    <3> QED
          BY <3>1, <3>2, <3>3 DEF Extent, p
<1> QED
      BY <1>3, <1>9, <1>12, <1>13

(* The extent of a sector. *)
LEMMA ExtentIs ==
    ASSUME NEW f, Sound(f), NEW k \in 1 .. Len(f.data)
    PROVE  /\ Extent(f, k) \in Nat /\ Extent(f, k) <= Len(f.bytes)
           /\ Block(SubSeq(f.bytes, 1, Extent(f, k)), k) = Block(f.bytes, k)
<1> DEFINE b == f.bytes
           p == k * SectorSize
           q == (k - 1) * SectorSize
           u == Extent(f, k)
<1>1. b \in Seq(Int) /\ Len(b) \in Nat /\ k \in Nat \ {0} /\ SectorSize \in Nat \ {0}
      BY Sizes, SoundFacts
<1>2. p \in Nat /\ q \in Nat /\ p = q + SectorSize
  <2> HIDE DEF b
  <2> QED
      BY <1>1
<1>3. u = IF p <= Len(b) THEN p ELSE Len(b)
  <2>1. p \in Int /\ Len(b) \in Int
        BY <1>1, <1>2
  <2> HIDE DEF p
  <2>2. Min({p, Len(b)}) = IF p <= Len(b) THEN p ELSE Len(b)
        BY <2>1, MinOfTwo
  <2> QED
        BY <2>2 DEF Extent, p
<1> HIDE DEF u
<1>4. u \in Nat /\ u <= Len(b)
  <2> HIDE DEF p, b
  <2> QED
      BY <1>1, <1>2, <1>3
<1> DEFINE s == SubSeq(b, 1, u)
<1>5. Len(s) = u /\ \A j \in 1 .. u : s[j] = b[j]
  <2> HIDE DEF b
  <2> QED
      BY <1>1, <1>4
<1> HIDE DEF s
<1>6. \A i \in 1 .. SectorSize :
         (IF q + i <= Len(s) THEN s[q + i] ELSE 0) = (IF q + i <= Len(b) THEN b[q + i] ELSE 0)
  <2> HIDE DEF b, p, q
  <2> TAKE i \in 1 .. SectorSize
  <2>1. q + i <= u <=> q + i <= Len(b)
        BY <1>1, <1>2, <1>3
  <2>2. q + i \in Nat \ {0}
        BY <1>1, <1>2
  <2>3. q + i <= u => s[q + i] = b[q + i]
        BY <1>4, <1>5, <2>2
  <2> QED
        BY <1>5, <2>1, <2>3
<1>7. Block(s, k) = Block(b, k)
      BY <1>6 DEF Block
<1> QED
      BY <1>4, <1>7 DEF u, s

(* A file that is stored, and clean in the overlay, reads back. *)
LEMMA BlocksRead ==
    ASSUME NEW d, Image(d), NEW cat, Catalogue(cat), Layout(d, cat), NEW n \in DOMAIN cat,
           Clean(d, cat[n], {}), Stored(d, cat[n], {})
    PROVE  \A k \in DOMAIN cat[n].data : ReadSector(d, cat[n].data[k]) = Block(cat[n].bytes, k)
<1> DEFINE F == cat[n]
<1>1. Sound(F)
      BY DEF Catalogue
<1>2. F.data \in Seq(Sectors) /\ DOMAIN F.data = 1 .. Len(F.data) /\ F.bytes \in Seq(Int)
      BY <1>1, SoundFacts
<1> SUFFICES ASSUME NEW k \in 1 .. Len(F.data)
             PROVE  ReadSector(d, F.data[k]) = Block(F.bytes, k)
      BY <1>2
<1> DEFINE x == F.data[k]
<1>3. CASE x \in DOMAIN d.pendingSectorWrites
  <2>1. d.pendingSectorWrites[x] = Block(F.bytes, k)
        BY <1>3 DEF Clean
  <2> QED
        BY <1>3, <2>1 DEF ReadSector
<1>4. CASE x \notin DOMAIN d.pendingSectorWrites
  <2> DEFINE b == d.io.host[F.host]
  <2>1. b \in Seq(Int) /\ Len(b) = Len(F.bytes) /\ \A j \in 1 .. Len(F.bytes) : b[j] = F.bytes[j]
        BY DEF Stored
  <2>2. b = F.bytes
        BY <1>2, <2>1, SameBytesAre
  <2>3. Extent(F, k) <= Len(F.bytes) /\ Block(SubSeq(F.bytes, 1, Extent(F, k)), k) = Block(F.bytes, k)
        BY <1>1, ExtentIs
  <2>4. Extent(F, k) \in Nat /\ Len(b) \in Nat
        BY <1>1, <2>1, ExtentIs
  <2>5. Len(b) >= Extent(F, k)
        BY <2>1, <2>3, <2>4, SoundFacts, <1>1
  <2>6. ReadSector(d, x) = Block(SubSeq(b, 1, Extent(F, k)), k)
        BY <1>4, <2>1, <2>5, FromHost
  <2> QED
        BY <2>2, <2>3, <2>6
<1> QED
      BY <1>3, <1>4

(* The host files are as long as the catalogue has them. *)
Housing(d, cat) ==
    /\ Catalogue(cat) /\ Layout(d, cat)
    /\ \A n \in DOMAIN cat : /\ d.io.host[cat[n].host] \in Seq(Int)
                             /\ Len(d.io.host[cat[n].host]) = Len(cat[n].bytes)

(* The image in the middle of an operation houses files. *)
LEMMA HousingIs ==
    ASSUME NEW d, NEW cat, NEW o, Going(d, cat, o), Bytes(d, cat, o)
    PROVE  \E c : Housing(d, c)
<1>1. Catalogue(cat) /\ Plan(cat, o) /\ Sound(o.file) /\ o \in Ops
      BY PlanFacts DEF Going
<1>2. \A n \in DOMAIN cat \ {o.name} : /\ d.io.host[cat[n].host] \in Seq(Int)
                                       /\ Len(d.io.host[cat[n].host]) = Len(cat[n].bytes)
      BY DEF Bytes, Others, Stored
<1>3. CASE Underway(d, cat, o) /\ Early(d, cat, o)
  <2>1. Layout(d, cat)
        BY <1>3 DEF Underway
  <2>2. ASSUME o.name \in DOMAIN cat
        PROVE  /\ d.io.host[cat[o.name].host] \in Seq(Int)
               /\ Len(d.io.host[cat[o.name].host]) = Len(cat[o.name].bytes)
    <3>1. o.kind \in {"append", "replace", "erase", "rename", "update"}
      <4>1. o.kind \in Whole \cup {"append", "erase", "rename", "update"}
            BY <1>1 DEF Ops
      <4>2. o.kind # "create"
            BY <1>1, <2>2, PlanFacts
      <4> QED
            BY <4>1, <4>2 DEF Whole
    <3>2. CASE o.kind = "update"
      <4>1. Stored(d, o.file, Unsure(o))
            BY <1>3, <3>2 DEF Early
      <4>2. o.file.host = cat[o.name].host /\ Len(o.file.bytes) = Len(cat[o.name].bytes)
            BY <1>1, <3>2, PlanFacts DEF Plan
      <4> QED
            BY <4>1, <4>2 DEF Stored
    <3>3. CASE o.kind # "update"
      <4>1. Stored(d, cat[o.name], {})
            BY <1>3, <3>1, <3>3 DEF Early
      <4> QED
            BY <4>1 DEF Stored
    <3> QED
          BY <3>2, <3>3
  <2>3. Housing(d, cat)
        BY <1>1, <1>2, <2>1, <2>2 DEF Housing
  <2> QED
        BY <2>3
<1>4. CASE Committed(d, cat, o) /\ Late(d, cat, o)
  <2>1. After(cat, o) = Put(cat, o.name, o.file) /\ o.kind # "rename" /\ Layout(d, After(cat, o))
        BY <1>4 DEF Committed, After, Outputs, Whole
  <2>2. Catalogue(After(cat, o))
    <3>1. Fits(cat, o.name, o.file)
          BY <1>1, <2>1, PlanFacts
    <3> QED
          BY <1>1, <2>1, <3>1, PutCatalogue
  <2> DEFINE c == After(cat, o)
  <2>3. DOMAIN c = DOMAIN cat \cup {o.name} /\ c[o.name] = o.file /\ \A n \in DOMAIN cat \ {o.name} : c[n] = cat[n]
        BY <2>1 DEF Put
  <2>4. d.io.host[o.file.host] \in Seq(Int) /\ Len(d.io.host[o.file.host]) = Len(o.file.bytes)
        BY <1>4 DEF Late, Stored
  <2> HIDE DEF c
  <2>5. Housing(d, c)
        BY <1>2, <2>1, <2>2, <2>3, <2>4 DEF Housing, c
  <2> QED
        BY <2>5
<1> QED
      BY <1>3, <1>4 DEF Bytes, Doing

(* A block is not what a short read returns. *)
LEMMA BlockThere ==
    ASSUME NEW b, NEW k
    PROVE  Block(b, k) # <<>>
<1>1. DOMAIN Block(b, k) = 1 .. SectorSize
      BY DEF Block
<1>2. SectorSize \in Nat \ {0}
      BY Sizes
<1>3. 1 \in 1 .. SectorSize /\ 1 \notin DOMAIN <<>>
      BY <1>2
<1> QED
      BY <1>1, <1>3

(* Without a fault the read before a write works. *)
LEMMA AccessWorks ==
    ASSUME NEW d, Image(d), NEW cat, Housing(d, cat), d.io.ok = TRUE, d.io.fault = 0, NEW x
    PROVE  Access(d, x).ok = TRUE /\ Access(d, x).fault = 0
<1> DEFINE H == DOMAIN d.io.host
           h == d.files[d.dataRefs[x].file].hostName
           o == Open(d.io, h)
           w == ReadSector(d, x) # <<>>
<1>1. Storage(d.io, H)
      BY ImageStorage
<1>2. CASE x \notin DOMAIN d.dataRefs \/ x \in DOMAIN d.pendingSectorWrites
  <2>1. Access(d, x) = d.io
        BY <1>2 DEF Access
  <2> QED
        BY <2>1
<1>3. CASE x \in DOMAIN d.dataRefs /\ x \notin DOMAIN d.pendingSectorWrites
  <2>1. Catalogue(cat) /\ Layout(d, cat)
        BY DEF Housing
  <2>2. \E n \in DOMAIN cat, i \in DOMAIN d.files : \E k \in 1 .. Len(cat[n].data) :
            /\ d.files[i] = Record(n, cat[n]) /\ x = cat[n].data[k] /\ d.dataRefs[x] = [file |-> i, at |-> k]
        BY <1>3, <2>1, RefIs
  <2>3. PICK n \in DOMAIN cat : \E k \in 1 .. Len(cat[n].data) : x = cat[n].data[k]
        BY <2>2
  <2>4. PICK k \in 1 .. Len(cat[n].data) : x = cat[n].data[k]
        BY <2>3
  <2> DEFINE F == cat[n]
             b == d.io.host[F.host]
  <2>5. Sound(F) /\ b \in Seq(Int) /\ Len(b) = Len(F.bytes)
        BY <2>1 DEF Housing, Catalogue
  <2>6. Extent(F, k) <= Len(F.bytes)
        BY <2>4, <2>5, ExtentIs
  <2>7. Len(b) >= Extent(F, k)
        BY <2>5, <2>6
  <2>8. /\ d.files[d.dataRefs[x].file] = Record(n, F)
        /\ ReadSector(d, x) = Block(SubSeq(b, 1, Extent(F, k)), k)
        BY <1>3, <2>1, <2>4, <2>5, <2>7, FromHost
  <2>9. h = F.host /\ h \in H
    <3>1. h = F.host
          BY <2>5, <2>8, RecordIs
    <3> QED
          BY <2>1, <3>1, HostsAre
  <2>10. w = TRUE
         BY <2>8, BlockThere
  <2> HIDE DEF h, H, w
  <2>11. Storage(o, H) /\ o.ok /\ o.fault = 0
         BY <1>1, <2>9, OpenIs
  <2> HIDE DEF o
  <2>12. Access(d, x) = Call(o, "pread", w)
         BY <1>3, <2>11 DEF Access, o, h, w
  <2>13. Access(d, x) = Call(o, "pread", TRUE)
         BY <2>10, <2>12
  <2>14. /\ Storage(Call(o, "pread", TRUE), H)
         /\ Call(o, "pread", TRUE).ok /\ Call(o, "pread", TRUE).fault = 0
         BY <2>11, ReadIs
  <2> QED
        BY <2>13, <2>14 DEF Storage
<1> QED
      BY <1>2, <1>3

(* The image when the content of a write is staged: its bytes are those    *)
(* from before, and without a fault its read has worked.                   *)
Readied(d, g, cat, o, f) ==
    /\ Going(g, cat, o) /\ Bytes(g, cat, o) /\ HostSame(d, g) /\ g.error = FALSE
    /\ f = 0 => g.io.ok = TRUE /\ g.io.fault = 0

(* The read before a write leaves the bytes as they were. *)
LEMMA StartedBytes ==
    ASSUME NEW d, NEW cat, NEW o, Going(d, cat, o), Bytes(d, cat, o), NEW x, NEW f \in Nat
    PROVE  Readied(d, Started(d, x, f), cat, o, f)
<1> DEFINE b == Begun(d, f)
           g == Started(d, x, f)
<1>1. Image(d)
      BY DEF Going
<1>2. Same(d, b) /\ b.error = FALSE /\ b.io.ok = TRUE /\ b.io.host = d.io.host /\ b.io.fault = f
      BY <1>1, BegunIs
<1> HIDE DEF b
<1>3. Image(b) /\ Going(b, cat, o)
      BY <1>2, SameGoes DEF Same
<1>4. Storage(Access(b, x), DOMAIN b.io.host) /\ Access(b, x).host = b.io.host
      BY <1>3, AccessIs
<1>5. g = [b EXCEPT !.io = Access(b, x)]
      BY DEF Started, Accessed, b
<1> HIDE DEF g
<1>6. Same(b, g) /\ g.io = Access(b, x) /\ g.error = b.error
      BY <1>3, <1>4, <1>5, WithIo
<1>7. Going(g, cat, o)
      BY <1>3, <1>6, SameGoes
<1>8. (Underway(d, cat, o) /\ Underway(b, cat, o)) \/ (Committed(d, cat, o) /\ Committed(b, cat, o))
      BY <1>2, SameUnderway, SameCommitted DEF Going
<1>9. b.pendingSectorWrites = d.pendingSectorWrites
      BY <1>2 DEF Same
<1>10. Bytes(b, cat, o)
       BY <1>2, <1>8, <1>9, BytesShift
<1>11. (Underway(b, cat, o) /\ Underway(g, cat, o)) \/ (Committed(b, cat, o) /\ Committed(g, cat, o))
       BY <1>3, <1>6, SameUnderway, SameCommitted DEF Going
<1>12. g.pendingSectorWrites = b.pendingSectorWrites /\ g.io.host = b.io.host
       BY <1>4, <1>6 DEF Same
<1>13. Bytes(g, cat, o)
       BY <1>3, <1>10, <1>11, <1>12, BytesShift
<1>14. PICK c : Housing(b, c)
       BY <1>3, <1>10, HousingIs
<1>15. f = 0 => g.io.ok = TRUE /\ g.io.fault = 0
       BY <1>2, <1>3, <1>6, <1>14, AccessWorks
<1>16. HostSame(d, g)
       BY <1>2, <1>12 DEF HostSame
<1> QED
      BY <1>2, <1>6, <1>7, <1>13, <1>15, <1>16 DEF Readied, g

(* Bytes that hold with some sectors written hold for the operation.       *)
LEMMA BytesGrows ==
    ASSUME NEW d, NEW cat, NEW o, Plan(cat, o), NEW T, T \subseteq o.todo, Going(d, cat, At(o, T)), Bytes(d, cat, At(o, T))
    PROVE  Bytes(d, cat, o)
<1> DEFINE u == At(o, T)
<1>1. Catalogue(cat)
      BY DEF Going
<1>2. o \in Ops
      BY <1>1, PlanFacts
<1>3. T \subseteq 1 .. LastSector
      BY <1>2 DEF Ops
<1>4. u.kind = o.kind /\ u.name = o.name /\ u.file = o.file
      BY <1>2, <1>3, AtIs
<1>5. Unsure(u) \subseteq Unsure(o)
      BY <1>2, UnsureAt
<1>6. (Underway(d, cat, u) => Underway(d, cat, o)) /\ (Committed(d, cat, u) => Committed(d, cat, o))
      BY <1>1, StateGrows
<1>7. Going(d, cat, u) /\ Bytes(d, cat, u)
      OBVIOUS
<1> HIDE DEF u
<1>8. (Underway(d, cat, u) /\ Underway(d, cat, o)) \/ (Committed(d, cat, u) /\ Committed(d, cat, o))
      BY <1>6, <1>7 DEF Going
<1> QED
      BY <1>4, <1>5, <1>7, <1>8, BytesShift

(* The map sector emptied: the bytes are those of the whole file to come.  *)
LEMMA FillingBytes ==
    ASSUME NEW d, NEW cat, NEW o, Plan(cat, o), NEW T, T \subseteq o.todo, Going(d, cat, At(o, T)), o.phase = "empty",
           Bytes(d, cat, At(o, T)), Going(d, cat, Filling(o))
    PROVE  Bytes(d, cat, Filling(o))
<1> DEFINE u == At(o, T)
           w == Filling(o)
<1>1. Catalogue(cat) /\ o.kind \in Whole
      BY DEF Going, Plan
<1>2. o \in Ops /\ Sound(o.file)
      BY <1>1, PlanFacts
<1>3. T \subseteq 1 .. LastSector
      BY <1>2 DEF Ops
<1>4. u.kind = o.kind /\ u.name = o.name /\ u.file = o.file /\ u.phase = "empty" /\ u.stale = o.stale
      BY <1>2, <1>3, AtIs, UnsureAt
<1>5. /\ w.kind = o.kind /\ w.name = o.name /\ w.file = o.file /\ w.phase = "rest"
      /\ w.todo = {Dir} \cup SectorsOf(o.file)
      BY <1>1, PhasesAre
<1>6. w.stale = o.stale
      BY <1>2 DEF Filling, Ops
<1>7. Going(d, cat, u) /\ Bytes(d, cat, u) /\ Going(d, cat, w)
      OBVIOUS
<1> HIDE DEF u, w
<1>8. Unsure(u) \cap Elems(o.file.data) \subseteq Unsure(w)
      BY <1>4, <1>5, <1>6 DEF Unsure, SectorsOf
<1>9. Underway(d, cat, u)
      BY <1>4, <1>7 DEF Going, Committed
<1>10. d.directory[o.file.slot] = Opened(o.name, o.file)
       BY <1>1, <1>4, <1>9 DEF Underway, Creating, Replacing, Whole
<1>11. ~Committed(d, cat, w)
  <2>1. ASSUME Committed(d, cat, w)
        PROVE  FALSE
    <3>1. After(cat, w) = Put(cat, o.name, o.file)
          BY <1>1, <1>5 DEF After, Whole
    <3>2. After(cat, w)[o.name] = o.file
          BY <3>1 DEF Put
    <3>3. d.directory[o.file.slot] = EntryOf(o.name, o.file)
          BY <1>5, <2>1, <3>2 DEF Committed, AtRest
    <3>4. EntryOf(o.name, o.file).status = "active" /\ Opened(o.name, o.file).status = "open"
          BY DEF EntryOf, Opened
    <3> QED
          BY <1>10, <3>3, <3>4
  <2> QED
        BY <2>1
<1>12. Underway(d, cat, w)
       BY <1>7, <1>11 DEF Going
<1>13. Unsure(u) \cap Elems(u.file.data) \subseteq Unsure(w) /\ w.kind = u.kind /\ w.name = u.name /\ w.file = u.file
       BY <1>4, <1>5, <1>8
<1>14. (Underway(d, cat, u) /\ Underway(d, cat, w)) \/ (Committed(d, cat, u) /\ Committed(d, cat, w))
       BY <1>9, <1>12
<1>15. d.pendingSectorWrites = d.pendingSectorWrites /\ d.io.host = d.io.host
       OBVIOUS
<1>16. Bytes(d, cat, w)
       BY ONLY <1>7, <1>13, <1>14, <1>15, BytesShift
<1> QED
      BY <1>16 DEF w

(* All of the file committed, the files are at rest byte for byte. *)
LEMMA CommittedRested ==
    ASSUME NEW d, NEW cat, NEW o, Plan(cat, o), Going(d, cat, At(o, {})), Bytes(d, cat, At(o, {})),
           Committed(d, cat, At(o, {})), o.phase = "rest"
    PROVE  Tidy(d.io) /\ Rested(d, After(cat, o))
<1> DEFINE u == At(o, {})
           c == After(cat, o)
<1>1. Catalogue(cat)
      BY DEF Going
<1>2. o \in Ops
      BY <1>1, PlanFacts
<1>3. u.kind = o.kind /\ u.name = o.name /\ u.file = o.file /\ u.as = o.as /\ u.phase = "rest" /\ u.todo = {}
      BY <1>2, AtIs
<1>4. Going(d, cat, u) /\ Bytes(d, cat, u) /\ Committed(d, cat, u)
      OBVIOUS
<1> HIDE DEF u
<1>5. Late(d, cat, u) /\ Tidy(d.io) /\ Others(d, cat, o.name)
      BY <1>3, <1>4, Exclusive DEF Bytes, Doing
<1>6. c = Put(cat, o.name, o.file) /\ After(cat, u) = c
      BY <1>3, <1>4 DEF Committed, After, Outputs, Whole
<1>7. DOMAIN c = DOMAIN cat \cup {o.name} /\ c[o.name] = o.file /\ \A m \in DOMAIN cat \ {o.name} : c[m] = cat[m]
      BY <1>6 DEF Put
<1> HIDE DEF c
<1>8. Unsure(u) = {}
      BY <1>3 DEF Unsure
<1>9. Typed(d, MapsIn(c)) /\ Clean(d, o.file, {}) /\ Stored(d, o.file, {})
      BY <1>3, <1>5, <1>6, <1>8 DEF Late
<1>10. \A m \in DOMAIN c : Clean(d, c[m], {}) /\ Stored(d, c[m], {})
       BY <1>5, <1>7, <1>9 DEF Others
<1> QED
      BY <1>5, <1>9, <1>10 DEF Rested, c

(* So they are when the sectors of an update are written. *)
LEMMA UpdatedRested ==
    ASSUME NEW d, NEW cat, NEW o, Plan(cat, o), Going(d, cat, At(o, {})), Bytes(d, cat, At(o, {})), o.kind = "update"
    PROVE  Tidy(d.io) /\ Rested(d, After(cat, o))
<1> DEFINE u == At(o, {})
           c == After(cat, o)
<1>1. Catalogue(cat)
      BY DEF Going
<1>2. o \in Ops /\ o.name \in DOMAIN cat /\ o.phase = "rest" /\ o.file.maps = cat[o.name].maps
      BY <1>1, PlanFacts DEF Plan, Whole
<1>3. u.kind = o.kind /\ u.name = o.name /\ u.file = o.file /\ u.as = o.as /\ u.phase = "rest" /\ u.todo = {}
      BY <1>2, AtIs
<1>4. Bytes(d, cat, u)
      OBVIOUS
<1> HIDE DEF u
<1>5. Early(d, cat, u) /\ Tidy(d.io) /\ Others(d, cat, o.name)
      BY <1>3, <1>4 DEF Bytes, Doing, Committed, Outputs, Whole
<1>6. c = Put(cat, o.name, o.file)
      BY DEF After
<1>7. DOMAIN c = DOMAIN cat /\ c[o.name] = o.file /\ \A m \in DOMAIN cat \ {o.name} : c[m] = cat[m]
      BY <1>2, <1>6 DEF Put
<1> HIDE DEF c
<1>8. Unsure(u) = {}
      BY <1>3 DEF Unsure
<1>9. Typed(d, MapsIn(cat) \cup Elems(o.file.maps)) /\ Clean(d, o.file, {}) /\ Stored(d, o.file, {})
      BY <1>3, <1>5, <1>8 DEF Early
<1>10. MapsIn(cat) \cup Elems(o.file.maps) \subseteq MapsIn(c)
  <2>1. \A m \in DOMAIN c : c[m].maps = cat[m].maps
        BY <1>2, <1>7
  <2> QED
        BY <1>2, <1>7, <2>1 DEF MapsIn
<1>11. Typed(d, MapsIn(c))
       BY <1>9, <1>10 DEF Typed
<1>12. \A m \in DOMAIN c : Clean(d, c[m], {}) /\ Stored(d, c[m], {})
       BY <1>5, <1>7, <1>9 DEF Others
<1> QED
      BY <1>5, <1>11, <1>12 DEF Rested, c

(* What a write of the sector x, with its f-th storage call failing,       *)
(* leaves of the bytes of the operation o.                                 *)
Wrote(d, e, cat, o, x, f) ==
    /\ f = 0 => e.error = FALSE
    /\ e.error => Bytes(e, cat, o) /\ (o.kind # "update" /\ ~o.stale => HostSame(d, e))
    /\ ~e.error /\ o.todo \ {x} # {} => Bytes(e, cat, At(o, o.todo \ {x}))
    /\ ~e.error /\ o.todo \ {x} = {} =>
        /\ o.phase = "open" => Bytes(e, cat, Emptying(o))
        /\ o.phase = "empty" => Bytes(e, cat, Filling(o))
        /\ o.phase = "rest" => Tidy(e.io) /\ Rested(e, After(cat, o))

(* The image s the content of a write was staged in, before its commits.   *)
CommitsFrom(d, s, cat, o, x, f) ==
    /\ Going(s, cat, At(o, o.todo \ {x})) /\ Bytes(s, cat, At(o, o.todo \ {x})) /\ s.error = FALSE
    /\ f = 0 => s.io.fault = 0 \/ NoPending(s)
    /\ o.kind # "update" /\ ~o.stale => HostSame(d, s) \/ NoPending(s)

(* The commits after it. *)
LEMMA CommitsWrote ==
    ASSUME SdfsGuest, SdfsStorage, NEW d, NEW s, NEW cat, NEW o, Plan(cat, o), Prefixed(cat, o), o.kind \in Kinds,
           NEW x, x \in o.todo, NEW f, CommitsFrom(d, s, cat, o, x, f),
           o.phase = "rest" \/ (o.phase = "empty" /\ o.todo \ {x} # {}), o.kind \in Outputs \cup {"update"}
    PROVE  Wrote(d, Commits(s), cat, o, x, f)
<1> DEFINE T == o.todo \ {x}
           u == At(o, T)
           e == Commits(s)
<1>0. Going(s, cat, u) /\ Bytes(s, cat, u) /\ s.error = FALSE
      BY DEF CommitsFrom
<1>1. Catalogue(cat)
      BY <1>0 DEF Going
<1>2. o \in Ops /\ T \subseteq o.todo
      BY <1>1, PlanFacts
<1>3. T \subseteq 1 .. LastSector
      BY <1>2 DEF Ops
<1>4. u.kind = o.kind /\ u.phase = o.phase /\ u.todo = T /\ u.name = o.name /\ u.file = o.file
  <2> HIDE DEF T
  <2> QED
      BY <1>2, <1>3, AtIs
<1>5. Outcome(s, e, cat, u) /\ BytesOutcome(s, e, cat, u)
  <2> HIDE DEF u, T
  <2>1. Outcome(s, e, cat, u)
        BY <1>0, CommitsGoing
  <2>2. u.kind \in Kinds /\ Prefixed(cat, u)
        BY <1>4 DEF Prefixed
  <2>3. BytesOutcome(s, e, cat, u)
        BY <1>0, <2>2, CommitsBytes
  <2> QED
        BY <2>1, <2>3
<1>6. NoPending(s) => e.error = FALSE
      BY <1>0, CommitsNone
<1> HIDE DEF e
<1>7. Going(e, cat, u) /\ Bytes(e, cat, u)
      BY <1>5 DEF Outcome, BytesOutcome
<1>8. e.error \in BOOLEAN /\ s.io.fault \in Nat
      BY <1>0, <1>7 DEF Going, Image
<1>9. f = 0 => e.error = FALSE
      BY <1>5, <1>6, <1>8 DEF Outcome, CommitsFrom
<1>10. e.error => Bytes(e, cat, o) /\ (o.kind # "update" /\ ~o.stale => HostSame(d, e))
  <2> SUFFICES ASSUME e.error
               PROVE  Bytes(e, cat, o) /\ (o.kind # "update" /\ ~o.stale => HostSame(d, e))
        OBVIOUS
  <2>1. Bytes(e, cat, o)
    <3> HIDE DEF T
    <3> QED
        BY <1>2, <1>7, BytesGrows
  <2>2. HostSame(s, e) /\ ~NoPending(s)
        BY <1>5, <1>6 DEF BytesOutcome
  <2>3. HostSame(d, s) => HostSame(d, e)
        BY <2>2 DEF HostSame
  <2> QED
        BY <2>1, <2>2, <2>3 DEF CommitsFrom
<1>11. ASSUME ~e.error, T = {}, o.phase = "rest"
       PROVE  Tidy(e.io) /\ Rested(e, After(cat, o))
  <2>1. u = At(o, {})
        BY <1>11
  <2>2. CASE o.kind = "update"
        BY <1>7, <2>1, <2>2, UpdatedRested
  <2>3. CASE o.kind \in Outputs
    <3>1. Committed(e, cat, u)
      <4> HIDE DEF u, T
      <4> QED
          BY <1>4, <1>5, <1>11, <2>3 DEF Outcome
    <3> QED
          BY <1>7, <1>11, <2>1, <3>1, CommittedRested
  <2> QED
        BY <2>2, <2>3
<1> QED
      BY <1>7, <1>9, <1>10, <1>11 DEF Wrote, e

(* A write of a data or map sector. *)
LEMMA SectorWrote ==
    ASSUME SdfsGuest, SdfsStorage, NEW d, NEW cat, NEW o, Going(d, cat, o), Bytes(d, cat, o), Prefixed(cat, o),
           o.kind \in Kinds, NEW x, x \in o.todo, x # Dir, InOrder(d, o, x), NEW f \in Nat
    PROVE  Wrote(d, Write(d, x, SectorImage(o, x), f), cat, o, x, f)
<1> DEFINE g == Started(d, x, f)
           s == Stage(g, x, SectorImage(o, x))
           w == Write(d, x, SectorImage(o, x), f)
           T == o.todo \ {x}
<1>1. Catalogue(cat) /\ Plan(cat, o)
      BY DEF Going
<1>2. o \in Ops /\ Sound(o.file)
      BY <1>1, PlanFacts
<1>3. Readied(d, g, cat, o, f)
      BY StartedBytes
<1>0. InOrder(g, o, x)
  <2>1. Image(d)
        BY DEF Going
  <2> QED
        BY <2>1, StartedOrder
<1>4. w = IF s.error THEN s ELSE Commits(s)
      BY WriteIs
<1>5. /\ s.error => Going(s, cat, o)
      /\ ~s.error => Going(s, cat, At(o, T))
      /\ ~s.error => x \in DOMAIN s.pendingSectorWrites /\ s.pendingSectorWrites[x] = SectorImage(o, x)
  <2> HIDE DEF g
  <2>1. Going(g, cat, o) /\ g.error = FALSE
        BY <1>3 DEF Readied
  <2> QED
        BY <1>0, <2>1, SectorGoing
<1>6. Staging(g, s, cat, o, x)
  <2> HIDE DEF g
  <2>1. Going(g, cat, o) /\ Bytes(g, cat, o) /\ g.error = FALSE
        BY <1>3 DEF Readied
  <2> QED
        BY <1>0, <2>1, SectorBytes
<1> HIDE DEF g, s, w
<1>7. s.error \in BOOLEAN
      BY <1>5 DEF Going, Image
<1>8. o.phase # "open" /\ o.kind \in Outputs \cup {"update"} /\ o.phase \in {"empty", "rest"}
      BY <1>1, <1>2 DEF Plan, Ops, Outputs, Whole
<1>9. HostSame(g, s) => HostSame(d, s)
      BY <1>3 DEF Readied, HostSame
<1>10. f = 0 => s.error = FALSE /\ s.io.fault = 0
  <2>1. f = 0 => g.io.ok = TRUE /\ g.io.fault = 0
        BY <1>3 DEF Readied
  <2> QED
        BY <1>6, <1>7, <2>1 DEF Staging
<1>11. o.kind # "update" /\ ~o.stale => HostSame(d, s)
       BY <1>6, <1>9 DEF Staging
<1>12. CASE s.error
  <2>1. Bytes(s, cat, o)
        BY <1>6, <1>12 DEF Staging
  <2> QED
        BY <1>4, <1>7, <1>10, <1>11, <1>12, <2>1 DEF Wrote, w
<1>13. CASE ~s.error
  <2>1. s.error = FALSE /\ Going(s, cat, At(o, T)) /\ Bytes(s, cat, At(o, T)) /\ w = Commits(s)
        BY <1>4, <1>5, <1>6, <1>7, <1>13 DEF Staging
  <2>2. CommitsFrom(d, s, cat, o, x, f)
        BY <1>10, <1>11, <2>1 DEF CommitsFrom
  <2>3. CASE o.phase = "rest" \/ T # {}
    <3>1. o.phase = "rest" \/ (o.phase = "empty" /\ o.todo \ {x} # {})
          BY <1>8, <2>3
    <3>2. Wrote(d, Commits(s), cat, o, x, f)
          BY <1>1, <1>8, <2>2, <3>1, CommitsWrote
    <3> QED
          BY <2>1, <3>2 DEF w
  <2>4. CASE o.phase = "empty" /\ T = {}
    <3>1. T \subseteq 1 .. LastSector
          BY <2>4
    <3>2. At(o, T).phase = "empty"
      <4> HIDE DEF T
      <4> QED
          BY <1>2, <2>4, <3>1, AtIs
    <3>3. Commits(s) = s
          BY <2>1, <3>2, CommitsQuiet
    <3>4. x = o.file.maps[1]
          BY <1>1, <2>4 DEF Plan
    <3>5. SectorImage(o, x) = EmptyMap
      <4>1. x \in Elems(o.file.maps)
            BY <1>2, <3>4, SoundFacts
      <4> QED
            BY <2>4, <4>1 DEF SectorImage
    <3>6. T \subseteq o.todo
          OBVIOUS
    <3>7. o.file.maps[1] \in DOMAIN s.pendingSectorWrites /\ s.pendingSectorWrites[o.file.maps[1]] = EmptyMap
          BY <1>5, <2>1, <3>4, <3>5
    <3> HIDE DEF T
    <3>8. Going(s, cat, Filling(o))
          BY <1>1, <2>1, <2>4, <3>6, <3>7, FillingGoes
    <3>9. Bytes(s, cat, Filling(o))
          BY <1>1, <2>1, <2>4, <3>6, <3>8, FillingBytes
    <3> QED
          BY <2>1, <2>4, <3>3, <3>9 DEF Wrote, w, T
  <2> QED
        BY <1>8, <2>3, <2>4
<1> QED
      BY <1>7, <1>12, <1>13

(* The sectors an operation is not sure of once its directory sector is    *)
(* written.                                                                *)
LEMMA UnsureThen ==
    ASSUME NEW cat, Catalogue(cat), NEW o, Plan(cat, o)
    PROVE  /\ Unsure(o) \cap Elems(o.file.data) \subseteq Unsure(Then(o))
           /\ o.kind \in Whole /\ o.phase = "open" => Unsure(o) \cap Elems(o.file.data) \subseteq Unsure(Emptying(o))
<1>1. o \in Ops /\ Sound(o.file)
      BY PlanFacts
<1>2. Dir \notin Elems(o.file.data)
      BY <1>1, SoundFacts
<1>3. Unsure(o) \cap Elems(o.file.data) \subseteq Unsure(Then(o))
  <2> DEFINE T == o.todo \ {Dir}
  <2>1. T \subseteq o.todo /\ T = o.todo \ {Dir}
        OBVIOUS
  <2> HIDE DEF T
  <2>2. Unsure(o) \ {Dir} \subseteq Unsure(At(o, T))
        BY <1>1, <2>1, UnsureAt
  <2> QED
        BY <1>2, <2>2 DEF Then, T
<1>4. ASSUME o.kind \in Whole, o.phase = "open"
      PROVE  Unsure(o) \cap Elems(o.file.data) \subseteq Unsure(Emptying(o))
  <2> DEFINE u == Emptying(o)
  <2>1. u.kind = o.kind /\ u.file = o.file /\ u.phase = "empty"
        BY <1>4, PhasesAre
  <2>2. u.stale = o.stale
        BY <1>1 DEF Emptying, Ops
  <2> HIDE DEF u
  <2>3. Unsure(o) \cap Elems(o.file.data) \subseteq Unsure(u)
        BY <1>4, <2>1, <2>2 DEF Unsure
  <2> QED
        BY <2>3 DEF u
<1> QED
      BY <1>3, <1>4

(* A write of the directory sector. *)
LEMMA DirWrote ==
    ASSUME SdfsGuest, SdfsStorage, NEW d, NEW cat, NEW o, Going(d, cat, o), Bytes(d, cat, o), Prefixed(cat, o),
           o.kind \in Kinds, Dir \in o.todo, NEW f \in Nat
    PROVE  Wrote(d, Write(d, Dir, [d.directory EXCEPT ![o.file.slot] = EntryFor(o)], f), cat, o, Dir, f)
<1> DEFINE g == Started(d, Dir, f)
           c == [d.directory EXCEPT ![o.file.slot] = EntryFor(o)]
           s == Stage(g, Dir, c)
           w == Write(d, Dir, c, f)
           T == o.todo \ {Dir}
<1>1. Catalogue(cat) /\ Plan(cat, o)
      BY DEF Going
<1>2. o \in Ops /\ Sound(o.file)
      BY <1>1, PlanFacts
<1>3. g.directory = d.directory /\ g.io.ok = TRUE
  <2>1. LET h == Started(d, Dir, f)
        IN  /\ Going(h, cat, o) /\ h.directory = d.directory /\ h.error = FALSE
            /\ Dir = Dir => h.io.ok = TRUE
        BY StartedIs
  <2> QED
        BY <2>1
<1>4. Readied(d, g, cat, o, f)
      BY StartedBytes
<1>5. w = IF s.error THEN s ELSE Commits(s)
  <2> HIDE DEF c
  <2> QED
      BY WriteIs
<1>6. s = DirWritten(g, o)
  <2> HIDE DEF g
  <2> QED
      BY <1>3, DirStage
<1> HIDE DEF g, s, w, c
<1>7. Going(g, cat, o) /\ Bytes(g, cat, o) /\ g.error = FALSE
      BY <1>4 DEF Readied
<1>8. /\ o.kind \in {"erase", "rename"} => s.error = FALSE /\ Resting(s, After(cat, o))
      /\ o.kind \notin {"erase", "rename"} /\ o.phase = "open" =>
           s.error = FALSE /\ Going(s, cat, Emptying(o)) /\ EntersAs(g, cat, o, Emptying(o))
      /\ o.kind \notin {"erase", "rename"} /\ o.phase # "open" =>
           o.phase = "rest" /\ Going(s, cat, Then(o)) /\ EntersAs(g, cat, o, Then(o))
      /\ s.error => g.io.fault > 0
      BY <1>6, <1>7, DirGoing
<1>9. o.kind \in {"erase", "rename"} \cup Outputs
      BY <1>1, <1>2 DEF Plan, Ops, Outputs, Whole
<1>10. CASE o.kind \in {"erase", "rename"}
  <2>1. T = {} /\ o.phase = "rest"
        BY <1>1, <1>10 DEF Plan, Whole
  <2>2. Commits(s) = s
        BY <1>8, <1>10, CommitsNone DEF Resting
  <2>3. Tidy(s.io) /\ Rested(s, After(cat, o))
    <3>1. CASE o.kind = "erase"
          BY <1>6, <1>7, <3>1, EraseBytes
    <3>2. CASE o.kind = "rename"
          BY <1>6, <1>7, <3>2, RenameBytes
    <3> QED
          BY <1>10, <3>1, <3>2
  <2>4. w = s /\ w.error = FALSE
        BY <1>5, <1>8, <1>10, <2>2
  <2> QED
        BY <2>1, <2>3, <2>4 DEF Wrote, w, c
<1>11. CASE o.kind \in Outputs /\ o.phase = "open"
  <2>1. T = {} /\ o.kind \in Whole
        BY <1>1, <1>11 DEF Plan
  <2>2. s.error = FALSE /\ Going(s, cat, Emptying(o)) /\ EntersAs(g, cat, o, Emptying(o))
        BY <1>8, <1>11 DEF Outputs, Whole
  <2>3. /\ Emptying(o).phase = "empty" /\ Emptying(o).kind = o.kind /\ Emptying(o).name = o.name
        /\ Emptying(o).file = o.file
        BY <1>1, <2>1, PhasesAre
  <2>4. Commits(s) = s
        BY <2>2, <2>3, CommitsQuiet
  <2>5. Unsure(o) \cap Elems(o.file.data) \subseteq Unsure(Emptying(o))
        BY <1>1, <1>11, <2>1, UnsureThen
  <2>6. DirBytes(g, s, cat, Emptying(o))
        BY <1>6, <1>7, <2>2, <2>3, <2>5, EntersBytes
  <2>7. Bytes(s, cat, Emptying(o))
        BY <2>6 DEF DirBytes, BytesOutcome
  <2>8. w = s
        BY <1>5, <2>2, <2>4
  <2> QED
        BY <1>11, <2>1, <2>2, <2>7, <2>8 DEF Wrote, w, c
<1>12. CASE o.kind \in Outputs /\ o.phase # "open"
  <2>1. o.phase = "rest" /\ Going(s, cat, At(o, T)) /\ EntersAs(g, cat, o, Then(o))
        BY <1>8, <1>12 DEF Outputs, Whole, Then
  <2>2. s.error \in BOOLEAN /\ g.io.fault \in Nat
        BY <1>7, <2>1 DEF Going, Image
  <2>3. Then(o).kind = o.kind /\ Then(o).name = o.name /\ Then(o).file = o.file /\ Then(o) = At(o, T)
        BY <1>1, ThenIs
  <2>4. Unsure(o) \cap Elems(o.file.data) \subseteq Unsure(Then(o))
        BY <1>1, UnsureThen
  <2>5. DirBytes(g, s, cat, Then(o))
        BY <1>6, <1>7, <2>1, <2>3, <2>4, EntersBytes
  <2>6. /\ Bytes(s, cat, At(o, T)) /\ (s.error => HostSame(g, s))
        /\ s.error \/ NoPending(s) \/ s.io = g.io
        BY <2>3, <2>5 DEF DirBytes, BytesOutcome
  <2>7. HostSame(g, s) => HostSame(d, s)
        BY <1>4 DEF Readied, HostSame
  <2>8. f = 0 => g.io.fault = 0
        BY <1>4 DEF Readied
  <2>9. f = 0 => s.error = FALSE
        BY <1>8, <2>2, <2>8
  <2>10. CASE s.error
    <3>1. T \subseteq o.todo
          OBVIOUS
    <3>2. Bytes(s, cat, o)
      <4> HIDE DEF T
      <4> QED
          BY <1>1, <2>1, <2>6, <3>1, BytesGrows
    <3>3. w = s
          BY <1>5, <2>10
    <3> QED
          BY <2>2, <2>6, <2>7, <2>9, <2>10, <3>2, <3>3 DEF Wrote, w, c
  <2>11. CASE ~s.error
    <3>1. w = Commits(s) /\ s.error = FALSE
          BY <1>5, <2>2, <2>11
    <3>2. NoPending(s) \/ s.io = g.io
          BY <2>6, <2>11
    <3>3. s.io = g.io => HostSame(g, s)
          BY DEF HostSame
    <3>4. CommitsFrom(d, s, cat, o, Dir, f)
          BY <2>1, <2>6, <2>7, <2>8, <3>1, <3>2, <3>3 DEF CommitsFrom
    <3>5. Wrote(d, Commits(s), cat, o, Dir, f)
          BY <1>1, <1>12, <2>1, <3>4, CommitsWrote
    <3> QED
          BY <3>1, <3>5 DEF w, c
  <2> QED
        BY <2>10, <2>11
<1> QED
      BY <1>9, <1>10, <1>11, <1>12

-----------------------------------------------------------------------------
(* The steps of the guest, for the bytes. *)

(* The steps of the guest after a write that left e. *)
Turns(e, x, f) ==
    /\ x \in op.todo /\ f \in Nat /\ InOrder(disk, op, x) /\ disk' = Begun(e, 0) /\ ops' = ops
    /\ sdfsFaults' = sdfsFaults + (IF f > 0 THEN 1 ELSE 0)
    /\ sdfsResult' = IF e.error THEN "error" ELSE "ok"
    /\ CASE e.error -> UNCHANGED <<op, sdx>>
         [] ~e.error /\ op.todo \ {x} # {} -> op' = At(op, op.todo \ {x}) /\ UNCHANGED sdx
         [] ~e.error /\ op.todo \ {x} = {} /\ op.phase = "open" -> op' = Emptying(op) /\ UNCHANGED sdx
         [] ~e.error /\ op.todo \ {x} = {} /\ op.phase = "empty" -> op' = Filling(op) /\ UNCHANGED sdx
         [] ~e.error /\ op.todo \ {x} = {} /\ op.phase = "rest" -> op' = NoOp /\ sdx' = Done

(* A write that the guest sends is one of these steps. *)
LEMMA SentIs ==
    ASSUME SdfsGuest, NEW x, NEW f, NEW v, Sent(x, f, v)
    PROVE  Turns(v, x, f)
<1>1. x \in op.todo /\ f \in Nat /\ InOrder(disk, op, x) /\ ops' = ops
      BY DEF Sent, SdfsGuest
<1>2. disk' = Begun(v, 0)
      BY DEF Sent, Begun
<1>3. sdfsFaults' = sdfsFaults + (IF f > 0 THEN 1 ELSE 0) /\ sdfsResult' = IF v.error THEN "error" ELSE "ok"
      BY DEF Sent
<1>4. (CASE v.error -> UNCHANGED <<op, sdx>>
         [] ~v.error /\ op.todo \ {x} # {} -> op' = At(op, op.todo \ {x}) /\ UNCHANGED sdx
         [] ~v.error /\ op.todo \ {x} = {} /\ op.phase = "open" -> op' = Emptying(op) /\ UNCHANGED sdx
         [] ~v.error /\ op.todo \ {x} = {} /\ op.phase = "empty" -> op' = Filling(op) /\ UNCHANGED sdx
         [] ~v.error /\ op.todo \ {x} = {} /\ op.phase = "rest" -> op' = NoOp /\ sdx' = Done)
      BY DEF Sent, At, Emptying, Filling
<1> QED
      BY <1>1, <1>2, <1>3, <1>4 DEF Turns

(* Rested is about the overlay and the host only. *)
LEMMA RestedOn ==
    ASSUME NEW d, NEW t, NEW cat, t.pendingSectorWrites = d.pendingSectorWrites, t.io.host = d.io.host,
           Tidy(d.io), Rested(d, cat)
    PROVE  Tidy(t.io) /\ Rested(t, cat)
BY DEF Tidy, Rested, Typed, Clean, Stored

(* What a write that the guest sends leaves of the bytes. *)
LEMMA WriteBytes ==
    ASSUME SdfsGuest, SdfsStorage, SdfsInv, BytesHold, NEW x, NEW f, GuestWrite(x, f)
    PROVE  /\ BytesHold'
           /\ sdfsResult' = "error" => sdfsFaults' > sdfsFaults
           /\ sdfsResult' = "error" /\ op.kind # "update" /\ ~op.stale => HostSame(disk, disk')
           /\ Tidy(disk.io) /\ Tidy(disk'.io)
<1> DEFINE e == Write(disk, x, Content(x), f)
           T == op.todo \ {x}
<1>1. Turns(e, x, f)
  <2> DEFINE v == Write(disk, x, Content(x), f)
  <2>1. Sent(x, f, v)
        BY DEF GuestWrite
  <2> HIDE DEF v
  <2>2. Turns(v, x, f)
        BY <2>1, SentIs
  <2> QED
        BY <2>2 DEF v
<1>2. op # NoOp
  <2>1. NoOp.todo = {}
        BY DEF NoOp
  <2> QED
        BY <1>1, <2>1 DEF Turns
<1>3. Going(disk, sdx, op) /\ Bytes(disk, sdx, op) /\ Prefixed(sdx, op) /\ op.kind \in Kinds /\ sdfsFaults \in Nat
      BY <1>2 DEF SdfsInv, BytesHold
<1>4. Plan(sdx, op) /\ Catalogue(sdx)
      BY <1>3 DEF Going
<1>5. x \in op.todo /\ f \in Nat /\ InOrder(disk, op, x)
      BY <1>1 DEF Turns
<1>6. Proceeds(e, sdx, op, x) /\ Wrote(disk, e, sdx, op, x, f)
  <2>1. CASE x = Dir
    <3>1. e = Write(disk, Dir, [disk.directory EXCEPT ![op.file.slot] = EntryFor(op)], f)
          BY <2>1, ContentIs
    <3> HIDE DEF e
    <3>2. Proceeds(e, sdx, op, Dir)
          BY <1>3, <1>5, <2>1, <3>1, DirProceeds
    <3>3. Wrote(disk, e, sdx, op, Dir, f)
          BY <1>3, <1>5, <2>1, <3>1, DirWrote
    <3> QED
          BY <2>1, <3>2, <3>3
  <2>2. CASE x # Dir
    <3>1. e = Write(disk, x, SectorImage(op, x), f)
          BY <2>2, ContentIs
    <3> HIDE DEF e
    <3>2. Proceeds(e, sdx, op, x)
          BY <1>3, <1>5, <2>2, <3>1, SectorProceeds
    <3>3. Wrote(disk, e, sdx, op, x, f)
          BY <1>3, <1>5, <2>2, <3>1, SectorWrote
    <3> QED
          BY <3>2, <3>3
  <2> QED
        BY <2>1, <2>2
<1> HIDE DEF e, T
<1>7. op.phase \in {"open", "empty", "rest"} /\ op \in Ops /\ Sound(op.file)
      BY <1>4, PlanFacts DEF Ops
<1>8. /\ disk' = Begun(e, 0) /\ sdfsFaults' \in Nat
      /\ sdfsResult' = (IF e.error THEN "error" ELSE "ok") /\ (f # 0 => sdfsFaults' > sdfsFaults)
      BY <1>1, <1>3, <1>5 DEF Turns
<1>9. ASSUME Image(e)
      PROVE  Same(e, disk') /\ disk'.io.host = e.io.host /\ disk'.pendingSectorWrites = e.pendingSectorWrites
  <2>1. 0 \in Nat
        OBVIOUS
  <2>2. Same(e, Begun(e, 0)) /\ Begun(e, 0).io.host = e.io.host
        BY <1>9, <2>1, BegunIs
  <2> QED
        BY <1>8, <2>2 DEF Same
<1>10. ASSUME NEW u, Going(e, sdx, u), Bytes(e, sdx, u)
       PROVE  Bytes(disk', sdx, u) /\ Image(e)
  <2>1. Image(e)
        BY <1>10 DEF Going
  <2>2. (Underway(e, sdx, u) /\ Underway(disk', sdx, u)) \/ (Committed(e, sdx, u) /\ Committed(disk', sdx, u))
        BY <1>9, <1>10, <2>1, SameUnderway, SameCommitted DEF Going
  <2>3. Bytes(disk', sdx, u)
        BY <1>9, <1>10, <2>1, <2>2, BytesShift
  <2> QED
        BY <2>1, <2>3
<1>11. ASSUME NEW u, Going(e, sdx, u), Bytes(e, sdx, u), op' = u, sdx' = sdx, u.kind \in Kinds, Prefixed(sdx, u), u.todo # {}
       PROVE  BytesHold' /\ Tidy(disk'.io)
  <2>1. Bytes(disk', sdx', op') /\ Prefixed(sdx', op')
    <3>1. Bytes(disk', sdx, u)
          BY <1>10, <1>11
    <3> QED
          BY <1>11, <3>1
  <2>2. op' # NoOp
    <3>1. NoOp.todo = {}
          BY DEF NoOp
    <3> QED
          BY <1>11, <3>1
  <2>3. Tidy(disk'.io)
        BY <2>1 DEF Bytes
  <2> QED
        BY <1>8, <1>11, <2>1, <2>2, <2>3 DEF BytesHold, NoOp
<1>12. Tidy(disk.io)
       BY <1>3 DEF Bytes
<1>14. CASE e.error
  <2>1. op' = op /\ sdx' = sdx /\ Going(e, sdx, op) /\ op.todo # {}
        BY <1>1, <1>5, <1>6, <1>14 DEF Proceeds, Turns
  <2>2. Bytes(e, sdx, op) /\ (op.kind # "update" /\ ~op.stale => HostSame(disk, e))
        BY <1>6, <1>14 DEF Wrote
  <2>3. BytesHold' /\ Tidy(disk'.io)
        BY <1>3, <1>11, <2>1, <2>2
  <2>4. f # 0
    <3>1. e.error = FALSE => ~e.error
          OBVIOUS
    <3> QED
          BY <1>6, <1>14, <3>1 DEF Wrote
  <2>5. Image(e)
        BY <2>1 DEF Going
  <2>6. HostSame(disk, e) => HostSame(disk, disk')
        BY <1>9, <2>5 DEF HostSame
  <2> QED
        BY <1>8, <1>12, <2>2, <2>3, <2>4, <2>6
<1>15. ASSUME ~e.error
       PROVE  sdfsResult' = "ok"
       BY <1>8, <1>15
<1>16. CASE ~e.error /\ T # {}
  <2>1. op' = At(op, T) /\ sdx' = sdx /\ Going(e, sdx, At(op, T)) /\ Bytes(e, sdx, At(op, T))
        BY <1>1, <1>6, <1>16 DEF Proceeds, Wrote, Turns, T
  <2>2. /\ At(op, T).todo = T /\ At(op, T).kind = op.kind /\ At(op, T).name = op.name
        /\ At(op, T).file = op.file
    <3>1. T \subseteq 1 .. LastSector
          BY <1>7 DEF T, Ops
    <3> QED
          BY <1>7, <3>1, AtIs
  <2>3. Prefixed(sdx, At(op, T))
        BY <1>3, <2>2 DEF Prefixed
  <2>4. BytesHold' /\ Tidy(disk'.io)
        BY <1>3, <1>11, <1>16, <2>1, <2>2, <2>3
  <2> QED
        BY <1>12, <1>15, <1>16, <2>4
<1>17. CASE ~e.error /\ T = {} /\ op.phase \in {"open", "empty"}
  <2>1. op.kind \in Whole
        BY <1>4, <1>17 DEF Plan
  <2>2. Emptying(op).todo # {} /\ Filling(op).todo # {} /\ Emptying(op).kind = op.kind /\ Filling(op).kind = op.kind
        BY <1>4, <2>1, PhasesAre
  <2>3. Prefixed(sdx, Emptying(op)) /\ Prefixed(sdx, Filling(op))
        BY <2>1, <2>2 DEF Prefixed, Whole
  <2>4. CASE op.phase = "open"
    <3>1. op' = Emptying(op) /\ sdx' = sdx /\ Going(e, sdx, Emptying(op)) /\ Bytes(e, sdx, Emptying(op))
          BY <1>1, <1>6, <1>17, <2>4 DEF Proceeds, Wrote, Turns, T
    <3>2. BytesHold' /\ Tidy(disk'.io)
          BY <1>3, <1>11, <2>2, <2>3, <3>1
    <3> QED
          BY <1>12, <1>15, <1>17, <3>2
  <2>5. CASE op.phase = "empty"
    <3>1. op' = Filling(op) /\ sdx' = sdx /\ Going(e, sdx, Filling(op)) /\ Bytes(e, sdx, Filling(op))
          BY <1>1, <1>6, <1>17, <2>5 DEF Proceeds, Wrote, Turns, T
    <3>2. BytesHold' /\ Tidy(disk'.io)
          BY <1>3, <1>11, <2>2, <2>3, <3>1
    <3> QED
          BY <1>12, <1>15, <1>17, <3>2
  <2> QED
        BY <1>17, <2>4, <2>5
<1>18. CASE ~e.error /\ T = {} /\ op.phase = "rest"
  <2>1. op' = NoOp /\ sdx' = After(sdx, op) /\ Resting(e, After(sdx, op)) /\ Tidy(e.io) /\ Rested(e, After(sdx, op))
        BY <1>1, <1>6, <1>18, DoneIs DEF Proceeds, Wrote, Turns, T
  <2>2. Image(e)
        BY <2>1 DEF Resting
  <2>3. Tidy(disk'.io) /\ Rested(disk', sdx')
    <3>1. disk'.io.host = e.io.host /\ disk'.pendingSectorWrites = e.pendingSectorWrites
          BY <1>9, <2>2
    <3> DEFINE t == disk'
    <3>2. t.io.host = e.io.host /\ t.pendingSectorWrites = e.pendingSectorWrites
          BY <3>1
    <3> HIDE DEF t
    <3>3. Tidy(t.io) /\ Rested(t, After(sdx, op))
          BY <2>1, <3>2, RestedOn
    <3> QED
          BY <2>1, <3>3 DEF t
  <2>4. BytesHold'
        BY <1>8, <1>15, <1>18, <2>1, <2>3 DEF BytesHold, NoOp
  <2> QED
        BY <1>12, <1>15, <1>18, <2>3, <2>4
<1> QED
      BY <1>7, <1>14, <1>16, <1>17, <1>18

-----------------------------------------------------------------------------
(* The operations that begin, for the bytes. *)

(* What a new operation finds of the bytes: an overlay that does not know  *)
(* its sectors, if it is not stale; bytes that it keeps.                   *)
Brings(d, cat, o) ==
    LET old == cat[o.name]
    IN  /\ o.kind \in Whole /\ ~o.stale => \A x \in Elems(o.file.data) : x \notin DOMAIN d.pendingSectorWrites
        /\ o.kind = "append" /\ ~o.stale => \A x \in o.todo : x \notin DOMAIN d.pendingSectorWrites
        /\ o.kind = "update" => \A j \in 1 .. Len(old.bytes) :
                o.file.data[SectorsFor(j)] \notin o.todo => o.file.bytes[j] = old.bytes[j]
        /\ Prefixed(cat, o)

(* The block of a file that another one begins with. *)
LEMMA BlockOfStart ==
    ASSUME NEW f, NEW g, Sound(f), Sound(g), Len(f.bytes) <= Len(g.bytes),
           \A j \in 1 .. Len(f.bytes) : g.bytes[j] = f.bytes[j],
           NEW k \in 1 .. Len(f.data), k = Len(f.data) => Len(f.bytes) % SectorSize = 0
    PROVE  Block(g.bytes, k) = Block(f.bytes, k)
<1>1. /\ f.bytes \in Seq(Int) /\ g.bytes \in Seq(Int) /\ Len(f.bytes) \in Nat \ {0} /\ Len(g.bytes) \in Nat \ {0}
      /\ Len(f.data) = SectorsFor(Len(f.bytes)) /\ Len(f.data) \in Nat \ {0} /\ k \in Nat \ {0}
  <2>1. /\ f.bytes \in Seq(Int) /\ Len(f.bytes) \in Nat \ {0} /\ Len(f.data) = SectorsFor(Len(f.bytes))
        /\ Len(f.data) \in Nat \ {0}
        BY SoundFacts
  <2>2. g.bytes \in Seq(Int) /\ Len(g.bytes) \in Nat \ {0}
        BY SoundFacts
  <2> QED
        BY <2>1, <2>2
<1> DEFINE a == Len(f.bytes)
           b == Len(g.bytes)
           w == (k - 1) * SectorSize
<1>2. SectorSize \in Nat \ {0}
      BY Sizes
<1>3. w \in Nat /\ w + SectorSize <= a
  <2> DEFINE n == SectorsFor(a)
             v == (n - 1) * SectorSize
  <2>1. n \in Nat \ {0} /\ Cell(a) \in 1 .. SectorSize /\ v \in Nat /\ a = v + Cell(a)
        BY <1>1, CellIs
  <2>2. k <= n
        BY <1>1
  <2>3. CASE k = n
    <3>1. a % SectorSize = 0
          BY <1>1, <2>3
    <3>2. ASSUME Cell(a) # SectorSize
          PROVE  FALSE
      <4> DEFINE c == Cell(a)
      <4>1. c \in Nat \ {0} /\ c + 1 \in 1 .. SectorSize
            BY <1>2, <2>1, <3>2
      <4> HIDE DEF n, v, c
      <4>2. LET j == (n - 1) * SectorSize + (c + 1)
            IN  j \in Nat \ {0} /\ SectorsFor(j) = n /\ Cell(j) = c + 1
            BY <2>1, <4>1, CellOf
      <4>3. (n - 1) * SectorSize + (c + 1) = a + 1
        <5> HIDE DEF a
        <5>1. v \in Nat /\ c \in Nat /\ a = v + c /\ v = (n - 1) * SectorSize
              BY <2>1, <4>1 DEF c, v
        <5>2. v + (c + 1) = a + 1
              BY <5>1
        <5> QED
              BY <5>1, <5>2
      <4>4. Cell(a + 1) = c + 1
            BY <4>2, <4>3
      <4> HIDE DEF a
      <4>5. a \in Nat /\ (a + 1) - 1 = a
            BY <1>1 DEF a
      <4>6. (a % SectorSize) + 1 = c + 1
            BY <4>4, <4>5 DEF Cell
      <4> QED
            BY <3>1, <4>1, <4>6
    <3>3. Cell(a) = SectorSize
          BY <3>2
    <3> QED
          BY <1>2, <2>1, <2>3, <3>3
  <2>4. CASE k < n
    <3>1. k * SectorSize <= v
      <4>1. \A s \in Nat, p, q \in Nat : p <= q => p * s <= q * s
            BY SMTT(60)
      <4> HIDE DEF n
      <4>2. k \in Nat /\ n - 1 \in Nat /\ k <= n - 1
            BY <1>1, <2>1, <2>4
      <4> QED
            BY <1>2, <4>1, <4>2
    <3>2. k * SectorSize = w + SectorSize
          BY <1>1, <1>2
    <3>3. w \in Nat
          BY <1>1, <1>2
    <3> HIDE DEF w, v, n, a
    <3> QED
          BY <1>2, <2>1, <3>1, <3>2, <3>3
  <2> QED
        BY <1>1, <2>1, <2>2, <2>3, <2>4
<1>4. ASSUME NEW i \in 1 .. SectorSize
      PROVE  w + i \in 1 .. a /\ w + i <= b /\ g.bytes[w + i] = f.bytes[w + i]
  <2> HIDE DEF w
  <2>1. w + i \in 1 .. a /\ w + i <= b
        BY <1>1, <1>2, <1>3
  <2> QED
        BY <2>1
<1> QED
      BY <1>1, <1>4 DEF Block

(* An operation that begins where the bytes are at rest. *)
LEMMA FreshBytes ==
    ASSUME NEW d, NEW cat, Resting(d, cat), Rested(d, cat), Tidy(d.io), NEW o, Plan(cat, o), Opens(d, cat, o), Brings(d, cat, o)
    PROVE  Bytes(d, cat, o) /\ Prefixed(cat, o)
<1> DEFINE f == o.file
           n == o.name
           old == cat[n]
<1>1. Catalogue(cat) /\ Image(d) /\ Layout(d, cat) /\ NoPending(d)
      BY DEF Resting
<1>2. /\ o \in Ops /\ Sound(f) /\ (o.kind # "create" => n \in DOMAIN cat)
      BY <1>1, PlanFacts
<1>3. Underway(d, cat, o)
  <2>1. Going(d, cat, o)
        BY BeginGoes
  <2>2. CASE Committed(d, cat, o)
    <3>1. o.kind = "append"
          BY <1>2, <2>2 DEF Committed, Opens, Outputs, Whole
    <3>2. Dir \in o.todo
          BY <3>1 DEF Opens
    <3>3. Len(old.bytes) < Len(f.bytes) /\ f.slot = old.slot /\ old = cat[n] /\ n \in DOMAIN cat
          BY <1>2, <3>1 DEF Plan
    <3>4. d.directory[old.slot] = EntryOf(n, old)
          BY <3>3 DEF Resting, AtRest
    <3>5. After(cat, o)[n] = f
          BY <3>1 DEF After, Put
    <3>6. d.directory[f.slot] = EntryOf(n, f)
          BY <2>2, <3>5 DEF Committed, AtRest
    <3>7. Len(old.bytes) = Len(f.bytes)
          BY <3>3, <3>4, <3>6 DEF EntryOf
    <3>8. Len(old.bytes) \in Nat /\ Len(f.bytes) \in Nat
          BY <1>1, <1>2, <3>3, SoundFacts DEF Catalogue
    <3> QED
          BY <3>3, <3>7, <3>8
  <2> QED
        BY <2>1, <2>2 DEF Going
<1>4. Others(d, cat, n)
      BY DEF Others, Rested
<1>5. o.kind # "create" => Clean(d, old, {}) /\ Stored(d, old, {}) /\ Sound(old)
      BY <1>1, <1>2 DEF Rested, Catalogue
<1>6. Typed(d, MapsIn(cat) \cup Elems(f.maps))
      BY DEF Rested, Typed
<1>7. o.kind \in Whole => Clean(d, f, Unsure(o))
  <2> SUFFICES ASSUME o.kind \in Whole
               PROVE  Clean(d, f, Unsure(o))
      OBVIOUS
  <2>1. o.phase = "open" /\ o.kind # "update"
        BY DEF Opens, Whole
  <2>2. \A k \in 1 .. Len(f.data) : f.data[k] \in Elems(f.data)
        BY <1>2, SoundFacts, ElemsAre
  <2>3. CASE o.stale
    <3>1. Unsure(o) = Elems(f.data)
          BY <2>1, <2>3 DEF Unsure
    <3> QED
          BY <2>2, <3>1 DEF Clean
  <2>4. CASE ~o.stale
        BY <2>2, <2>4 DEF Clean, Brings
  <2> QED
        BY <2>3, <2>4
<1>8. o.kind = "append" => Clean(d, f, Unsure(o)) /\ Intact(d, old)
  <2> SUFFICES ASSUME o.kind = "append"
               PROVE  Clean(d, f, Unsure(o)) /\ Intact(d, old)
      OBVIOUS
  <2>1. /\ Begins(old, f) /\ Len(old.bytes) < Len(f.bytes) /\ o.phase = "rest" /\ Sound(old)
        /\ \A j \in 1 .. Len(old.bytes) : f.bytes[j] = old.bytes[j]
        BY <1>5 DEF Plan, Brings, Prefixed, Whole
  <2>2. /\ Len(old.bytes) % SectorSize # 0 => old.data[Len(old.data)] \in o.todo
        /\ \A k \in Len(old.data) + 1 .. Len(f.data) : f.data[k] \in o.todo
        BY DEF Opens
  <2>3. \A x \in o.todo : x \in DOMAIN d.pendingSectorWrites => x \in Unsure(o)
        BY <2>1 DEF Brings, Unsure
  <2>4. /\ Len(old.data) \in Nat /\ Len(f.data) \in Nat /\ Len(old.bytes) \in Nat /\ Len(f.bytes) \in Nat
        /\ old.bytes \in Seq(Int)
        BY <1>2, <2>1, SoundFacts
  <2>5. ASSUME NEW k \in 1 .. Len(f.data), f.data[k] \in DOMAIN d.pendingSectorWrites, f.data[k] \notin Unsure(o)
        PROVE  d.pendingSectorWrites[f.data[k]] = Block(f.bytes, k)
    <3>1. f.data[k] \notin o.todo
          BY <2>3, <2>5
    <3>2. k \in 1 .. Len(old.data)
          BY <2>2, <2>4, <3>1
    <3>3. old.data[k] = f.data[k]
          BY <2>1, <3>2 DEF Begins
    <3>4. k = Len(old.data) => Len(old.bytes) % SectorSize = 0
          BY <2>2, <3>1, <3>3
    <3>5. d.pendingSectorWrites[f.data[k]] = Block(old.bytes, k)
          BY <1>5, <2>5, <3>2, <3>3 DEF Clean
    <3> HIDE DEF f, old
    <3>6. Block(f.bytes, k) = Block(old.bytes, k)
          BY <1>2, <2>1, <2>4, <3>2, <3>4, BlockOfStart
    <3> QED
          BY <3>5, <3>6
  <2>6. ASSUME NEW k \in 1 .. Len(old.data), old.data[k] \in DOMAIN d.pendingSectorWrites
        PROVE  Matches(d.pendingSectorWrites[old.data[k]], old.bytes, k)
    <3>1. d.pendingSectorWrites[old.data[k]] = Block(old.bytes, k)
          BY <1>5, <2>6 DEF Clean
    <3> HIDE DEF old
    <3>2. k \in Nat \ {0}
          BY <2>4
    <3> QED
          BY <2>4, <3>1, <3>2, BlockIs
  <2> QED
        BY <2>5, <2>6 DEF Clean, Intact
<1>9. o.kind = "update" => Clean(d, f, Unsure(o)) /\ Stored(d, f, Unsure(o))
  <2> SUFFICES ASSUME o.kind = "update"
               PROVE  Clean(d, f, Unsure(o)) /\ Stored(d, f, Unsure(o))
      OBVIOUS
  <2>1. /\ f.data = old.data /\ Len(f.bytes) = Len(old.bytes) /\ f.host = old.host /\ Sound(old) /\ o.phase = "rest"
        /\ \A j \in 1 .. Len(old.bytes) : f.data[SectorsFor(j)] \notin o.todo => f.bytes[j] = old.bytes[j]
        BY <1>5 DEF Plan, Brings, Whole
  <2>2. Unsure(o) = o.todo
        BY <2>1 DEF Unsure
  <2>3. Stored(d, f, o.todo)
        BY <1>5, <2>1 DEF Stored
  <2>4. ASSUME NEW k \in 1 .. Len(f.data), f.data[k] \in DOMAIN d.pendingSectorWrites, f.data[k] \notin o.todo
        PROVE  d.pendingSectorWrites[f.data[k]] = Block(f.bytes, k)
    <3>1. d.pendingSectorWrites[f.data[k]] = Block(old.bytes, k)
          BY <1>5, <2>1, <2>4 DEF Clean
    <3>2. f.bytes \in Seq(Int) /\ old.bytes \in Seq(Int) /\ Len(f.data) \in Nat
          BY <1>2, <2>1, SoundFacts
    <3>3. \A j \in 1 .. Len(old.bytes) : SectorsFor(j) = k => f.bytes[j] = old.bytes[j]
          BY <2>1, <2>4
    <3> HIDE DEF f, old
    <3>4. k \in Nat \ {0}
          BY <3>2
    <3>5. \A j \in 1 .. Len(f.bytes) : SectorsFor(j) = k => f.bytes[j] = old.bytes[j]
          BY <2>1, <3>3
    <3>6. Block(f.bytes, k) = Block(old.bytes, k)
          BY <2>1, <3>2, <3>4, <3>5, BlockSame
    <3> QED
          BY <3>1, <3>6
  <2> QED
        BY <2>2, <2>3, <2>4 DEF Clean
<1>10. Early(d, cat, o)
       BY <1>2, <1>5, <1>6, <1>7, <1>8, <1>9 DEF Early, Outputs, Whole, Ops
<1> QED
      BY <1>3, <1>4, <1>10 DEF Bytes, Doing, Brings

(* An operation that begins keeps the bytes. *)
LEMMA PlannedBytes ==
    ASSUME SdfsInv, BytesHold, Planned, Brings(disk, sdx, op')
    PROVE  BytesHold' /\ sdfsResult' = "ok"
<1>1. /\ op = NoOp /\ op' # NoOp /\ op'.kind \in Kinds /\ Plan(sdx, op') /\ Opens(disk, sdx, op')
      /\ disk' = disk /\ sdx' = sdx /\ sdfsFaults' = sdfsFaults /\ sdfsResult' = sdfsResult
      BY DEF Planned
<1>2. Resting(disk, sdx)
      BY <1>1 DEF SdfsInv, NoOp
<1>3. sdfsResult = "ok" /\ Tidy(disk.io) /\ Rested(disk, sdx) /\ sdfsFaults \in Nat
      BY <1>1 DEF BytesHold
<1> DEFINE o == op'
<1>4. Plan(sdx, o) /\ Opens(disk, sdx, o) /\ Brings(disk, sdx, o)
      BY <1>1
<1> HIDE DEF o
<1>5. Bytes(disk, sdx, o) /\ Prefixed(sdx, o)
      BY <1>2, <1>3, <1>4, FreshBytes
<1>6. Bytes(disk', sdx', op') /\ Prefixed(sdx', op')
      BY <1>1, <1>5 DEF o
<1> QED
      BY <1>1, <1>3, <1>6 DEF BytesHold, NoOp

(* Some of these sectors are in the overlay. *)
InOverlay(S) == S \cap DOMAIN disk.pendingSectorWrites # {}

(* A create that begins keeps the bytes. *)
LEMMA CreateBegins ==
    ASSUME SdfsGuest, SdfsInv, BytesHold, NEW name \in Names, NEW length \in Lengths, CreateFile(name, length)
    PROVE  BytesHold' /\ sdfsResult' = "ok"
<1>1. Planned
      BY CreateKeeps
<1>2. op'.kind = "create" /\ op'.stale = InOverlay({Dir} \cup SectorsOf(op'.file))
      BY DEF CreateFile, Begin, InOverlay
<1>3. ~op'.stale => \A x \in Elems(op'.file.data) : x \notin DOMAIN disk.pendingSectorWrites
      BY <1>2 DEF InOverlay, SectorsOf
<1>4. Brings(disk, sdx, op')
      BY <1>2, <1>3 DEF Brings, Prefixed
<1> QED
      BY <1>1, <1>4, PlannedBytes

(* So does a replacement. *)
LEMMA ReplaceBegins ==
    ASSUME SdfsGuest, SdfsInv, BytesHold, NEW name \in Names, NEW length \in Lengths, ReplaceFile(name, length)
    PROVE  BytesHold' /\ sdfsResult' = "ok"
<1>1. Planned
      BY ReplaceKeeps
<1>2. op'.kind = "replace" /\ op'.stale = InOverlay({Dir} \cup SectorsOf(op'.file))
      BY DEF ReplaceFile, Begin, InOverlay
<1>3. ~op'.stale => \A x \in Elems(op'.file.data) : x \notin DOMAIN disk.pendingSectorWrites
      BY <1>2 DEF InOverlay, SectorsOf
<1>4. Brings(disk, sdx, op')
      BY <1>2, <1>3 DEF Brings, Prefixed
<1> QED
      BY <1>1, <1>4, PlannedBytes

(* So does a deletion. *)
LEMMA EraseBegins ==
    ASSUME SdfsInv, BytesHold, NEW name \in Names, EraseFile(name)
    PROVE  BytesHold' /\ sdfsResult' = "ok"
<1>1. Planned
      BY EraseKeeps
<1>2. op'.kind = "erase"
      BY DEF EraseFile, Begin
<1>3. Brings(disk, sdx, op')
      BY <1>2 DEF Brings, Prefixed, Whole
<1> QED
      BY <1>1, <1>3, PlannedBytes

(* So does a renaming. *)
LEMMA RenameBegins ==
    ASSUME SdfsInv, BytesHold, NEW name \in Names, NEW new \in Names, RenameFile(name, new)
    PROVE  BytesHold' /\ sdfsResult' = "ok"
<1>1. Planned
      BY RenameKeeps
<1>2. op'.kind = "rename"
      BY DEF RenameFile, Begin
<1>3. Brings(disk, sdx, op')
      BY <1>2 DEF Brings, Prefixed, Whole
<1> QED
      BY <1>1, <1>3, PlannedBytes

(* So does an update, whose other sectors have the bytes they had. *)
LEMMA UpdateBegins ==
    ASSUME SdfsInv, BytesHold, NEW name \in Names, NEW k \in 1 .. LastSector, UpdateFile(name, k)
    PROVE  BytesHold' /\ sdfsResult' = "ok"
<1>1. Planned
      BY UpdateKeeps
<1> DEFINE f == sdx[name]
           B == [i \in 1 .. Len(f.bytes) |-> IF SectorsFor(i) = k THEN NewBytes(Len(f.bytes))[i] ELSE f.bytes[i]]
<1>2. /\ op'.kind = "update" /\ op'.name = name /\ op'.file = [f EXCEPT !.bytes = B] /\ op'.todo = {f.data[k]}
      /\ op = NoOp /\ name \in DOMAIN sdx
      BY DEF UpdateFile, Begin, Whole
<1>3. Sound(f)
      BY <1>2, AtRestFiles
<1>4. op'.file.data = f.data /\ op'.file.bytes = B
  <2> HIDE DEF f, B
  <2>1. f = FileOf(f.slot, f.maps, f.data, f.bytes, f.host)
        BY <1>3, FileShape
  <2> QED
        BY <1>2, <2>1 DEF FileOf
<1>5. ASSUME NEW j \in 1 .. Len(f.bytes), f.data[SectorsFor(j)] \notin {f.data[k]}
      PROVE  B[j] = f.bytes[j]
  <2>1. SectorsFor(j) # k
        BY <1>5
  <2> HIDE DEF f
  <2> QED
        BY <1>5, <2>1
<1> HIDE DEF B
<1>6. Brings(disk, sdx, op')
      BY <1>2, <1>4, <1>5 DEF Brings, Prefixed, Whole
<1> QED
      BY <1>1, <1>6, PlannedBytes

(* So does an append, which keeps the bytes of the file. *)
LEMMA ExtendBegins ==
    ASSUME SdfsInv, BytesHold, NEW name \in Names, NEW length \in Lengths, ExtendFile(name, length)
    PROVE  BytesHold' /\ sdfsResult' = "ok"
<1>1. Planned
      BY ExtendKeeps
<1> DEFINE f == sdx[name]
           t == [k \in 1 .. length - Len(f.bytes) |-> NewBytes(length)[Len(f.bytes) + k]]
<1>2. /\ op'.kind = "append" /\ op'.name = name /\ op = NoOp /\ name \in DOMAIN sdx
      /\ op'.stale = InOverlay(op'.todo)
      BY DEF ExtendFile, Begin, Whole, InOverlay
<1>3. Sound(f)
      BY <1>2, AtRestFiles
<1>4. \E M, D : op'.file = [f EXCEPT !.maps = M, !.data = D, !.bytes = f.bytes \o t]
      BY DEF ExtendFile, Begin
<1>5. op'.file.bytes = f.bytes \o t
  <2> HIDE DEF f, t
  <2>1. PICK M, D : op'.file = [f EXCEPT !.maps = M, !.data = D, !.bytes = f.bytes \o t]
        BY <1>4
  <2>2. f = FileOf(f.slot, f.maps, f.data, f.bytes, f.host)
        BY <1>3, FileShape
  <2> DEFINE b == f.bytes \o t
  <2>3. op'.file = [f EXCEPT !.maps = M, !.data = D, !.bytes = b]
        BY <2>1
  <2> HIDE DEF b
  <2>4. [f EXCEPT !.maps = M, !.data = D, !.bytes = b].bytes = b
        BY ONLY <2>2 DEF FileOf
  <2> QED
        BY <2>3, <2>4 DEF b
<1>6. ASSUME NEW j \in 1 .. Len(f.bytes)
      PROVE  op'.file.bytes[j] = f.bytes[j]
  <2>1. f.bytes \in Seq(Int) /\ length - Len(f.bytes) \in Int /\ op'.file.bytes \in Seq(Int) /\ Len(f.bytes) \in Nat
    <3>1. f.bytes \in Seq(Int) /\ Len(f.bytes) \in Nat
          BY <1>3, SoundFacts
    <3>2. length \in Nat
          BY SdfsAssumption
    <3>3. Sound(op'.file)
          BY <1>1 DEF Planned, Plan
    <3> QED
          BY <3>1, <3>2, <3>3, SoundFacts
  <2>2. length > Len(f.bytes) /\ length \in Nat
        BY SdfsAssumption DEF ExtendFile
  <2> DEFINE b == f.bytes
             new == NewBytes(length)
  <2>3. \A i \in 1 .. length : new[i] \in Int
    <3>1. ops \in Nat
          BY DEF SdfsInv
    <3>2. new \in Seq(Int) /\ Len(new) = length
          BY <2>2, <3>1, NewBytesAre
    <3> QED
          BY <3>2
  <2> HIDE DEF f, b, new
  <2>4. t \in Seq(Int)
    <3>1. length - Len(f.bytes) \in Nat
          BY <2>1, <2>2
    <3>2. \A i \in 1 .. length - Len(f.bytes) : Len(f.bytes) + i \in 1 .. length
          BY <2>1, <2>2
    <3>3. t = [i \in 1 .. length - Len(f.bytes) |-> new[Len(f.bytes) + i]]
          BY DEF new
    <3> HIDE DEF t
    <3>4. t \in [1 .. length - Len(f.bytes) -> Int]
          BY <2>3, <3>2, <3>3
    <3> QED
          BY <3>1, <3>4
  <2> HIDE DEF t
  <2> QED
        BY <1>5, <1>6, <2>1, <2>4
<1>7. Prefixed(sdx, op')
      BY <1>2, <1>6 DEF Prefixed
<1>8. Brings(disk, sdx, op')
      BY <1>2, <1>7 DEF Brings, Whole, InOverlay
<1> QED
      BY <1>1, <1>8, PlannedBytes

-----------------------------------------------------------------------------
(* mount(), for the bytes, and every step. *)

(* The host directory of a new image. *)
LEMMA MountHost ==
    /\ Tidy(Mount.io)
    /\ \A i \in DOMAIN Inventory : Mount.io.host[Inventory[i].hostName] = Contents(i)
<1> DEFINE files == [i \in DOMAIN Inventory |-> AllocateFile(i)]
           H == {files[i].hostName : i \in DOMAIN files}
           host == [h \in H |-> Contents(CHOOSE i \in DOMAIN files : files[i].hostName = h)]
<1>1. Mount.io.host = host
      BY DEF Mount
<1>2. Tidy(Mount.io)
  <2> HIDE DEF files
  <2> QED
        BY <1>1 DEF Tidy
<1>3. ASSUME NEW i \in DOMAIN Inventory
      PROVE  host[Inventory[i].hostName] = Contents(i)
  <2>1. DOMAIN files = DOMAIN Inventory /\ \A j \in DOMAIN Inventory : files[j].hostName = Inventory[j].hostName
        BY DEF AllocateFile
  <2> DEFINE h == Inventory[i].hostName
  <2>2. \A j \in DOMAIN Inventory : Inventory[j].hostName = h => j = i
        BY SdfsAssumption
  <2> HIDE DEF files, h
  <2>3. (CHOOSE j \in DOMAIN files : files[j].hostName = h) = i
        BY <2>1, <2>2 DEF h
  <2>4. h \in H
        BY <2>1 DEF h
  <2> HIDE DEF H
  <2>5. host[h] = Contents(i)
        BY <2>3, <2>4
  <2> QED
        BY <2>5 DEF h
<1> HIDE DEF host
<1> QED
      BY <1>1, <1>2, <1>3

(* A new image is at rest, byte for byte. *)
LEMMA InitBytes ==
    ASSUME SdfsGuest, SdfsInit
    PROVE  BytesHold
<1>1. Knows(sdx) /\ sdx = [n \in DOMAIN sdx |-> sdx[n]]
      BY InitKnows
<1>2. disk = Mount /\ op = NoOp /\ sdfsFaults = 0 /\ sdfsResult = "ok"
      BY DEF SdfsInit
<1>3. DOMAIN disk.pendingSectorWrites = {}
      BY <1>2, MountParts DEF AsMounted
<1>4. Tidy(disk.io)
      BY <1>2, MountHost
<1>5. ASSUME NEW n \in DOMAIN sdx
      PROVE  Clean(disk, sdx[n], {}) /\ Stored(disk, sdx[n], {})
  <2>1. PICK i \in DOMAIN Inventory : n = Inventory[i].name
        BY <1>1 DEF Knows
  <2> DEFINE f == Given(i)
  <2>2. sdx[n] = f
        BY <1>1, <2>1 DEF Knows
  <2>3. Sound(f) /\ f.host = Inventory[i].hostName /\ f.bytes = Contents(i)
        BY GivenIs, GivenParts
  <2>4. disk.io.host[f.host] = f.bytes
        BY <1>2, <2>3, MountHost
  <2> HIDE DEF f
  <2>5. f.bytes \in Seq(Int)
        BY <2>3, SoundFacts
  <2> QED
        BY <1>3, <2>2, <2>4, <2>5 DEF Clean, Stored
<1>6. Rested(disk, sdx)
      BY <1>3, <1>5 DEF Rested, Typed
<1> QED
      BY <1>2, <1>4, <1>6 DEF BytesHold

(* Every step keeps the bytes, and only a failing storage call refuses. *)
LEMMA NextBytes ==
    ASSUME SdfsGuest, SdfsStorage, SdfsInv, BytesHold, SdfsNext
    PROVE  /\ BytesHold'
           /\ sdfsResult' = "error" => sdfsFaults' > sdfsFaults
           /\ sdfsResult' = "error" /\ op.kind # "update" /\ ~op.stale => disk'.io.host = disk.io.host
<1> DEFINE B == BytesHold' /\ sdfsResult' = "ok"
<1>1. ASSUME NEW n \in Names, NEW l \in Lengths, CreateFile(n, l)
      PROVE  B
      BY <1>1, CreateBegins
<1>2. ASSUME NEW n \in Names, NEW l \in Lengths, ExtendFile(n, l)
      PROVE  B
      BY <1>2, ExtendBegins
<1>3. ASSUME NEW n \in Names, NEW l \in Lengths, ReplaceFile(n, l)
      PROVE  B
      BY <1>3, ReplaceBegins
<1>4. ASSUME NEW n \in Names, EraseFile(n)
      PROVE  B
      BY <1>4, EraseBegins
<1>5. ASSUME NEW n \in Names, NEW k \in 1 .. LastSector, UpdateFile(n, k)
      PROVE  B
      BY <1>5, UpdateBegins
<1>6. ASSUME NEW n \in Names, NEW m \in Names, RenameFile(n, m)
      PROVE  B
      BY <1>6, RenameBegins
<1>7. ASSUME NEW f \in 0 .. 4, NEW x \in op.todo, GuestWrite(x, f)
      PROVE  /\ BytesHold'
             /\ sdfsResult' = "error" => sdfsFaults' > sdfsFaults
             /\ sdfsResult' = "error" /\ op.kind # "update" /\ ~op.stale => disk'.io.host = disk.io.host
  <2>1. /\ BytesHold'
        /\ sdfsResult' = "error" => sdfsFaults' > sdfsFaults
        /\ sdfsResult' = "error" /\ op.kind # "update" /\ ~op.stale => HostSame(disk, disk')
        /\ Tidy(disk.io) /\ Tidy(disk'.io)
        BY <1>7, WriteBytes
  <2> DEFINE a == disk.io.host
             b == disk'.io.host
  <2>2. a = [h \in DOMAIN a |-> a[h]] /\ b = [h \in DOMAIN b |-> b[h]]
        BY <2>1 DEF Tidy
  <2>3. HostSame(disk, disk') => DOMAIN b = DOMAIN a /\ \A h \in DOMAIN a : b[h] = a[h]
        BY DEF HostSame
  <2> HIDE DEF a, b
  <2>4. DOMAIN b = DOMAIN a /\ (\A h \in DOMAIN a : b[h] = a[h]) => b = a
        BY <2>2
  <2>5. HostSame(disk, disk') => b = a
        BY <2>3, <2>4
  <2> QED
        BY <2>1, <2>5 DEF a, b
<1> QED
      BY <1>1, <1>2, <1>3, <1>4, <1>5, <1>6, <1>7 DEF SdfsNext

(* The host directory of files that are stored. *)
LEMMA HostIs ==
    ASSUME NEW d, NEW cat, Catalogue(cat), Layout(d, cat), Tidy(d.io), \A n \in DOMAIN cat : Stored(d, cat[n], {})
    PROVE  d.io.host = HostFiles(cat)
<1> DEFINE host == d.io.host
           H == {cat[n].host : n \in DOMAIN cat}
<1>1. host = [h \in H |-> host[h]]
      BY DEF Tidy, Layout
<1>2. \A n, m \in DOMAIN cat : cat[n].host = cat[m].host => n = m
      BY HostsAre
<1>3. ASSUME NEW n \in DOMAIN cat
      PROVE  host[cat[n].host] = cat[n].bytes
  <2> DEFINE s == host[cat[n].host]
             t == cat[n].bytes
  <2>1. s \in Seq(Int) /\ Len(s) = Len(t) /\ \A j \in 1 .. Len(t) : s[j] = t[j]
        BY DEF Stored
  <2>2. t \in Seq(Int)
        BY SoundFacts DEF Catalogue
  <2> HIDE DEF s, t
  <2>3. s = t
        BY <2>1, <2>2, SameBytesAre
  <2> QED
        BY <2>3 DEF s, t
<1>4. ASSUME NEW h \in H
      PROVE  host[h] = cat[CHOOSE n \in DOMAIN cat : cat[n].host = h].bytes
  <2>1. PICK n \in DOMAIN cat : cat[n].host = h
        OBVIOUS
  <2>2. (CHOOSE k \in DOMAIN cat : cat[k].host = h) = n
        BY <1>2, <2>1
  <2> HIDE DEF host
  <2> QED
        BY <1>3, <2>1, <2>2
<1> HIDE DEF host
<1>5. [h \in H |-> host[h]] = [h \in H |-> cat[CHOOSE n \in DOMAIN cat : cat[n].host = h].bytes]
      BY <1>4
<1> QED
      BY <1>1, <1>5 DEF HostFiles, host

-----------------------------------------------------------------------------
(* What the invariants say of the properties. *)

(* The files after a committed operation. *)
LEMMA AfterCommit ==
    ASSUME NEW d, NEW cat, NEW o, Going(d, cat, o), Committed(d, cat, o), Late(d, cat, o), Others(d, cat, o.name)
    PROVE  LET c == After(cat, o)
           IN  /\ Catalogue(c) /\ Layout(d, c) /\ DOMAIN c = DOMAIN cat \cup {o.name} /\ c[o.name] = o.file
               /\ \A n \in DOMAIN cat \ {o.name} : c[n] = cat[n] /\ Clean(d, c[n], {}) /\ Stored(d, c[n], {})
               /\ Stored(d, o.file, Unsure(o))
<1>1. Catalogue(cat) /\ Plan(cat, o)
      BY DEF Going
<1>2. After(cat, o) = Put(cat, o.name, o.file) /\ o.kind # "rename" /\ Layout(d, After(cat, o))
      BY DEF Committed, After, Outputs, Whole
<1>3. Catalogue(After(cat, o))
  <2>1. Fits(cat, o.name, o.file)
        BY <1>1, <1>2, PlanFacts
  <2> QED
        BY <1>1, <1>2, <2>1, PutCatalogue
<1> DEFINE c == After(cat, o)
<1>4. DOMAIN c = DOMAIN cat \cup {o.name} /\ c[o.name] = o.file /\ \A n \in DOMAIN cat \ {o.name} : c[n] = cat[n]
      BY <1>2 DEF Put
<1> HIDE DEF c
<1>5. \A n \in DOMAIN cat \ {o.name} : Clean(d, cat[n], {}) /\ Stored(d, cat[n], {})
      BY DEF Others
<1> QED
      BY <1>2, <1>3, <1>4, <1>5 DEF c, Late

(* At rest, the host directory is the guest's. *)
LEMMA HoldCoherent ==
    ASSUME SdfsInv, BytesHold
    PROVE  Coherent
<1> SUFFICES ASSUME op = NoOp
             PROVE  disk.io.host = HostFiles(sdx) /\ NoPending(disk)
    BY DEF Coherent, NoPending
<1>1. Resting(disk, sdx) /\ Tidy(disk.io) /\ Rested(disk, sdx)
      BY DEF SdfsInv, BytesHold, NoOp
<1>2. Catalogue(sdx) /\ Layout(disk, sdx) /\ NoPending(disk) /\ \A n \in DOMAIN sdx : Stored(disk, sdx[n], {})
      BY <1>1 DEF Resting, Rested
<1> QED
      BY <1>1, <1>2, HostIs

(* Before the commit it is the old one, after it the new one. *)
LEMMA HoldWhole ==
    ASSUME SdfsInv, BytesHold
    PROVE  WholeFiles
<1> SUFFICES ASSUME op # NoOp, ~op.stale, op.kind # "update"
             PROVE  disk.io.host = HostFiles(sdx) \/ disk.io.host = HostFiles(Done)
    BY DEF WholeFiles
<1>1. Going(disk, sdx, op) /\ Bytes(disk, sdx, op)
      BY DEF SdfsInv, BytesHold
<1>2. /\ Tidy(disk.io) /\ Others(disk, sdx, op.name)
      /\ (Underway(disk, sdx, op) /\ Early(disk, sdx, op)) \/ (Committed(disk, sdx, op) /\ Late(disk, sdx, op))
      BY <1>1 DEF Bytes, Doing
<1>3. CASE Underway(disk, sdx, op) /\ Early(disk, sdx, op)
  <2>1. Catalogue(sdx) /\ Layout(disk, sdx) /\ Plan(sdx, op)
        BY <1>1, <1>3 DEF Going, Underway
  <2>2. op.name \in DOMAIN sdx => Stored(disk, sdx[op.name], {})
    <3>1. op.kind \in Whole \cup {"append", "erase", "rename", "update"}
          BY <2>1, PlanFacts DEF Ops
    <3>2. op.name \in DOMAIN sdx => op.kind # "create"
          BY <2>1, PlanFacts
    <3> QED
          BY <1>3, <3>1, <3>2 DEF Early, Whole
  <2>3. \A n \in DOMAIN sdx : Stored(disk, sdx[n], {})
        BY <1>2, <2>2 DEF Others
  <2> QED
        BY <1>2, <2>1, <2>3, HostIs
<1>4. CASE Committed(disk, sdx, op) /\ Late(disk, sdx, op)
  <2> DEFINE c == After(sdx, op)
  <2>1. /\ Catalogue(c) /\ Layout(disk, c) /\ DOMAIN c = DOMAIN sdx \cup {op.name} /\ c[op.name] = op.file
        /\ \A n \in DOMAIN sdx \ {op.name} : c[n] = sdx[n] /\ Clean(disk, c[n], {}) /\ Stored(disk, c[n], {})
        /\ Stored(disk, op.file, Unsure(op))
        BY <1>1, <1>2, <1>4, AfterCommit
  <2>2. Unsure(op) = {}
        BY DEF Unsure
  <2>3. c = Done
        BY DoneIs
  <2> HIDE DEF c
  <2>4. \A n \in DOMAIN c : Stored(disk, c[n], {})
        BY <2>1, <2>2
  <2>5. disk.io.host = HostFiles(c)
        BY <1>2, <2>1, <2>4, HostIs
  <2> QED
        BY <2>3, <2>5
<1> QED
      BY <1>2, <1>3, <1>4

(* A file that the guest can read. *)
Readable(d, n, f) ==
    LET chain == ReadMapChain(d, f.maps[1], 0)
    IN  /\ d.directory[f.slot] = [status |-> "active", map |-> f.maps[1], length |-> Len(f.bytes), name |-> n]
        /\ chain.status = "read" /\ chain.maps = f.maps /\ chain.listed = f.data
        /\ \A k \in DOMAIN f.data : ReadSector(d, f.data[k]) = Block(f.bytes, k)

(* A file at rest, clean in the overlay and stored on the host, can be read. *)
LEMMA ReadableIs ==
    ASSUME NEW d, Image(d), NEW cat, Catalogue(cat), Layout(d, cat), NEW n \in DOMAIN cat, AtRest(d, cat, n),
           Clean(d, cat[n], {}), Stored(d, cat[n], {})
    PROVE  Readable(d, n, cat[n])
<1> DEFINE f == cat[n]
<1>1. \A k \in DOMAIN f.data : ReadSector(d, f.data[k]) = Block(f.bytes, k)
      BY BlocksRead
<1>2. Sound(f) /\ Reads(d, f) /\ d.directory[f.slot] = EntryOf(n, f)
      BY DEF Catalogue, AtRest
<1> HIDE DEF f
<1>3. 0 = 0
      OBVIOUS
<1>4. ReadMapChain(d, f.maps[1], 0) = [maps |-> f.maps, listed |-> f.data, current |-> 0, status |-> "read"]
      BY <1>2, FileChain
<1>5. Readable(d, n, f)
      BY <1>1, <1>2, <1>4 DEF Readable, EntryOf
<1> QED
      BY <1>5 DEF f

(* So can the files that the operation is not about. *)
LEMMA HoldRead ==
    ASSUME SdfsInv, BytesHold
    PROVE  ReadBack
<1> SUFFICES ASSUME NEW n \in DOMAIN sdx \ {op.name}
             PROVE  Readable(disk, n, sdx[n])
    BY DEF ReadBack, Readable
<1>1. CASE op = NoOp
  <2>1. Resting(disk, sdx) /\ Rested(disk, sdx)
        BY <1>1 DEF SdfsInv, BytesHold, NoOp
  <2> QED
        BY <2>1, ReadableIs DEF Resting, Rested
<1>2. CASE op # NoOp
  <2>1. Going(disk, sdx, op) /\ Bytes(disk, sdx, op)
        BY <1>2 DEF SdfsInv, BytesHold
  <2>2. /\ Others(disk, sdx, op.name)
        /\ (Underway(disk, sdx, op) /\ Early(disk, sdx, op)) \/ (Committed(disk, sdx, op) /\ Late(disk, sdx, op))
        BY <2>1 DEF Bytes, Doing
  <2>3. Image(disk) /\ Catalogue(sdx) /\ AtRest(disk, sdx, n)
        BY <2>1 DEF Going, Around
  <2>4. CASE Underway(disk, sdx, op)
    <3>1. Layout(disk, sdx) /\ Clean(disk, sdx[n], {}) /\ Stored(disk, sdx[n], {})
          BY <2>2, <2>4 DEF Underway, Others
    <3> QED
          BY <2>3, <3>1, ReadableIs
  <2>5. CASE Committed(disk, sdx, op) /\ Late(disk, sdx, op)
    <3> DEFINE c == After(sdx, op)
    <3>1. /\ Catalogue(c) /\ Layout(disk, c) /\ DOMAIN c = DOMAIN sdx \cup {op.name} /\ c[op.name] = op.file
          /\ \A m \in DOMAIN sdx \ {op.name} : c[m] = sdx[m] /\ Clean(disk, c[m], {}) /\ Stored(disk, c[m], {})
          /\ Stored(disk, op.file, Unsure(op))
          BY <2>1, <2>2, <2>5, AfterCommit
    <3> HIDE DEF c
    <3>2. n \in DOMAIN c /\ AtRest(disk, c, n)
          BY <2>3, <3>1 DEF AtRest
    <3>3. Readable(disk, n, c[n])
          BY <2>3, <3>1, <3>2, ReadableIs
    <3> QED
          BY <3>1, <3>3
  <2> QED
        BY <2>2, <2>4, <2>5
<1> QED
      BY <1>1, <1>2

-----------------------------------------------------------------------------
(* The theorems. *)

(* Every step keeps the invariant. *)
LEMMA NextKeeps ==
    ASSUME SdfsGuest, SdfsInv, SdfsNext
    PROVE  SdfsInv'
<1>1. ASSUME NEW n \in Names, NEW l \in Lengths, CreateFile(n, l)
      PROVE  SdfsInv'
      BY <1>1, CreateKeeps
<1>2. ASSUME NEW n \in Names, NEW l \in Lengths, ExtendFile(n, l)
      PROVE  SdfsInv'
      BY <1>2, ExtendKeeps
<1>3. ASSUME NEW n \in Names, NEW l \in Lengths, ReplaceFile(n, l)
      PROVE  SdfsInv'
      BY <1>3, ReplaceKeeps
<1>4. ASSUME NEW n \in Names, EraseFile(n)
      PROVE  SdfsInv'
      BY <1>4, EraseKeeps
<1>5. ASSUME NEW n \in Names, NEW k \in 1 .. LastSector, UpdateFile(n, k)
      PROVE  SdfsInv'
      BY <1>5, UpdateKeeps
<1>6. ASSUME NEW n \in Names, NEW m \in Names, RenameFile(n, m)
      PROVE  SdfsInv'
      BY <1>6, RenameKeeps
<1>7. ASSUME NEW f \in 0 .. 4, NEW x \in op.todo, GuestWrite(x, f)
      PROVE  SdfsInv'
      BY <1>7, WriteKeeps
<1> QED
      BY <1>1, <1>2, <1>3, <1>4, <1>5, <1>6, <1>7 DEF SdfsNext

(* Between two calls of write() the image lays out the files of the guest, *)
(* or is at one known point of one operation (SdfsInv).                    *)
THEOREM SdfsInvariant ==
    ASSUME SdfsGuest
    PROVE  SdfsSpec => []SdfsInv
<1>1. SdfsInit => SdfsInv
      BY InitHolds
<1>2. SdfsInv /\ [SdfsNext]_sdfsVars => SdfsInv'
  <2>1. ASSUME SdfsInv, UNCHANGED sdfsVars
        PROVE  SdfsInv'
        BY <2>1 DEF SdfsInv, sdfsVars
  <2> QED
      BY <2>1, NextKeeps
<1> QED
      BY <1>1, <1>2, PTL DEF SdfsSpec

(* No sector has two owners, and allocated, dataRefs and metadata agree    *)
(* with the files: what the commits, the delete and mount() keep.          *)
THEOREM SectorsHaveOneOwner ==
    ASSUME SdfsGuest
    PROVE  SdfsSpec => []OneOwner
<1>1. SdfsInv => OneOwner
      BY InvOwner
<1> QED
      BY <1>1, SdfsInvariant, PTL

(* The bytes of the overlay and of the host files (BytesHold), in every reachable state. *)
THEOREM BytesInvariant ==
    ASSUME SdfsGuest, SdfsStorage
    PROVE  SdfsSpec => []BytesHold
<1>1. SdfsInit => BytesHold
      BY InitBytes
<1>2. BytesHold /\ SdfsInv /\ [SdfsNext]_sdfsVars => BytesHold'
  <2>1. ASSUME BytesHold, UNCHANGED sdfsVars
        PROVE  BytesHold'
        BY <2>1 DEF BytesHold, sdfsVars
  <2> QED
      BY <2>1, NextBytes
<1> QED
      BY <1>1, <1>2, SdfsInvariant, PTL DEF SdfsSpec

(* Between two operations the host directory is that of the guest, byte for byte, *)
(* and nothing is pending.                                                        *)
THEOREM FilesAreCoherent ==
    ASSUME SdfsGuest, SdfsStorage
    PROVE  SdfsSpec => []Coherent
<1>1. SdfsInv /\ BytesHold => Coherent
      BY HoldCoherent
<1> QED
      BY <1>1, SdfsInvariant, BytesInvariant, PTL

(* In the middle of an operation the host directory is that from before it or that *)
(* from after it, never one with a half-made file; but for an update, and for one  *)
(* that claims sectors which an earlier update left in the overlay.                *)
THEOREM FilesAreWhole ==
    ASSUME SdfsGuest, SdfsStorage
    PROVE  SdfsSpec => []WholeFiles
<1>1. SdfsInv /\ BytesHold => WholeFiles
      BY HoldWhole
<1> QED
      BY <1>1, SdfsInvariant, BytesInvariant, PTL

(* A file that no operation is about reads back through its directory entry, its *)
(* maps and its sectors as the guest left it.                                    *)
THEOREM FilesReadBack ==
    ASSUME SdfsGuest, SdfsStorage
    PROVE  SdfsSpec => []ReadBack
<1>1. SdfsInv /\ BytesHold => ReadBack
      BY HoldRead
<1> QED
      BY <1>1, SdfsInvariant, BytesInvariant, PTL

(* write() refuses only when a storage call has failed: no order of sectors makes a *)
(* hypothesis that contradicts itself, if no map sector is linked to while the      *)
(* image has an old content of it (SdfsGuest has ~HeadFirst).                       *)
THEOREM OnlyStorageRefuses ==
    ASSUME SdfsGuest, SdfsStorage
    PROVE  SdfsSpec => RefusedByStorageOnly
<1>1. SdfsInv /\ BytesHold /\ [SdfsNext]_sdfsVars => [sdfsResult' = "error" => sdfsFaults' > sdfsFaults]_sdfsVars
      BY NextBytes
<1> QED
      BY <1>1, SdfsInvariant, BytesInvariant, PTL DEF SdfsSpec, RefusedByStorageOnly

(* A write that is refused leaves the host directory as it was, with the same *)
(* exceptions: CommitCreate, CommitAppend and CommitReplace put it back.      *)
THEOREM RefusedKeepsHost ==
    ASSUME SdfsGuest, SdfsStorage
    PROVE  SdfsSpec => RefusedLeavesHost
<1>1. SdfsInv /\ BytesHold /\ [SdfsNext]_sdfsVars
          => [sdfsResult' = "error" /\ op.kind # "update" /\ ~op.stale => disk'.io.host = disk.io.host]_sdfsVars
      BY NextBytes
<1> QED
      BY <1>1, SdfsInvariant, BytesInvariant, PTL DEF SdfsSpec, RefusedLeavesHost
=============================================================================
