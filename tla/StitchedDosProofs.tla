------------------------- MODULE StitchedDosProofs -------------------------
(***************************************************************************)
(* The handles of the storage stay in order under any sequence of calls,   *)
(* for any number of paths, modes, handles and cache entries.              *)
(*                                                                         *)
(* The DOS 2 disk holds the guest's files, and the host directory too, for *)
(* any host directory, sectors, slots, names, lengths and operations, and  *)
(* whichever storage calls fail.                                           *)
(*                                                                         *)
(* The inductive invariant DosInv says where the image and the storage are *)
(* in the guest's operation, phase by phase: the files it is not about are *)
(* at rest (Stored), its own one is as it was before the directory entry   *)
(* is written, is followed sector by sector (AtData), and is whole before  *)
(* the VTOC and the closed entry.  The invariant of the storage's handles  *)
(* is part of it: an open that hits a stale handle would write elsewhere.  *)
(***************************************************************************)
EXTENDS StitchedDos, FiniteSetTheorems, TLAPS

-----------------------------------------------------------------------------
(* The handles of the storage. *)

Entries == [path : Paths, mode : Modes, handle : Handles]

Folders == UNION {[P -> Seq(Int)] : P \in SUBSET Paths}
Fds     == UNION {[H -> Paths] : H \in SUBSET Handles}
Storages ==
    [files : Folders, fds : Fds, cache : Seq(Entries), active : Handles \cup {NoHandle},
     cached : BOOLEAN, fails : Nat, ok : BOOLEAN]

(* The inductive invariant: besides HandlesInOrder, what it needs of types. *)
HandleInv(s) ==
    s \in Storages /\ Kept(s) /\ Matching(s) /\ Len(s.cache) <= CacheSize

IOInv == HandleInv(io)

(* What a call may leave behind: a count of calls and its result. *)
LEMMA OutcomeInv ==
    ASSUME NEW s, HandleInv(s), NEW t \in Storages,
           t.files = s.files, t.fds = s.fds, t.cache = s.cache, t.active = s.active, t.cached = s.cached
    PROVE  HandleInv(t)
BY DEF HandleInv, Kept, Matching, CacheHandles

LEMMA FailInv ==
    ASSUME NEW s, HandleInv(s)
    PROVE  HandleInv([s EXCEPT !.ok = FALSE]) /\ HandleInv([s EXCEPT !.ok = TRUE])
<1>1. [s EXCEPT !.ok = FALSE] \in Storages /\ [s EXCEPT !.ok = TRUE] \in Storages
  BY DEF HandleInv, Storages
<1>2. \A b \in BOOLEAN : LET t == [s EXCEPT !.ok = b]
                         IN  t.files = s.files /\ t.fds = s.fds /\ t.cache = s.cache
                             /\ t.active = s.active /\ t.cached = s.cached
  BY DEF HandleInv, Storages
<1> QED BY <1>1, <1>2, OutcomeInv

LEMMA FailingInv ==
    ASSUME NEW s, HandleInv(s), NEW n \in Nat
    PROVE  HandleInv([s EXCEPT !.fails = n])
<1> DEFINE t == [s EXCEPT !.fails = n]
<1>1. t \in Storages
  BY DEF HandleInv, Storages
<1>2. t.files = s.files /\ t.fds = s.fds /\ t.cache = s.cache /\ t.active = s.active /\ t.cached = s.cached
  BY DEF HandleInv, Storages
<1> QED BY <1>1, <1>2, OutcomeInv

LEMMA CallInv ==
    ASSUME NEW s, HandleInv(s)
    PROVE  /\ HandleInv(Call(s))
           /\ Call(s).files = s.files /\ Call(s).fds = s.fds /\ Call(s).cache = s.cache
           /\ Call(s).active = s.active /\ Call(s).cached = s.cached
<1> DEFINE n == IF s.fails > 0 THEN s.fails - 1 ELSE 0
           b == s.fails # 1
<1>1. n \in Nat
  BY DEF HandleInv, Storages
<1>2. b \in BOOLEAN
  OBVIOUS
<1>3. [s EXCEPT !.fails = n, !.ok = b] \in Storages
  <2> HIDE DEF n, b
  <2> QED BY <1>1, <1>2 DEF HandleInv, Storages
<1>4. Call(s) = [s EXCEPT !.fails = n, !.ok = b]
  BY Zenon DEF Call
<1>5. Call(s) \in Storages
  BY <1>3, <1>4, Zenon
<1>6. /\ Call(s).files = s.files /\ Call(s).fds = s.fds /\ Call(s).cache = s.cache
      /\ Call(s).active = s.active /\ Call(s).cached = s.cached
  BY DEF HandleInv, Storages, Call
<1> QED BY <1>5, <1>6, OutcomeInv

LEMMA CacheHandlesType ==
    ASSUME NEW s \in Storages
    PROVE  CacheHandles(s) \subseteq Handles
<1>1. s.cache \in Seq(Entries)
  BY DEF Storages
<1>2. \A i \in DOMAIN s.cache : s.cache[i] \in Entries
  BY <1>1
<1>3. \A i \in DOMAIN s.cache : s.cache[i].handle \in Handles
  BY <1>2 DEF Entries
<1> QED BY <1>3 DEF CacheHandles

(* Closing ends what is active: its handle stays open if it is cached. *)
LEMMA CloseInv ==
    ASSUME NEW s, HandleInv(s)
    PROVE  /\ HandleInv(CloseFile(s))
           /\ CloseFile(s).active = NoHandle
           /\ CloseFile(s).cache = s.cache /\ CloseFile(s).files = s.files
<1> DEFINE c == CloseFile(s)
<1>1. /\ c.fds = IF s.cached THEN s.fds ELSE DropFds(s.fds, {s.active})
      /\ c.active = NoHandle /\ c.cached = FALSE /\ c.cache = s.cache /\ c.files = s.files
      /\ c.fails = s.fails /\ c.ok = s.ok
  BY DEF HandleInv, Storages, CloseFile
<1>2. DOMAIN c.fds = CacheHandles(s)
  <2>1. CacheHandles(s) \subseteq Handles /\ NoHandle \notin Handles
    BY CacheHandlesType, HandleAssumption DEF HandleInv
  <2>2. DOMAIN s.fds = CacheHandles(s) \cup (IF s.active = NoHandle THEN {} ELSE {s.active})
    BY DEF HandleInv, Kept
  <2>3. s.active # NoHandle => (s.cached <=> s.active \in CacheHandles(s))
    BY DEF HandleInv, Matching
  <2>4. CASE s.cached
    BY <1>1, <2>2, <2>3, <2>4
  <2>5. CASE ~ s.cached
    <3>1. DOMAIN c.fds = DOMAIN s.fds \ {s.active}
      BY <1>1, <2>5 DEF DropFds
    <3> QED BY <2>1, <2>2, <2>3, <2>5, <3>1
  <2> QED BY <2>4, <2>5
<1>3. c \in Storages
  <2>1. \E H \in SUBSET Handles : s.fds \in [H -> Paths]
    BY DEF HandleInv, Storages, Fds
  <2>2. PICK H \in SUBSET Handles : s.fds \in [H -> Paths]
    BY <2>1
  <2>3. DropFds(s.fds, {s.active}) \in [H \ {s.active} -> Paths]
    BY <2>2 DEF DropFds
  <2>4. c.fds \in Fds
    BY <1>1, <2>2, <2>3 DEF Fds
  <2> QED BY <1>1, <2>4 DEF HandleInv, Storages, CloseFile
<1>4. \A h \in DOMAIN c.fds : h \in DOMAIN s.fds /\ c.fds[h] = s.fds[h]
  BY <1>1 DEF DropFds
<1>5. Kept(c)
  BY <1>1, <1>2 DEF Kept, CacheHandles
<1>6. Matching(c)
  <2>1. \A i \in DOMAIN s.cache : s.cache[i].handle \in DOMAIN c.fds
    BY <1>2 DEF CacheHandles
  <2>2. \A i \in DOMAIN s.cache : c.fds[s.cache[i].handle] = s.cache[i].path
    BY <1>4, <2>1 DEF HandleInv, Matching
  <2>3. \A h \in DOMAIN c.fds : c.fds[h] \in DOMAIN c.files
    BY <1>1, <1>4 DEF HandleInv, Matching
  <2>4. \A i, j \in DOMAIN s.cache : s.cache[i].handle = s.cache[j].handle => i = j
    BY DEF HandleInv, Matching
  <2> HIDE DEF c
  <2> QED BY <1>1, <2>2, <2>3, <2>4 DEF Matching
<1> QED BY <1>1, <1>3, <1>5, <1>6 DEF HandleInv

LEMMA CacheCloseAllInv ==
    ASSUME NEW s, HandleInv(s)
    PROVE  /\ HandleInv(CacheCloseAll(s))
           /\ DOMAIN CacheCloseAll(s).fds = {} /\ CacheCloseAll(s).cache = <<>>
           /\ CacheCloseAll(s).active = NoHandle /\ CacheCloseAll(s).files = s.files
<1> DEFINE c == CloseFile(s)
           a == CacheCloseAll(s)
<1>1. HandleInv(c) /\ c.active = NoHandle /\ c.cache = s.cache /\ c.files = s.files
  BY CloseInv
<1>2. /\ a = [c EXCEPT !.fds = DropFds(c.fds, CacheHandles(s)), !.cache = <<>>]
  BY DEF CacheCloseAll
<1>3. DOMAIN c.fds = CacheHandles(s)
  BY <1>1 DEF HandleInv, Kept, CacheHandles
<1>4. /\ a.fds = DropFds(c.fds, CacheHandles(s)) /\ a.cache = <<>>
      /\ a.active = NoHandle /\ a.files = s.files
  BY <1>1, <1>2 DEF HandleInv, Storages
<1>5. DOMAIN a.fds = {}
  BY <1>3, <1>4 DEF DropFds
<1>6. a \in Storages
  <2>1. a.fds \in [{} -> Paths]
    BY <1>3, <1>4 DEF DropFds
  <2>2. a.fds \in Fds
    BY <2>1 DEF Fds
  <2>3. <<>> \in Seq(Entries)
    OBVIOUS
  <2> QED BY <1>1, <1>2, <1>4, <2>2, <2>3 DEF HandleInv, Storages
<1>7. Kept(a) /\ Matching(a) /\ Len(a.cache) <= CacheSize
  <2>1. DOMAIN a.cache = {} /\ Len(a.cache) = 0
    BY <1>4
  <2>2. CacheHandles(a) = {}
    BY <2>1 DEF CacheHandles
  <2> HIDE DEF a
  <2> QED BY <1>4, <1>5, <2>1, <2>2, HandleAssumption DEF Kept, Matching
<1> QED BY <1>4, <1>5, <1>6, <1>7 DEF HandleInv

(* A hit moves its entry to the front; the handles are the same ones. *)
LEMMA OpenHitInv ==
    ASSUME NEW s, HandleInv(s), s.active = NoHandle, NEW i \in DOMAIN s.cache
    PROVE  HandleInv(OpenHit(s, i))
<1> DEFINE o == OpenHit(s, i)
           n == Len(s.cache)
           from(j) == IF j = 1 THEN i ELSE IF j <= i THEN j - 1 ELSE j
<1>1. n \in Nat /\ DOMAIN s.cache = 1 .. n /\ i \in 1 .. n /\ s.cache \in [1 .. n -> Entries]
  BY DEF HandleInv, Storages
<1>2. \A j \in 1 .. n : from(j) \in 1 .. n
  BY <1>1
<1>3. o.cache = [j \in 1 .. n |-> s.cache[from(j)]]
  <2>1. o.cache = [j \in 1 .. n |-> IF j = 1 THEN s.cache[i] ELSE IF j <= i THEN s.cache[j - 1] ELSE s.cache[j]]
    BY <1>1 DEF OpenHit, HandleInv, Storages
  <2> QED BY <2>1
<1>4. o.cache \in Seq(Entries) /\ Len(o.cache) = n /\ DOMAIN o.cache = 1 .. n
  BY <1>1, <1>2, <1>3
<1>5. /\ o.active = s.cache[i].handle /\ o.cached = TRUE /\ o.ok = TRUE
      /\ o.fds = s.fds /\ o.files = s.files /\ o.fails = s.fails
  BY DEF OpenHit, HandleInv, Storages
<1>6. o \in Storages
  BY <1>1, <1>4, <1>5 DEF OpenHit, HandleInv, Storages, Entries
<1>7. \A j, k \in 1 .. n : from(j) = from(k) => j = k
  BY <1>1
<1>8. \A k \in 1 .. n : \E j \in 1 .. n : from(j) = k
  <2> TAKE k \in 1 .. n
  <2>1. CASE k = i
    BY <1>1, <2>1
  <2>2. CASE k < i
    <3>1. k + 1 \in 1 .. n /\ from(k + 1) = k
      BY <1>1, <2>2
    <3> QED BY <3>1
  <2>3. CASE k > i
    BY <1>1, <2>3
  <2> QED BY <1>1, <2>1, <2>2, <2>3
<1>9. CacheHandles(o) = CacheHandles(s)
  <2>1. CacheHandles(o) = {s.cache[from(j)].handle : j \in 1 .. n}
    <3>1. \A j \in 1 .. n : o.cache[j].handle = s.cache[from(j)].handle
      BY <1>3
    <3> HIDE DEF from, o
    <3> QED BY <1>4, <3>1 DEF CacheHandles
  <2>2. CacheHandles(s) = {s.cache[k].handle : k \in 1 .. n}
    BY <1>1 DEF CacheHandles
  <2> HIDE DEF from
  <2> QED BY <1>2, <1>8, <2>1, <2>2
<1>10. Kept(o)
  BY <1>1, <1>5, <1>9, HandleAssumption DEF HandleInv, Kept, CacheHandles
<1>11. Matching(o)
  <2>1. \A j \in 1 .. n : o.fds[o.cache[j].handle] = o.cache[j].path
    BY <1>1, <1>2, <1>3, <1>5 DEF HandleInv, Matching
  <2>2. \A j, k \in 1 .. n : o.cache[j].handle = o.cache[k].handle => j = k
    <3> HIDE DEF from
    <3> QED BY <1>1, <1>2, <1>3, <1>7 DEF HandleInv, Matching
  <2>3. o.active \in CacheHandles(o)
    BY <1>1, <1>5, <1>9 DEF CacheHandles
  <2>4. \A h \in DOMAIN o.fds : o.fds[h] \in DOMAIN o.files
    BY <1>5 DEF HandleInv, Matching
  <2> QED BY <1>4, <1>5, <2>1, <2>2, <2>3, <2>4 DEF Matching
<1> QED BY <1>4, <1>6, <1>10, <1>11 DEF HandleInv

(* A miss puts a fresh handle in front; the one that falls off the end of a *)
(* full cache is closed.                                                    *)
LEMMA OpenMissInv ==
    ASSUME NEW s, HandleInv(s), s.active = NoHandle,
           NEW path \in DOMAIN s.files, NEW mode \in Modes, NEW h \in Handles \ DOMAIN s.fds
    PROVE  HandleInv(OpenMiss(s, path, mode, h))
<1> DEFINE o == OpenMiss(s, path, mode, h)
           n == Len(s.cache)
           m == IF n = CacheSize THEN CacheSize ELSE n + 1
           entry == [path |-> path, mode |-> mode, handle |-> h]
           old == IF n = CacheSize THEN {s.cache[CacheSize].handle} ELSE {}
<1>1. /\ n \in Nat /\ DOMAIN s.cache = 1 .. n /\ s.cache \in [1 .. n -> Entries]
      /\ n <= CacheSize /\ CacheSize \in Nat \ {0}
  BY HandleAssumption DEF HandleInv, Storages
<1>2. m \in 1 .. CacheSize /\ m <= n + 1
  BY <1>1
<1>3. /\ o.fds = [x \in (DOMAIN s.fds \ old) \cup {h} |-> IF x = h THEN path ELSE s.fds[x]]
      /\ o.cache = [j \in 1 .. m |-> IF j = 1 THEN entry ELSE s.cache[j - 1]]
      /\ o.active = h /\ o.cached = TRUE /\ o.files = s.files /\ o.fails = s.fails /\ o.ok = s.ok
  BY DEF OpenMiss, HandleInv, Storages
<1>4. path \in Paths
  BY DEF HandleInv, Storages, Folders
<1>5. entry \in Entries
  BY <1>4 DEF Entries
<1>6. \A j \in 2 .. m : j - 1 \in 1 .. n
  BY <1>1, <1>2
<1>7. o.cache \in Seq(Entries) /\ Len(o.cache) = m /\ DOMAIN o.cache = 1 .. m
  <2>1. \A j \in 1 .. m : j # 1 => s.cache[j - 1] \in Entries
    <3> HIDE DEF m
    <3>1. \A j \in 1 .. m : j # 1 => j - 1 \in 1 .. n
      BY <1>2, <1>6
    <3> QED BY <1>1, <3>1
  <2>2. o.cache = [j \in 1 .. m |-> IF j = 1 THEN entry ELSE s.cache[j - 1]]
    BY <1>3
  <2>3. o.cache \in [1 .. m -> Entries]
    <3> DEFINE c == o.cache
    <3>1. c = [j \in 1 .. m |-> IF j = 1 THEN entry ELSE s.cache[j - 1]]
      BY <2>2
    <3> HIDE DEF m, entry, c
    <3>2. c \in [1 .. m -> Entries]
      BY <1>5, <2>1, <3>1
    <3> QED BY <3>2 DEF c
  <2> HIDE DEF m
  <2> QED BY <1>2, <2>3
<1>8. \A j \in 1 .. m : o.cache[j] = IF j = 1 THEN entry ELSE s.cache[j - 1]
  <2> HIDE DEF m
  <2> QED BY <1>3
<1>9. DOMAIN s.fds = CacheHandles(s)
  BY DEF HandleInv, Kept
<1>10. \A x : x \in CacheHandles(s) <=> \E k \in 1 .. n : x = s.cache[k].handle
  BY <1>1 DEF CacheHandles
<1>11. \A x : x \in CacheHandles(o) <=> \E j \in 1 .. m : x = o.cache[j].handle
  <2> HIDE DEF o, m
  <2> QED BY <1>7 DEF CacheHandles
<1>12. \A j, k \in 1 .. n : s.cache[j].handle = s.cache[k].handle => j = k
  BY <1>1 DEF HandleInv, Matching
<1>13. DOMAIN o.fds = CacheHandles(o)
  <2>1. ASSUME NEW x \in DOMAIN o.fds PROVE x \in CacheHandles(o)
    <3>1. CASE x = h
      <4>1. 1 \in 1 .. m /\ o.cache[1].handle = h
        BY <1>2, <1>8
      <4> QED BY <1>11, <3>1, <4>1
    <3>2. CASE x # h
      <4>1. x \in DOMAIN s.fds /\ x \notin old
        BY <1>3, <2>1, <3>2
      <4>2. PICK k \in 1 .. n : x = s.cache[k].handle
        BY <1>9, <1>10, <4>1
      <4>3. k + 1 \in 1 .. m
        BY <1>1, <4>1, <4>2
      <4>4. o.cache[k + 1].handle = x
        BY <1>1, <1>8, <4>2, <4>3
      <4> QED BY <1>11, <4>3, <4>4
    <3> QED BY <3>1, <3>2
  <2>2. ASSUME NEW x \in CacheHandles(o) PROVE x \in DOMAIN o.fds
    <3>1. PICK j \in 1 .. m : x = o.cache[j].handle
      BY <1>11, <2>2
    <3>2. CASE j = 1
      BY <1>3, <1>8, <3>1, <3>2
    <3>3. CASE j # 1
      <4>1. j - 1 \in 1 .. n /\ x = s.cache[j - 1].handle
        BY <1>6, <1>8, <1>2, <3>1, <3>3
      <4>2. x \in DOMAIN s.fds
        BY <1>9, <1>10, <4>1
      <4>3. x \notin old
        BY <1>1, <1>2, <1>12, <4>1
      <4> QED BY <1>3, <4>2, <4>3
    <3> QED BY <3>2, <3>3
  <2> QED BY <2>1, <2>2
<1>14. o \in Storages
  <2>1. PICK H \in SUBSET Handles : s.fds \in [H -> Paths]
    BY DEF HandleInv, Storages, Fds
  <2>2. o.fds \in [(H \ old) \cup {h} -> Paths]
    BY <1>3, <1>4, <2>1
  <2>3. (H \ old) \cup {h} \in SUBSET Handles
    BY <2>1
  <2>4. o.fds \in Fds
    BY <2>2, <2>3 DEF Fds
  <2> QED BY <1>3, <1>7, <2>4 DEF OpenMiss, HandleInv, Storages
<1>15. Matching(o)
  <2>1. \A j \in 1 .. m : o.fds[o.cache[j].handle] = o.cache[j].path
    <3> TAKE j \in 1 .. m
    <3>1. CASE j = 1
      BY <1>3, <1>8, <3>1
    <3>2. CASE j # 1
      <4>1. j - 1 \in 1 .. n /\ o.cache[j] = s.cache[j - 1]
        BY <1>6, <1>8, <1>2, <3>2
      <4>2. o.cache[j].handle \in DOMAIN o.fds /\ o.cache[j].handle # h
        BY <1>9, <1>10, <1>11, <1>13, <4>1
      <4> QED BY <1>1, <1>3, <4>1, <4>2 DEF HandleInv, Matching
    <3> QED BY <3>1, <3>2
  <2>2. ASSUME NEW j \in 1 .. m, NEW k \in 1 .. m, o.cache[j].handle = o.cache[k].handle
        PROVE  j = k
    <3>1. ASSUME NEW i \in 1 .. m, i # 1
          PROVE  i - 1 \in 1 .. n /\ o.cache[i].handle = s.cache[i - 1].handle /\ o.cache[i].handle # h
      <4>1. i - 1 \in 1 .. n
        BY <1>2, <1>6, <3>1
      <4>2. o.cache[i].handle = s.cache[i - 1].handle
        BY <1>8, <3>1
      <4>3. s.cache[i - 1].handle \in DOMAIN s.fds
        BY <1>9, <1>10, <4>1
      <4> QED BY <4>1, <4>2, <4>3
    <3>2. o.cache[1].handle = h
      BY <1>2, <1>8
    <3>3. CASE j = 1 \/ k = 1
      BY <2>2, <3>1, <3>2, <3>3
    <3>4. CASE j # 1 /\ k # 1
      <4>1. j - 1 = k - 1
        BY <1>12, <2>2, <3>1, <3>4
      <4> QED BY <1>2, <4>1
    <3> QED BY <3>3, <3>4
  <2>3. h \in CacheHandles(o)
    BY <1>3, <1>13
  <2>4. \A x \in DOMAIN o.fds : o.fds[x] \in DOMAIN o.files
    BY <1>3 DEF HandleInv, Matching
  <2> HIDE DEF o
  <2> QED BY <1>3, <1>7, <2>1, <2>2, <2>3, <2>4 DEF Matching
<1>16. Kept(o)
  BY <1>3, <1>13 DEF Kept
<1> QED BY <1>2, <1>7, <1>14, <1>15, <1>16 DEF HandleInv

(* A file that is created is open besides the cache. *)
LEMMA OpenCreateInv ==
    ASSUME NEW s, HandleInv(s), s.active = NoHandle,
           NEW path \in Paths, NEW h \in Handles \ DOMAIN s.fds
    PROVE  HandleInv(OpenCreate(s, path, h))
<1> DEFINE o == OpenCreate(s, path, h)
<1>1. /\ o.fds = [x \in DOMAIN s.fds \cup {h} |-> IF x = h THEN path ELSE s.fds[x]]
      /\ o.files = [p \in DOMAIN s.files \cup {path} |-> IF p \in DOMAIN s.files THEN s.files[p] ELSE <<>>]
      /\ o.active = h /\ o.cached = FALSE /\ o.cache = s.cache /\ o.fails = s.fails /\ o.ok = s.ok
  BY DEF OpenCreate, HandleInv, Storages
<1>2. o.fds \in Fds
  <2>1. PICK H \in SUBSET Handles : s.fds \in [H -> Paths]
    BY DEF HandleInv, Storages, Fds
  <2>2. o.fds \in [H \cup {h} -> Paths] /\ H \cup {h} \in SUBSET Handles
    BY <1>1, <2>1
  <2> QED BY <2>2 DEF Fds
<1>3. o.files \in Folders
  <2>1. PICK P \in SUBSET Paths : s.files \in [P -> Seq(Int)]
    BY DEF HandleInv, Storages, Folders
  <2>2. <<>> \in Seq(Int)
    OBVIOUS
  <2>3. o.files \in [P \cup {path} -> Seq(Int)] /\ P \cup {path} \in SUBSET Paths
    BY <1>1, <2>1, <2>2
  <2> QED BY <2>3 DEF Folders
<1>4. o \in Storages
  BY <1>1, <1>2, <1>3 DEF OpenCreate, HandleInv, Storages
<1>5. DOMAIN s.fds = CacheHandles(s) /\ CacheHandles(o) = CacheHandles(s)
  BY <1>1 DEF HandleInv, Kept, CacheHandles
<1>6. Kept(o)
  BY <1>1, <1>5, HandleAssumption DEF Kept
<1>7. Matching(o)
  <2>1. \A i \in DOMAIN s.cache : s.cache[i].handle \in DOMAIN s.fds
    BY <1>5 DEF CacheHandles
  <2>2. \A i \in DOMAIN o.cache : o.fds[o.cache[i].handle] = o.cache[i].path
    BY <1>1, <2>1 DEF HandleInv, Matching
  <2>3. h \notin CacheHandles(o)
    BY <1>5
  <2>4. \A x \in DOMAIN o.fds : o.fds[x] \in DOMAIN o.files
    BY <1>1 DEF HandleInv, Matching
  <2>5. \A i, j \in DOMAIN o.cache : o.cache[i].handle = o.cache[j].handle => i = j
    BY <1>1 DEF HandleInv, Matching
  <2> HIDE DEF o
  <2> QED BY <1>1, <2>2, <2>3, <2>4, <2>5 DEF Matching
<1> QED BY <1>1, <1>4, <1>6, <1>7 DEF HandleInv

(* Open, whichever way it goes. *)
LEMMA OpenFileInv ==
    ASSUME NEW s, HandleInv(s), NEW path \in Paths, NEW mode \in Modes, NEW create \in BOOLEAN, NEW h
    PROVE  HandleInv(OpenFile(s, path, mode, create, h))
<1> DEFINE c == CloseFile(s)
           b == Call(c)
           hits == Hits(c, path, mode)
           fails == ~b.ok \/ h \notin Handles \ DOMAIN c.fds \/ (~create /\ path \notin DOMAIN c.files)
<1>1. HandleInv(c) /\ c.active = NoHandle
  BY CloseInv
<1>2. /\ HandleInv(b) /\ b.files = c.files /\ b.fds = c.fds /\ b.active = NoHandle
  BY <1>1, CallInv
<1>3. OpenFile(s, path, mode, create, h) =
        IF ~create /\ hits # {} THEN OpenHit(c, CHOOSE i \in hits : TRUE)
        ELSE IF fails THEN [b EXCEPT !.ok = FALSE]
        ELSE IF create THEN OpenCreate(b, path, h) ELSE OpenMiss(b, path, mode, h)
  BY DEF OpenFile
<1>4. CASE ~create /\ hits # {}
  <2>1. (CHOOSE i \in hits : TRUE) \in DOMAIN c.cache
    BY <1>4 DEF Hits
  <2>2. HandleInv(OpenHit(c, CHOOSE i \in hits : TRUE))
    BY <1>1, <2>1, OpenHitInv
  <2> QED BY <1>3, <1>4, <2>2
<1>5. CASE ~(~create /\ hits # {}) /\ fails
  <2>1. HandleInv([b EXCEPT !.ok = FALSE])
    BY <1>2, FailInv
  <2> HIDE DEF b, fails
  <2> QED BY <1>3, <1>5, <2>1
<1>6. CASE ~(~create /\ hits # {}) /\ ~fails /\ create
  <2>1. HandleInv(OpenCreate(b, path, h))
    BY <1>2, <1>6, OpenCreateInv
  <2> HIDE DEF b, fails
  <2> QED BY <1>3, <1>6, <2>1
<1>7. CASE ~(~create /\ hits # {}) /\ ~fails /\ ~create
  <2>1. HandleInv(OpenMiss(b, path, mode, h))
    BY <1>2, <1>7, OpenMissInv
  <2> HIDE DEF b, fails
  <2> QED BY <1>3, <1>7, <2>1
<1> QED BY <1>4, <1>5, <1>6, <1>7

(* Contents: a write or a truncate keeps the other files and the names. *)
LEMMA ContentsInv ==
    ASSUME NEW s, HandleInv(s), NEW p \in DOMAIN s.files, NEW bytes \in Seq(Int)
    PROVE  HandleInv([s EXCEPT !.files[p] = bytes])
<1> DEFINE t == [s EXCEPT !.files[p] = bytes]
           f == [s.files EXCEPT ![p] = bytes]
<1>1. t = [s EXCEPT !.files = f]
  OBVIOUS
<1>2. f \in Folders /\ DOMAIN f = DOMAIN s.files
  <2>1. PICK P \in SUBSET Paths : s.files \in [P -> Seq(Int)]
    BY DEF HandleInv, Storages, Folders
  <2>2. f \in [P -> Seq(Int)]
    BY <2>1
  <2> QED BY <2>1, <2>2 DEF Folders
<1>3. t \in Storages /\ t.files = f /\ t.fds = s.fds /\ t.cache = s.cache /\ t.active = s.active
      /\ t.cached = s.cached
  <2> HIDE DEF f
  <2> QED BY <1>1, <1>2 DEF HandleInv, Storages
<1>4. Kept(t) /\ Len(t.cache) <= CacheSize
  <2> HIDE DEF t, f
  <2> QED BY <1>3 DEF HandleInv, Kept, CacheHandles
<1>5. Matching(t)
  <2> HIDE DEF t, f
  <2> QED BY <1>2, <1>3 DEF HandleInv, Matching, CacheHandles
<1> QED BY <1>3, <1>4, <1>5 DEF HandleInv

LEMMA WrittenType ==
    ASSUME NEW old \in Seq(Int), NEW bytes \in Seq(Int), NEW at \in Nat, NEW n \in Nat
    PROVE  Written(old, bytes, at) \in Seq(Int) /\ Resized(old, n) \in Seq(Int)
<1> DEFINE m == IF at + Len(bytes) > Len(old) THEN at + Len(bytes) ELSE Len(old)
<1>1. m \in Nat
  OBVIOUS
<1>2. Written(old, bytes, at) \in [1 .. m -> Int]
  <2>1. \A k \in 1 .. m : k > at /\ k <= at + Len(bytes) => bytes[k - at] \in Int
    OBVIOUS
  <2>2. \A k \in 1 .. m : k <= Len(old) => old[k] \in Int
    OBVIOUS
  <2> HIDE DEF m
  <2>3. [k \in 1 .. m |-> IF k > at /\ k <= at + Len(bytes) THEN bytes[k - at]
                          ELSE IF k <= Len(old) THEN old[k] ELSE 0] \in [1 .. m -> Int]
    BY <2>1, <2>2
  <2> QED BY <2>3 DEF Written, m
<1>3. Resized(old, n) \in [1 .. n -> Int]
  BY DEF Resized
<1> HIDE DEF m
<1>4. \A k \in Nat : \A f : f \in [1 .. k -> Int] => f \in Seq(Int)
  OBVIOUS
<1> QED BY <1>1, <1>2, <1>3, <1>4

LEMMA FileType ==
    ASSUME NEW s, HandleInv(s), NEW p \in DOMAIN s.files
    PROVE  s.files[p] \in Seq(Int) /\ p \in Paths
BY DEF HandleInv, Storages, Folders

LEMMA PwriteInv ==
    ASSUME NEW s, HandleInv(s), NEW bytes \in Seq(Int), NEW at \in Nat
    PROVE  HandleInv(PwriteFile(s, bytes, at))
<1> DEFINE b == Call(s)
           p == s.fds[s.active]
<1>1. /\ HandleInv(b) /\ b.files = s.files /\ b.fds = s.fds /\ b.active = s.active
  BY CallInv
<1>2. CASE s.active = NoHandle \/ ~b.ok
  BY <1>1, <1>2, FailInv DEF PwriteFile
<1>3. CASE ~(s.active = NoHandle \/ ~b.ok)
  <2>1. p \in DOMAIN s.files
    BY <1>3 DEF HandleInv, Kept, Matching
  <2>2. Written(b.files[p], bytes, at) \in Seq(Int)
    BY <1>1, <2>1, FileType, WrittenType
  <2>3. HandleInv([b EXCEPT !.files[p] = Written(b.files[p], bytes, at)])
    <3> HIDE DEF b, p
    <3> QED BY <1>1, <2>1, <2>2, ContentsInv
  <2>4. PwriteFile(s, bytes, at) = [b EXCEPT !.files[p] = Written(b.files[p], bytes, at)]
    BY <1>3, Zenon DEF PwriteFile
  <2> QED BY <2>3, <2>4, Zenon
<1> QED BY <1>2, <1>3

LEMMA TruncateInv ==
    ASSUME NEW s, HandleInv(s), NEW path \in Paths, NEW n \in Nat
    PROVE  HandleInv(TruncateFile(s, path, n))
<1> DEFINE b == Call(CacheCloseAll(s))
<1>1. HandleInv(b)
  BY CacheCloseAllInv, CallInv
<1>2. CASE ~b.ok \/ path \notin DOMAIN b.files
  BY <1>1, <1>2, FailInv DEF TruncateFile
<1>3. CASE ~(~b.ok \/ path \notin DOMAIN b.files)
  <2>1. Resized(b.files[path], n) \in Seq(Int)
    BY <1>1, <1>3, FileType, WrittenType
  <2>2. HandleInv([b EXCEPT !.files[path] = Resized(b.files[path], n)])
    <3> HIDE DEF b
    <3> QED BY <1>1, <1>3, <2>1, ContentsInv
  <2>3. TruncateFile(s, path, n) = [b EXCEPT !.files[path] = Resized(b.files[path], n)]
    BY <1>3, Zenon DEF TruncateFile
  <2> QED BY <2>2, <2>3, Zenon
<1> QED BY <1>2, <1>3

(* With no handle open, files may come and go. *)
LEMMA NoHandlesInv ==
    ASSUME NEW s, HandleInv(s), DOMAIN s.fds = {}, s.cache = <<>>, s.active = NoHandle,
           NEW t \in Storages, t.fds = s.fds, t.cache = s.cache, t.active = s.active
    PROVE  HandleInv(t)
<1>1. Len(t.cache) = 0 /\ DOMAIN t.cache = {}
  OBVIOUS
<1>2. CacheHandles(t) = {}
  BY <1>1 DEF CacheHandles
<1> QED BY <1>1, <1>2, HandleAssumption DEF HandleInv, Kept, Matching

LEMMA RemoveInv ==
    ASSUME NEW s, HandleInv(s), NEW path \in Paths
    PROVE  HandleInv(RemoveFile(s, path))
<1> DEFINE b == Call(CacheCloseAll(s))
           f == [p \in DOMAIN b.files \ {path} |-> b.files[p]]
           t == [b EXCEPT !.files = f]
<1>1. HandleInv(b) /\ DOMAIN b.fds = {} /\ b.cache = <<>> /\ b.active = NoHandle
  BY CacheCloseAllInv, CallInv
<1>2. f \in Folders
  <2>1. PICK P \in SUBSET Paths : b.files \in [P -> Seq(Int)]
    BY <1>1 DEF HandleInv, Storages, Folders
  <2>2. f \in [P \ {path} -> Seq(Int)] /\ P \ {path} \in SUBSET Paths
    BY <2>1
  <2> QED BY <2>2 DEF Folders
<1>3. t \in Storages /\ t.fds = b.fds /\ t.cache = b.cache /\ t.active = b.active
  <2> HIDE DEF b, f
  <2> QED BY <1>1, <1>2 DEF HandleInv, Storages
<1>4. HandleInv(t)
  <2> HIDE DEF b, t
  <2> QED BY <1>1, <1>3, NoHandlesInv
<1>5. HandleInv([b EXCEPT !.ok = FALSE])
  <2> HIDE DEF b
  <2> QED BY <1>1, FailInv
<1>6. RemoveFile(s, path) = IF ~b.ok \/ path \notin DOMAIN b.files THEN [b EXCEPT !.ok = FALSE] ELSE t
  BY Zenon DEF RemoveFile
<1> QED BY <1>4, <1>5, <1>6, Zenon

LEMMA RenameInv ==
    ASSUME NEW s, HandleInv(s), NEW old \in Paths, NEW new \in Paths
    PROVE  HandleInv(RenamePath(s, old, new))
<1> DEFINE b == Call(CacheCloseAll(s))
           f == [p \in (DOMAIN b.files \ {old}) \cup {new} |-> IF p = new THEN b.files[old] ELSE b.files[p]]
           t == [b EXCEPT !.files = f]
<1>1. HandleInv(b) /\ DOMAIN b.fds = {} /\ b.cache = <<>> /\ b.active = NoHandle
  BY CacheCloseAllInv, CallInv
<1>2. CASE ~b.ok \/ old \notin DOMAIN b.files \/ new \in DOMAIN b.files
  BY <1>1, <1>2, FailInv DEF RenamePath
<1>3. CASE ~(~b.ok \/ old \notin DOMAIN b.files \/ new \in DOMAIN b.files)
  <2>1. PICK P \in SUBSET Paths : b.files \in [P -> Seq(Int)]
    BY <1>1 DEF HandleInv, Storages, Folders
  <2>2. f \in [(P \ {old}) \cup {new} -> Seq(Int)] /\ (P \ {old}) \cup {new} \in SUBSET Paths
    BY <1>3, <2>1
  <2>3. f \in Folders
    BY <2>2 DEF Folders
  <2>4. t \in Storages /\ t.fds = b.fds /\ t.cache = b.cache /\ t.active = b.active
    <3> HIDE DEF b, f
    <3> QED BY <1>1, <2>3 DEF HandleInv, Storages
  <2>5. HandleInv(t)
    <3> HIDE DEF b, t
    <3> QED BY <1>1, <2>4, NoHandlesInv
  <2>6. RenamePath(s, old, new) = t
    BY <1>3, Zenon DEF RenamePath
  <2> QED BY <2>5, <2>6, Zenon
<1> QED BY <1>2, <1>3

LEMMA HandleInitInv == HandleInit => IOInv
<1> SUFFICES ASSUME HandleInit PROVE HandleInv(io)
  BY DEF IOInv
<1>1. /\ io.files = [p \in Paths |-> <<>>] /\ io.fds = <<>> /\ io.cache = <<>>
      /\ io.active = NoHandle /\ io.cached = FALSE /\ io.fails = 0 /\ io.ok = TRUE
  BY DEF HandleInit, Storage
<1>2. io.files \in Folders
  <2>1. <<>> \in Seq(Int)
    OBVIOUS
  <2>2. io.files \in [Paths -> Seq(Int)] /\ Paths \in SUBSET Paths
    BY <1>1, <2>1
  <2> QED BY <2>2 DEF Folders
<1>3. DOMAIN io.fds = {} /\ io.fds \in Fds
  <2>1. io.fds = [x \in {} |-> x]
    BY <1>1
  <2>2. io.fds \in [{} -> Paths] /\ {} \in SUBSET Handles
    BY <2>1
  <2> QED BY <2>1, <2>2 DEF Fds
<1>4. io.cache \in Seq(Entries) /\ DOMAIN io.cache = {} /\ Len(io.cache) = 0
  BY <1>1
<1>5. io \in Storages
  BY <1>1, <1>2, <1>3, <1>4 DEF HandleInit, Storage, Storages
<1>6. CacheHandles(io) = {}
  BY <1>4 DEF CacheHandles
<1> QED BY <1>1, <1>3, <1>4, <1>5, <1>6, HandleAssumption DEF HandleInv, Kept, Matching

(* One step for each call. *)
LEMMA HandleNextInv == IOInv /\ [HandleNext]_io => IOInv'
<1> SUFFICES ASSUME HandleInv(io), [HandleNext]_io PROVE HandleInv(io')
  BY DEF IOInv
<1>1. \A f \in 0 .. 1 : HandleInv(Failing(f))
  BY FailingInv DEF Failing
<1>2. ASSUME NEW f \in 0 .. 1, NEW path \in Paths, NEW mode \in Modes, NEW create \in BOOLEAN,
             CallOpen(f, path, mode, create)
      PROVE  HandleInv(io')
  BY <1>1, <1>2, OpenFileInv DEF CallOpen
<1>3. ASSUME NEW f \in 0 .. 1, NEW bytes \in Seq(Int), NEW at \in Nat, CallPwrite(f, bytes, at)
      PROVE  HandleInv(io')
  BY <1>1, <1>3, PwriteInv DEF CallPwrite
<1>4. CASE CallClose
  BY <1>4, CloseInv DEF CallClose
<1>5. ASSUME NEW f \in 0 .. 1, NEW path \in Paths, CallRemove(f, path) PROVE HandleInv(io')
  BY <1>1, <1>5, RemoveInv DEF CallRemove
<1>6. ASSUME NEW f \in 0 .. 1, NEW path \in Paths, NEW n \in Nat, CallTruncate(f, path, n)
      PROVE  HandleInv(io')
  BY <1>1, <1>6, TruncateInv DEF CallTruncate
<1>7. ASSUME NEW f \in 0 .. 1, NEW old \in Paths, NEW new \in Paths, CallRename(f, old, new)
      PROVE  HandleInv(io')
  BY <1>1, <1>7, RenameInv DEF CallRename
<1>8. CASE UNCHANGED io
  BY <1>8
<1> QED BY <1>2, <1>3, <1>4, <1>5, <1>6, <1>7, <1>8 DEF HandleNext

(* The handles of the storage stay in order: none is lost, none is closed   *)
(* while it is used, none outlives its file, and the cache keeps its size.  *)
THEOREM HandlesInOrderAlways == HandleSpec => []HandlesInOrder
<1>1. IOInv => HandlesInOrder
  BY DEF IOInv, HandleInv, HandlesInOrder
<1> QED BY <1>1, HandleInitInv, HandleNextInv, PTL DEF HandleSpec

(* Where the backend has more handles than the cache has entries, an open   *)
(* never fails for want of a handle (main.cpp:1600, diskStitch.h:180).      *)
THEOREM OpenHasRoomAlways ==
    ASSUME IsFiniteSet(Handles), Cardinality(Handles) > CacheSize
    PROVE  HandleSpec => []OpenHasRoom
<1>1. IOInv => OpenHasRoom
  <2> SUFFICES ASSUME HandleInv(io) PROVE OpenHasRoom
    BY DEF IOInv
  <2> DEFINE c == CloseFile(io)
             n == Len(c.cache)
             f == [i \in 1 .. n |-> c.cache[i].handle]
  <2>1. HandleInv(c) /\ c.active = NoHandle
    BY CloseInv
  <2>2. DOMAIN c.fds = CacheHandles(c) /\ n <= CacheSize /\ n \in Nat /\ DOMAIN c.cache = 1 .. n
    BY <2>1 DEF HandleInv, Kept, Storages
  <2>3. IsFiniteSet(1 .. n) /\ Cardinality(1 .. n) = n
    BY <2>2, FS_Interval
  <2>4. f \in Surjection(1 .. n, CacheHandles(c))
    <3> HIDE DEF c
    <3> QED BY <2>2 DEF Surjection, CacheHandles
  <2>5. IsFiniteSet(CacheHandles(c)) /\ Cardinality(CacheHandles(c)) <= n
    <3> HIDE DEF c, n, f
    <3> QED BY <2>3, <2>4, FS_Surjection
  <2>6. Cardinality(CacheHandles(c)) \in Nat /\ Cardinality(Handles) \in Nat /\ CacheSize \in Nat
    BY <2>5, FS_CardinalityType, HandleAssumption
  <2>7. ~(Handles \subseteq CacheHandles(c))
    <3>1. ASSUME Handles \subseteq CacheHandles(c) PROVE FALSE
      <4>1. Cardinality(Handles) <= Cardinality(CacheHandles(c))
        BY <2>5, <3>1, FS_Subset
      <4> QED BY <2>2, <2>5, <2>6, <4>1
    <3> QED BY <3>1
  <2> QED BY <2>2, <2>7 DEF OpenHasRoom, Room
<1> QED BY <1>1, HandleInitInv, HandleNextInv, PTL DEF HandleSpec

-----------------------------------------------------------------------------
(* Sets of numbers. *)

(* The induction of this module: a set of numbers has a least one. *)
LEMMA Least ==
    ASSUME NEW T, T \subseteq Nat, T # {}
    PROVE  \E m \in T : \A y \in T : m <= y
<1> DEFINE R == {ss \in Nat \X Nat : ss[1] < ss[2]}
<1>1. OpToRel(<, Nat) = R
  BY DEF OpToRel
<1>2. IsWellFoundedOn(R, Nat)
  BY <1>1, NatLessThanWellFounded
<1>3. PICK m \in T : \A y \in T : ~ (<<y, m>> \in R)
  <2> HIDE DEF R
  <2> QED BY <1>2, WFMin, Zenon
<1>4. \A y \in T : ~ (y < m)
  <2> TAKE y \in T
  <2>1. <<y, m>> \notin R /\ y \in Nat /\ m \in Nat
    BY <1>3
  <2> QED BY <2>1
<1> QED BY <1>3, <1>4

(* Induction over numbers up to n, as a fact about a set. *)
LEMMA Upto ==
    ASSUME NEW n \in Nat, NEW T, 0 \in T, \A m \in 1 .. n : m - 1 \in T => m \in T
    PROVE  0 .. n \subseteq T
<1> DEFINE R == 0 .. n \ T
<1>1. ASSUME R # {} PROVE FALSE
  <2>1. R \subseteq Nat
    OBVIOUS
  <2>2. PICK m \in R : \A y \in R : m <= y
    <3> HIDE DEF R
    <3> QED BY <1>1, <2>1, Least
  <2>3. m \in 0 .. n /\ m \notin T
    BY <2>2
  <2>4. m \in 1 .. n /\ m - 1 \in 0 .. n /\ ~(m <= m - 1)
    BY <2>3
  <2>5. m - 1 \notin R
    <3> HIDE DEF R
    <3> QED BY <2>2, <2>4
  <2> QED BY <2>3, <2>4, <2>5
<1> QED BY <1>1

LEMMA MinIs ==
    ASSUME NEW T, T \subseteq Nat, T # {}
    PROVE  Min(T) \in T /\ \A y \in T : Min(T) <= y
<1>1. PICK m \in T : \A y \in T : m <= y
  BY Least
<1> QED BY <1>1, Zenon DEF Min

LEMMA MinOfOne ==
    ASSUME NEW x \in Nat
    PROVE  Min({x}) = x
BY MinIs

LEMMA MinOfTwo ==
    ASSUME NEW a \in Int, NEW b \in Int
    PROVE  Min({a, b}) = IF a <= b THEN a ELSE b
<1> DEFINE m == IF a <= b THEN a ELSE b
<1>1. m \in {a, b} /\ \A y \in {a, b} : m <= y
  OBVIOUS
<1>2. \A x \in {a, b} : (\A y \in {a, b} : x <= y) => x = m
  OBVIOUS
<1> HIDE DEF m
<1>3. Min({a, b}) = m
  BY <1>1, <1>2 DEF Min
<1> QED BY <1>3 DEF m

LEMMA MaxOfTwo ==
    ASSUME NEW a \in Int, NEW b \in Int
    PROVE  Max({a, b}) = IF a >= b THEN a ELSE b
<1> DEFINE m == IF a >= b THEN a ELSE b
<1>1. m \in {a, b} /\ \A y \in {a, b} : m >= y
  OBVIOUS
<1>2. \A x \in {a, b} : (\A y \in {a, b} : x >= y) => x = m
  OBVIOUS
<1> HIDE DEF m
<1>3. Max({a, b}) = m
  BY <1>1, <1>2 DEF Max
<1> QED BY <1>3 DEF m

(* The rank of a number among the numbers of a finite set. *)
Rank(S, x) == Cardinality({y \in S : y <= x})

(* The ranks of a finite set are 1 .. its size, each given once. *)
LEMMA Ranks ==
    ASSUME NEW S, S \subseteq Int, IsFiniteSet(S)
    PROVE  /\ Cardinality(S) \in Nat
           /\ \A x \in S : Rank(S, x) \in 1 .. Cardinality(S)
           /\ \A x, y \in S : Rank(S, x) = Rank(S, y) => x = y
           /\ \A k \in 1 .. Cardinality(S) : \E x \in S : Rank(S, x) = k
<1> DEFINE below(x) == {y \in S : y <= x}
           c == Cardinality(S)
           f == [x \in S |-> Rank(S, x)]
<1>1. c \in Nat
  BY FS_CardinalityType
<1>2. \A x \in S : IsFiniteSet(below(x)) /\ Cardinality(below(x)) \in Nat /\ Cardinality(below(x)) <= c
  <2> TAKE x \in S
  <2>1. below(x) \in SUBSET S
    OBVIOUS
  <2> HIDE DEF below
  <2>2. IsFiniteSet(below(x)) /\ Cardinality(below(x)) <= c
    BY <2>1, FS_Subset
  <2> QED BY <2>2, FS_CardinalityType
<1>3. \A x \in S : Cardinality(below(x)) # 0
  <2> TAKE x \in S
  <2>1. x \in below(x)
    OBVIOUS
  <2> HIDE DEF below
  <2> QED BY <1>2, <2>1, FS_EmptySet
<1>4. \A x \in S : Rank(S, x) \in 1 .. c
  BY <1>1, <1>2, <1>3 DEF Rank
<1>5. ASSUME NEW x \in S, NEW y \in S, x < y
      PROVE  Rank(S, x) # Rank(S, y)
  <2>1. x \in Int /\ y \in Int
    OBVIOUS
  <2>2. below(x) \in SUBSET below(y) /\ y \in below(y) /\ y \notin below(x)
    <3>1. \A z \in S : z \in Int /\ (z <= x => z <= y)
      BY <1>5, <2>1
    <3>2. y <= y /\ ~(y <= x)
      BY <1>5, <2>1
    <3> QED BY <3>1, <3>2
  <2> HIDE DEF below
  <2>3. Cardinality(below(y)) # Cardinality(below(x))
    BY <1>2, <2>2, FS_Subset
  <2> QED BY <2>3 DEF Rank, below
<1>6. \A x, y \in S : Rank(S, x) = Rank(S, y) => x = y
  <2> TAKE x, y \in S
  <2>1. x \in Int /\ y \in Int
    OBVIOUS
  <2>2. x = y \/ x < y \/ y < x
    BY <2>1
  <2> QED BY <1>5, <2>2
<1>7. \A k \in 1 .. c : \E x \in S : Rank(S, x) = k
  <2>1. f \in Injection(S, 1 .. c)
    BY <1>4, <1>6 DEF Injection, IsInjective
  <2>2. IsFiniteSet(1 .. c) /\ Cardinality(1 .. c) = c
    BY <1>1, FS_Interval
  <2>3. f \in Surjection(S, 1 .. c)
    <3> HIDE DEF f, c
    <3>1. Cardinality(S) = Cardinality(1 .. c)
      BY <2>2 DEF c
    <3> QED BY <2>1, <2>2, <3>1, FS_Injection
  <2> QED BY <2>3 DEF Surjection
<1> QED BY <1>1, <1>4, <1>6, <1>7

(* Ordered enumerates a set, each member once. *)
LEMMA OrderedIs ==
    ASSUME NEW S, S \subseteq Int, IsFiniteSet(S)
    PROVE  /\ Ordered(S) \in Seq(S) /\ Len(Ordered(S)) = Cardinality(S)
           /\ Range(Ordered(S)) = S
           /\ \A a, b \in 1 .. Len(Ordered(S)) : Ordered(S)[a] = Ordered(S)[b] => a = b
<1> DEFINE c == Cardinality(S)
           o == Ordered(S)
<1>1. /\ Cardinality(S) \in Nat
      /\ \A x \in S : Rank(S, x) \in 1 .. Cardinality(S)
      /\ \A x, y \in S : Rank(S, x) = Rank(S, y) => x = y
      /\ \A k \in 1 .. Cardinality(S) : \E x \in S : Rank(S, x) = k
  BY Ranks, Zenon
<1>2. o = [k \in 1 .. c |-> CHOOSE x \in S : Rank(S, x) = k]
  BY DEF Ordered, Rank
<1>3. \A k \in 1 .. c : o[k] \in S /\ Rank(S, o[k]) = k
  <2> TAKE k \in 1 .. c
  <2>1. \E x \in S : Rank(S, x) = k
    BY <1>1
  <2>2. o[k] = CHOOSE x \in S : Rank(S, x) = k
    BY <1>2
  <2> HIDE DEF o, c
  <2> QED BY <2>1, <2>2, Zenon
<1> HIDE DEF o
<1>4. o \in Seq(S) /\ Len(o) = c /\ DOMAIN o = 1 .. c
  <2>1. o \in [1 .. c -> S]
    BY <1>2, <1>3
  <2> QED BY <1>1, <2>1
<1>5. Range(o) = S
  <2>1. \A x \in S : Rank(S, x) \in 1 .. c /\ o[Rank(S, x)] = x
    <3> TAKE x \in S
    <3>1. Rank(S, x) \in 1 .. c
      BY <1>1
    <3> HIDE DEF c
    <3> QED BY <1>1, <1>3, <3>1
  <2> HIDE DEF c
  <2> QED BY <1>3, <1>4, <2>1 DEF Range
<1>6. \A a, b \in 1 .. c : o[a] = o[b] => a = b
  <2> HIDE DEF c
  <2> QED BY <1>3
<1> QED BY <1>4, <1>5, <1>6 DEF o

(* Lowest takes as many as it is asked for. *)
LEMMA LowestIs ==
    ASSUME NEW S, S \subseteq Int, IsFiniteSet(S), NEW n \in Nat, n <= Cardinality(S)
    PROVE  /\ Lowest(S, n) \subseteq S /\ IsFiniteSet(Lowest(S, n))
           /\ Cardinality(Lowest(S, n)) = n
<1> DEFINE L == Lowest(S, n)
           f == [x \in L |-> Rank(S, x)]
<1>0. /\ Cardinality(S) \in Nat
      /\ \A x \in S : Rank(S, x) \in 1 .. Cardinality(S)
      /\ \A x, y \in S : Rank(S, x) = Rank(S, y) => x = y
      /\ \A k \in 1 .. Cardinality(S) : \E x \in S : Rank(S, x) = k
  BY Ranks, Zenon
<1>1. L = {x \in S : Rank(S, x) <= n} /\ L \in SUBSET S
  BY DEF Lowest, Rank
<1>2. IsFiniteSet(L)
  <2> HIDE DEF L
  <2> QED BY <1>1, FS_Subset
<1>3. f \in Bijection(L, 1 .. n)
  <2>1. \A x \in L : Rank(S, x) \in 1 .. n
    <3> HIDE DEF L
    <3> QED BY <1>0, <1>1
  <2>2. f \in Injection(L, 1 .. n)
    <3> HIDE DEF L
    <3>1. \A x, y \in L : Rank(S, x) = Rank(S, y) => x = y
      BY <1>0, <1>1
    <3> QED BY <2>1, <3>1 DEF Injection, IsInjective
  <2>3. \A k \in 1 .. n : \E x \in L : f[x] = k
    <3> TAKE k \in 1 .. n
    <3>1. k \in 1 .. Cardinality(S)
      BY <1>0
    <3>2. PICK x \in S : Rank(S, x) = k
      BY <1>0, <3>1
    <3>3. x \in L
      BY <1>1, <3>2
    <3> QED BY <3>2, <3>3
  <2> HIDE DEF f, L
  <2> QED BY <2>2, <2>3 DEF Bijection, Surjection, Injection
<1>4. IsFiniteSet(1 .. n) /\ Cardinality(1 .. n) = n
  BY FS_Interval
<1>5. Cardinality(1 .. n) = Cardinality(L)
  <2> HIDE DEF f, L
  <2>1. ExistsBijection(L, 1 .. n)
    BY <1>3 DEF ExistsBijection
  <2> QED BY <1>2, <2>1, FS_Bijection
<1> QED BY <1>1, <1>2, <1>4, <1>5

-----------------------------------------------------------------------------
(* The inductive invariant. *)

DosNames == Names \cup {AtariName(i) : i \in DOMAIN HostDir} \cup {NoName}
Flags    == {"unused", "deleted", "open", "closed"}
Dirents  == [flags : Flags, count : Nat, start : Int, name : DosNames]
Chains   == [flags : Flags, sectors : Seq(DataSectors), host : Paths \cup {NoName}]
Files    == [slot : 1 .. Slots, sectors : Seq(DataSectors), bytes : Seq(Int), host : Paths]
Images   == [io : Storages, vtoc : SUBSET DataSectors, error : BOOLEAN,
             dirents : [1 .. Slots -> Dirents], stitched : [1 .. Slots -> Chains]]

Distinct(s) == \A a, b \in 1 .. Len(s) : s[a] = s[b] => a = b
WellMade(f) == f \in Files /\ Distinct(f.sectors) /\ Len(f.sectors) = SectorsFor(Len(f.bytes))
Apart(f, g) == f.slot # g.slot /\ f.host # g.host /\ Range(f.sectors) \cap Range(g.sectors) = {}

(* The guest's files: no two share a slot, a host file or a sector. *)
Catalogue(cat) ==
    /\ cat = [n \in DOMAIN cat |-> cat[n]]
    /\ DOMAIN cat \subseteq DosNames \ {NoName}
    /\ \A n \in DOMAIN cat : WellMade(cat[n])
    /\ \A n, m \in DOMAIN cat : n # m => Apart(cat[n], cat[m])
TakenBy(cat) == UNION {Range(cat[n].sectors) : n \in DOMAIN cat}

(* A file at rest: its entry, its chain and its bytes on the host. *)
Stored(d, n, f) ==
    /\ d.dirents[f.slot] = EntryOf("closed", f.sectors, Len(f.sectors), n)
    /\ d.stitched[f.slot] = [flags |-> "closed", sectors |-> f.sectors, host |-> f.host]
    /\ f.host \in DOMAIN d.io.files /\ d.io.files[f.host] = f.bytes

Empty(d, e) ==
    /\ ~InUse(d.dirents[e].flags) /\ d.stitched[e].flags = d.dirents[e].flags
    /\ d.stitched[e].sectors = <<>>

Outputs == {"create", "replace", "append"}
Jobs == [kind : Outputs \cup {"erase", "rename", "update"}, name : DosNames \ {NoName},
         as : DosNames \ {NoName}, entry : Dirents, phase : {"entry", "data", "vtoc", "close"}, k : Nat,
         file : Files]

(* What an operation makes of which file. *)
Operation(cat, j) ==
    LET f == j.file
    IN  /\ j \in Jobs /\ WellMade(f)
        /\ \A n \in DOMAIN cat \ {j.name} : Apart(f, cat[n])
        /\ IF j.kind = "create" THEN j.name \notin DOMAIN cat /\ f.host = HostName(j.name)
           ELSE j.name \in DOMAIN cat /\ cat[j.name].slot = f.slot /\ cat[j.name].host = f.host
        /\ IF j.kind = "rename" THEN j.as \notin DOMAIN cat ELSE j.as = j.name
        /\ j.kind \in {"erase", "rename"} => f = cat[j.name]
        /\ j.kind = "update" => f.sectors = cat[j.name].sectors
        /\ j.kind # "update" => /\ j.entry.start = f.sectors[1] /\ j.entry.name = j.as
                                /\ j.entry.flags = CASE j.kind = "erase" -> "deleted"
                                                     [] j.kind = "rename" -> "closed"
                                                     [] OTHER -> "open"
        /\ j.kind \notin {"erase", "rename"} => Len(f.bytes) > 0

(* The first n bytes of the file are on the host. *)
Begun(content, bytes, n) ==
    n <= Len(content) /\ n <= Len(bytes) /\ \A i \in 1 .. n : content[i] = bytes[i]

(* Before the directory is written the file is as it was. *)
AtEntry(d, cat, j) ==
    LET f == j.file
        old == cat[j.name]
    IN  /\ j.kind # "update"
        /\ IF j.kind = "create"
           THEN ~InUse(d.stitched[f.slot].flags) /\ d.stitched[f.slot].sectors = <<>>
           ELSE Stored(d, j.name, old)
        /\ j.kind \in {"create", "replace"} => j.k = 1
        /\ j.kind = "replace" => j.entry.count \in {1, Len(old.sectors)}
        /\ j.kind = "rename" => j.entry.count = Len(f.sectors)
        /\ j.kind = "append" =>
            /\ j.k = Len(old.sectors) /\ j.entry.count = j.k
            /\ j.k <= Len(f.sectors) /\ old.sectors = SubSeq(f.sectors, 1, j.k)
            /\ Begun(old.bytes, f.bytes, Len(old.bytes))

(* The chain is the new one as far as it is written, or still the old one  *)
(* where the new one begins like it.                                       *)
Following(C, cat, j) ==
    /\ j.k \in 1 .. Len(j.file.sectors)
    /\ \/ C = SubSeq(j.file.sectors, 1, j.k)
       \/ /\ j.name \in DOMAIN cat /\ C = cat[j.name].sectors /\ j.k <= Len(C)
          /\ SubSeq(C, 1, j.k) = SubSeq(j.file.sectors, 1, j.k)

AtData(d, cat, j) ==
    LET f == j.file
        c == d.stitched[f.slot]
    IN  /\ j.kind \in Outputs \cup {"update"}
        /\ c.host = f.host /\ Following(c.sectors, cat, j)
        /\ f.host \in DOMAIN d.io.files
        /\ Begun(d.io.files[f.host], f.bytes, (j.k - 1) * DataSize)
        /\ IF j.kind = "update"
           THEN /\ c.flags = "closed" /\ c.sectors = f.sectors
                /\ d.dirents[f.slot] = EntryOf("closed", f.sectors, Len(f.sectors), j.name)
                /\ Len(d.io.files[f.host]) = Len(f.bytes)
                /\ \A i \in 1 .. Len(f.bytes) :
                      i <= (j.k - 1) * DataSize \/ i > j.k * DataSize => d.io.files[f.host][i] = f.bytes[i]
           ELSE c.flags = "open" /\ d.dirents[f.slot] = j.entry

(* The sectors are written: only the VTOC and the entry are left. *)
Ended(d, j) ==
    LET f == j.file
    IN  /\ j.kind \in Outputs \cup {"erase"}
        /\ d.dirents[f.slot] = j.entry
        /\ IF j.kind = "erase"
           THEN d.stitched[f.slot] = [NoFile EXCEPT !.flags = "deleted"]
           ELSE /\ d.stitched[f.slot] = [flags |-> "open", sectors |-> f.sectors, host |-> f.host]
                /\ f.host \in DOMAIN d.io.files /\ d.io.files[f.host] = f.bytes

Progress(d, cat, j) ==
    /\ j.phase = "entry" => AtEntry(d, cat, j)
    /\ j.phase = "data" => AtData(d, cat, j)
    /\ j.phase = "vtoc" => Ended(d, j)
    /\ j.phase = "close" => Ended(d, j) /\ j.kind # "erase"

Done(cat, j) ==
    IF j.kind = "erase" THEN Drop(cat, j.name) ELSE Put(Drop(cat, j.name), j.as, j.file)

DiskInv(d, cat, j) ==
    /\ Catalogue(cat)
    /\ \A n \in DOMAIN cat \ {j.name} : Stored(d, n, cat[n])
    /\ \A e \in 1 .. Slots : (\A n \in DOMAIN cat : cat[n].slot # e) /\ e # j.file.slot => Empty(d, e)
    /\ d.vtoc = DataSectors \ TakenBy(IF j.phase = "close" THEN Done(cat, j) ELSE cat)
    /\ j # NoJob => Operation(cat, j) /\ Progress(d, cat, j)

(* The host directory holds the files of the guest, those left out and the *)
(* stranded ones, st; the file of an erase under way is there if stranded. *)
GuestApart == \A n \in Names : HostName(n) \notin LeftOut
HostsInv(d, cat, j, st) ==
    /\ LeftOut \cap HostsOf(cat) = {}
    /\ IF j = NoJob THEN DOMAIN d.io.files = HostsOf(cat) \cup LeftOut \cup st
       ELSE /\ j.file.host \notin LeftOut
            /\ DOMAIN d.io.files \ {j.file.host}
               = (HostsOf(cat) \ {j.file.host}) \cup LeftOut \cup (st \ {j.file.host})
Gone(d, j, st) ==
    j.kind = "erase" /\ j.phase = "vtoc" => (j.file.host \in DOMAIN d.io.files <=> j.file.host \in st)

-----------------------------------------------------------------------------
(* Sectors of a file. *)

(* The constants, as the assumption gives them. *)
LEMMA Sizes ==
    /\ DataSize \in Nat \ {0} /\ Slots \in Nat \ {0}
    /\ DataSectors \subseteq Nat /\ IsFiniteSet(DataSectors)
    /\ \A x \in DataSectors : x # VTOC /\ x # Dir /\ x # 0
<1>1. DataSectors \in SUBSET (4 .. 719) /\ \A x \in DataSectors : x # VTOC /\ x # Dir
  BY DosAssumption DEF VTOC, Dir
<1>2. IsFiniteSet(4 .. 719)
  <2>1. \A a, b \in Int : IsFiniteSet(a .. b)
    BY FS_Interval
  <2>2. 4 \in Int /\ 719 \in Int
    OBVIOUS
  <2> DEFINE a == 4
             b == 719
  <2>3. a \in Int /\ b \in Int
    BY ONLY <2>2
  <2> HIDE DEF a, b
  <2>4. IsFiniteSet(a .. b)
    BY ONLY <2>1, <2>3
  <2> QED BY ONLY <2>4 DEF a, b
<1>3. IsFiniteSet(DataSectors)
  <2> DEFINE T == 4 .. 719
  <2>1. DataSectors \in SUBSET T /\ IsFiniteSet(T)
    BY ONLY <1>1, <1>2
  <2> HIDE DEF T
  <2> QED BY ONLY <2>1, FS_Subset
<1> QED BY <1>1, <1>3, DosAssumption

LEMMA Multiples ==
    ASSUME NEW a \in Nat, NEW b \in Nat, a <= b
    PROVE  /\ a * DataSize \in Nat /\ a * DataSize <= b * DataSize
           /\ a > 0 => (a - 1) * DataSize \in Nat /\ a * DataSize = (a - 1) * DataSize + DataSize
<1>1. DataSize \in Nat \ {0}
  BY Sizes
<1>2. a * DataSize \in Nat
  BY <1>1
<1>3. PICK c \in Nat : b = a + c
  <2>1. b - a \in Nat /\ b = a + (b - a)
    OBVIOUS
  <2> QED BY <2>1
<1>4. (a + c) * DataSize = a * DataSize + c * DataSize /\ c * DataSize \in Nat
  BY <1>1
<1>5. a > 0 => (a - 1) * DataSize \in Nat /\ a * DataSize = (a - 1) * DataSize + DataSize
  <2>1. a > 0 => a - 1 \in Nat
    OBVIOUS
  <2>2. \A e \in Nat : e * DataSize \in Nat /\ (e + 1) * DataSize = e * DataSize + DataSize
    BY <1>1
  <2>3. a > 0 => (a - 1) + 1 = a
    OBVIOUS
  <2> QED BY <2>1, <2>2, <2>3
<1> QED BY <1>2, <1>3, <1>4, <1>5

(* A file of n bytes fills its sectors but for the last, and has one at     *)
(* least.                                                                   *)
LEMMA SectorsForIs ==
    ASSUME NEW n \in Nat
    PROVE  /\ SectorsFor(n) \in Nat \ {0} /\ n <= SectorsFor(n) * DataSize
           /\ n > 0 => (SectorsFor(n) - 1) * DataSize < n
           /\ n = 0 => SectorsFor(n) = 1
<1> DEFINE q == (n + DataSize - 1) \div DataSize
<1>1. DataSize \in Nat \ {0}
  BY Sizes
<1>2. q \in Nat
  <2>1. n + DataSize - 1 \in Nat
    BY <1>1
  <2> QED BY <1>1, <2>1
<1>3. DataSize * q <= n + DataSize - 1 /\ n + DataSize - 1 < DataSize * q + DataSize
  <2>1. \A m \in Nat : DataSize * (m \div DataSize) <= m /\ m < DataSize * (m \div DataSize) + DataSize
    BY <1>1
  <2>2. n + DataSize - 1 \in Nat
    BY <1>1
  <2> QED BY <2>1, <2>2
<1> HIDE DEF q
<1>4. SectorsFor(n) = IF q >= 1 THEN q ELSE 1
  BY <1>2, MaxOfTwo DEF SectorsFor, q
<1>5. q * DataSize = DataSize * q /\ 0 * DataSize = 0 /\ 1 * DataSize = DataSize
  BY <1>1, <1>2
<1>6. q > 0 => q * DataSize = (q - 1) * DataSize + DataSize /\ (q - 1) * DataSize \in Nat
  BY <1>2, Multiples
<1>7. CASE q = 0
  <2>1. n = 0
    BY <1>1, <1>3, <1>5, <1>7
  <2> QED BY <1>1, <1>4, <1>5, <1>7, <2>1
<1>8. CASE q > 0
  <2>1. SectorsFor(n) = q
    BY <1>2, <1>4, <1>8
  <2>2. n <= q * DataSize /\ (q - 1) * DataSize < n
    <3> DEFINE p == q * DataSize
               r == (q - 1) * DataSize
    <3>1. p \in Nat /\ r \in Nat /\ p = r + DataSize
      BY <1>2, <1>5, <1>6, <1>8, Multiples
    <3>2. p <= n + DataSize - 1 /\ n + DataSize - 1 < p + DataSize
      BY <1>3, <1>5
    <3> HIDE DEF p, r
    <3>3. n <= p /\ r < n
      BY <1>1, <3>1, <3>2
    <3> QED BY <3>3 DEF p, r
  <2>3. n > 0
    BY <1>2, <1>8, <2>2, <1>6
  <2> QED BY <1>2, <1>8, <2>1, <2>2, <2>3
<1> QED BY <1>2, <1>7, <1>8

LEMMA SectorsForGrows ==
    ASSUME NEW n \in Nat, NEW m \in Nat, n <= m
    PROVE  SectorsFor(n) <= SectorsFor(m)
<1> DEFINE s == SectorsFor(n)
           t == SectorsFor(m)
<1>1. /\ s \in Nat \ {0} /\ t \in Nat \ {0} /\ m <= t * DataSize
      /\ n > 0 => (s - 1) * DataSize < n
      /\ n = 0 => s = 1
  BY SectorsForIs
<1> HIDE DEF s, t
<1>2. ASSUME t < s, n > 0 PROVE FALSE
  <2>1. t <= s - 1 /\ s - 1 \in Nat
    BY <1>1, <1>2
  <2>2. t * DataSize <= (s - 1) * DataSize /\ t * DataSize \in Nat /\ (s - 1) * DataSize \in Nat
    BY <1>1, <2>1, Multiples
  <2> QED BY <1>1, <1>2, <2>2
<1>3. s <= t
  BY <1>1, <1>2
<1> QED BY <1>3 DEF s, t

(* Where the k-th sector of a file begins and ends. *)
LEMMA SectorBounds ==
    ASSUME NEW bytes \in Seq(Int), NEW k \in 1 .. SectorsFor(Len(bytes))
    PROVE  /\ (k - 1) * DataSize \in Nat /\ (k - 1) * DataSize <= Len(bytes)
           /\ k * DataSize = (k - 1) * DataSize + DataSize
           /\ k < SectorsFor(Len(bytes)) => k * DataSize <= Len(bytes)
           /\ k = SectorsFor(Len(bytes)) => Len(bytes) <= k * DataSize
           /\ Min({k * DataSize, Len(bytes)}) = IF k < SectorsFor(Len(bytes)) THEN k * DataSize ELSE Len(bytes)
           /\ SectorBytes(bytes, k) \in Seq(Int)
           /\ (k - 1) * DataSize + Len(SectorBytes(bytes, k)) = Min({k * DataSize, Len(bytes)})
           /\ \A i \in 1 .. Len(SectorBytes(bytes, k)) : SectorBytes(bytes, k)[i] = bytes[(k - 1) * DataSize + i]
<1> DEFINE n == Len(bytes)
           s == SectorsFor(n)
           at == (k - 1) * DataSize
           end == k * DataSize
           m == Min({end, n})
<1>1. n \in Nat /\ DataSize \in Nat \ {0}
  BY Sizes
<1>2. s \in Nat \ {0} /\ n <= s * DataSize /\ (n > 0 => (s - 1) * DataSize < n) /\ (n = 0 => s = 1)
  BY <1>1, SectorsForIs
<1>3. k \in Nat /\ k > 0 /\ k <= s
  BY <1>2
<1>4. at \in Nat /\ end = at + DataSize
  BY <1>3, Multiples
<1>5. k < s => end <= n
  <2> SUFFICES ASSUME k < s PROVE end <= n
    OBVIOUS
  <2> HIDE DEF n, s
  <2>1. n > 0 /\ s - 1 \in Nat /\ k <= s - 1
    BY <1>1, <1>2, <1>3
  <2>2. end <= (s - 1) * DataSize /\ (s - 1) * DataSize \in Nat
    BY <1>3, <2>1, Multiples
  <2> HIDE DEF end
  <2> QED BY <1>1, <1>2, <1>4, <2>1, <2>2
<1>6. k = s => n <= end
  BY <1>2
<1>7. at <= n
  <2>1. CASE n = 0
    <3>1. k = 1 /\ 0 * DataSize = 0
      BY <1>1, <1>2, <1>3, <2>1
    <3> QED BY <2>1, <3>1
  <2>2. CASE n > 0
    <3> HIDE DEF n, s
    <3>1. k - 1 \in Nat /\ s - 1 \in Nat /\ k - 1 <= s - 1
      BY <1>2, <1>3
    <3>2. at <= (s - 1) * DataSize /\ (s - 1) * DataSize \in Nat
      BY <3>1, Multiples
    <3> HIDE DEF at
    <3> QED BY <1>1, <1>2, <1>4, <2>2, <3>2
  <2> QED BY <1>1, <2>1, <2>2
<1>8. m = IF end <= n THEN end ELSE n
  <2>1. end \in Int
    BY <1>1, <1>4
  <2> HIDE DEF end, n
  <2> QED BY <1>1, <2>1, MinOfTwo
<1> HIDE DEF at, end, n, s, m
<1>9. m = IF k < s THEN end ELSE n
  BY <1>1, <1>2, <1>3, <1>4, <1>5, <1>6, <1>8
<1>10. m \in Nat /\ at <= m /\ m <= n
  BY <1>1, <1>4, <1>7, <1>8
<1>11. /\ SectorBytes(bytes, k) = SubSeq(bytes, at + 1, m)
  BY DEF SectorBytes, at, m, end, n
<1>12. /\ SubSeq(bytes, at + 1, m) \in Seq(Int) /\ Len(SubSeq(bytes, at + 1, m)) = m - at
       /\ \A i \in 1 .. m - at : SubSeq(bytes, at + 1, m)[i] = bytes[at + i]
  BY <1>4, <1>10 DEF n
<1>13. /\ at + Len(SubSeq(bytes, at + 1, m)) = m
       /\ \A i \in 1 .. Len(SubSeq(bytes, at + 1, m)) : SubSeq(bytes, at + 1, m)[i] = bytes[at + i]
  BY <1>4, <1>10, <1>12
<1> QED BY <1>4, <1>5, <1>6, <1>7, <1>9, <1>11, <1>12, <1>13 DEF at, end, n, s, m

(* A sector written at its place in the host file. *)
LEMMA SectorWritten ==
    ASSUME NEW content \in Seq(Int), NEW bytes \in Seq(Int), NEW k \in 1 .. SectorsFor(Len(bytes)),
           Begun(content, bytes, (k - 1) * DataSize)
    PROVE  LET at == (k - 1) * DataSize
               w  == SectorBytes(bytes, k)
               c  == Written(content, w, at)
           IN  /\ Begun(c, bytes, at)
               /\ k < SectorsFor(Len(bytes)) => Begun(c, bytes, k * DataSize)
               /\ k = SectorsFor(Len(bytes)) => Resized(c, at + Len(w)) = bytes
               /\ (/\ Len(content) = Len(bytes)
                   /\ \A i \in 1 .. Len(bytes) : i <= at \/ i > k * DataSize => content[i] = bytes[i])
                  => c = bytes
<1> DEFINE at == (k - 1) * DataSize
           end == k * DataSize
           n == Len(bytes)
           w == SectorBytes(bytes, k)
           l == Len(w)
           c == Written(content, w, at)
           s == SectorsFor(n)
           m == Len(content)
<1>1. /\ at \in Nat /\ at <= n /\ end = at + DataSize /\ (k < s => end <= n) /\ (k = s => n <= end)
      /\ at + l = (IF k < s THEN end ELSE n)
      /\ \A i \in 1 .. l : w[i] = bytes[at + i]
      /\ l \in Nat
  <2>1. w \in Seq(Int)
    BY SectorBounds
  <2>2. l \in Nat
    <3> HIDE DEF w
    <3> QED BY <2>1
  <2> QED BY <2>2, SectorBounds
<1>2. n \in Nat /\ m \in Nat /\ at <= m /\ \A i \in 1 .. at : content[i] = bytes[i]
  BY DEF Begun
<1>3. s \in Nat /\ k \in Nat /\ k <= s /\ DataSize \in Nat \ {0}
  <2>1. n \in Nat
    OBVIOUS
  <2>2. s \in Nat
    <3> HIDE DEF n
    <3> QED BY <2>1, SectorsForIs
  <2> QED BY <2>2, Sizes
<1> DEFINE len == IF at + l > m THEN at + l ELSE m
<1>4. c = [i \in 1 .. len |-> IF i > at /\ i <= at + l THEN w[i - at] ELSE IF i <= m THEN content[i] ELSE 0]
  BY DEF Written
<1> HIDE DEF at, end, n, w, l, c, s, m
<1>5. len \in Nat /\ len >= at + l /\ len >= m
  BY <1>1, <1>2
<1> HIDE DEF len
<1>6. Len(c) = len /\ DOMAIN c = 1 .. len
  BY <1>4, <1>5
<1>7. \A i \in 1 .. at + l : c[i] = bytes[i]
  <2> TAKE i \in 1 .. at + l
  <2>1. i \in 1 .. len
    BY <1>1, <1>5
  <2>2. CASE i <= at
    BY <1>1, <1>2, <1>4, <2>1, <2>2
  <2>3. CASE i > at
    <3>1. i - at \in 1 .. l /\ at + (i - at) = i
      BY <1>1, <2>3
    <3>2. w[i - at] = bytes[i]
      BY <1>1, <3>1
    <3> QED BY <1>1, <1>4, <2>1, <2>3, <3>2
  <2> QED BY <1>1, <2>2, <2>3
<1>8. k < s => Begun(c, bytes, end)
  <2> SUFFICES ASSUME k < s PROVE Begun(c, bytes, end)
    OBVIOUS
  <2>1. at + l = end /\ end <= n
    BY <1>1
  <2>2. end <= Len(c)
    BY <1>1, <1>5, <1>6, <2>1
  <2>3. \A i \in 1 .. end : c[i] = bytes[i]
    BY <1>7, <2>1
  <2> QED BY <2>1, <2>2, <2>3 DEF Begun, n
<1>8a. Begun(c, bytes, at)
  BY <1>1, <1>2, <1>5, <1>6, <1>7 DEF Begun, n
<1>9. bytes = [i \in 1 .. n |-> bytes[i]]
  BY DEF n
<1>10. k = s => Resized(c, at + l) = bytes
  <2> SUFFICES ASSUME k = s PROVE Resized(c, at + l) = bytes
    OBVIOUS
  <2>1. at + l = n
    <3>1. ~(k < s)
      BY <1>3
    <3> QED BY <1>1, <3>1
  <2>2. Resized(c, n) = [i \in 1 .. n |-> IF i <= Len(c) THEN c[i] ELSE 0]
    BY DEF Resized
  <2>3. \A i \in 1 .. n : i <= Len(c) /\ c[i] = bytes[i]
    <3>1. \A i \in 1 .. n : c[i] = bytes[i]
      BY <1>7, <2>1
    <3>2. \A i \in 1 .. n : i <= Len(c)
      BY <1>2, <1>5, <1>6, <2>1
    <3> QED BY <3>1, <3>2
  <2>4. Resized(c, n) = [i \in 1 .. n |-> bytes[i]]
    BY <2>2, <2>3
  <2> QED BY <1>9, <2>1, <2>4
<1>11. ASSUME m = n, \A i \in 1 .. n : i <= at \/ i > end => content[i] = bytes[i]
       PROVE  c = bytes
  <2>1. len = n /\ at + l <= n
    BY <1>1, <1>2, <1>3, <1>11 DEF len
  <2>2. \A i \in 1 .. n : c[i] = bytes[i]
    <3> TAKE i \in 1 .. n
    <3>1. CASE i <= at + l
      BY <1>1, <1>2, <1>7, <3>1
    <3>2. CASE i > at + l
      <4>1. i > end
        BY <1>1, <1>2, <1>3, <3>2
      <4> QED BY <1>1, <1>2, <1>4, <1>11, <2>1, <3>2, <4>1
    <3> QED BY <1>1, <1>2, <3>1, <3>2
  <2>3. c = [i \in 1 .. n |-> c[i]]
    BY <1>4, <2>1
  <2> QED BY <1>9, <2>2, <2>3
<1> QED BY <1>8, <1>8a, <1>10, <1>11 DEF at, end, n, w, l, c, s, m


-----------------------------------------------------------------------------
(* What the calls of the storage do to the files. *)

(* Closing keeps the files, and leaves no active handle. *)
LEMMA CloseKeeps ==
    ASSUME NEW s, HandleInv(s)
    PROVE  /\ HandleInv(CloseFile(s)) /\ CloseFile(s).files = s.files /\ CloseFile(s).ok = s.ok
           /\ CloseFile(s).active = NoHandle /\ CloseFile(s).cache = s.cache
<1>1. CloseFile(s).ok = s.ok
  BY DEF HandleInv, Storages, CloseFile
<1> QED BY <1>1, CloseInv

LEMMA CallOk ==
    ASSUME NEW s, HandleInv(s)
    PROVE  Call(s).ok \in BOOLEAN
BY CallInv DEF HandleInv, Storages

(* The file that is open, and the files. *)
OpenOn(o, path) == o.active # NoHandle /\ o.fds[o.active] = path /\ path \in DOMAIN o.files

(* An open found in the cache. *)
LEMMA HitOpens ==
    ASSUME NEW c, HandleInv(c), NEW path, NEW i \in DOMAIN c.cache, c.cache[i].path = path
    PROVE  LET o == OpenHit(c, i) IN o.ok = TRUE /\ o.files = c.files /\ OpenOn(o, path)
<1> DEFINE o == OpenHit(c, i)
<1>1. o.ok = TRUE /\ o.files = c.files /\ o.active = c.cache[i].handle /\ o.fds = c.fds
  BY DEF HandleInv, Storages, OpenHit
<1>2. c.cache[i].handle \in CacheHandles(c) /\ c.cache[i].handle \in Handles
  <2>1. c.cache[i].handle \in CacheHandles(c)
    BY DEF CacheHandles
  <2> QED BY <2>1, CacheHandlesType DEF HandleInv
<1>3. c.cache[i].handle \in DOMAIN c.fds
  BY <1>2 DEF HandleInv, Kept
<1>4. c.fds[c.cache[i].handle] = path /\ path \in DOMAIN c.files
  BY <1>3 DEF HandleInv, Matching
<1> QED BY <1>1, <1>2, <1>4, HandleAssumption DEF OpenOn

(* An open by the backend. *)
LEMMA MissOpens ==
    ASSUME NEW b, HandleInv(b), NEW path \in DOMAIN b.files, NEW mode, NEW h \in Handles
    PROVE  LET o == OpenMiss(b, path, mode, h)
           IN  o.ok = b.ok /\ o.files = b.files /\ OpenOn(o, path)
<1> DEFINE full  == Len(b.cache) = CacheSize
           entry == [path |-> path, mode |-> mode, handle |-> h]
           old   == IF full THEN {b.cache[CacheSize].handle} ELSE {}
           fds   == [x \in (DOMAIN b.fds \ old) \cup {h} |-> IF x = h THEN path ELSE b.fds[x]]
           cache == [j \in 1 .. (IF full THEN CacheSize ELSE Len(b.cache) + 1) |->
                        IF j = 1 THEN entry ELSE b.cache[j - 1]]
           o     == OpenMiss(b, path, mode, h)
<1>1. o = [b EXCEPT !.fds = fds, !.cache = cache, !.active = h, !.cached = TRUE]
  BY Zenon DEF OpenMiss
<1>2. fds[h] = path
  OBVIOUS
<1> HIDE DEF fds, cache
<1>3. o.ok = b.ok /\ o.files = b.files /\ o.active = h /\ o.fds = fds
  <2> HIDE DEF o
  <2> QED BY <1>1 DEF HandleInv, Storages
<1> HIDE DEF o
<1> QED BY <1>2, <1>3, HandleAssumption DEF OpenOn, o

WithNew(files, path) == [p \in DOMAIN files \cup {path} |-> IF p \in DOMAIN files THEN files[p] ELSE <<>>]

(* An open that creates the file if it is not there. *)
LEMMA CreateOpens ==
    ASSUME NEW b, HandleInv(b), NEW path, NEW h \in Handles
    PROVE  LET o == OpenCreate(b, path, h)
           IN  o.ok = b.ok /\ o.files = WithNew(b.files, path) /\ OpenOn(o, path)
<1> DEFINE fds == [x \in DOMAIN b.fds \cup {h} |-> IF x = h THEN path ELSE b.fds[x]]
           files == WithNew(b.files, path)
           o   == OpenCreate(b, path, h)
<1>1. o = [b EXCEPT !.fds = fds, !.files = files, !.active = h, !.cached = FALSE]
  BY Zenon DEF OpenCreate, WithNew
<1>2. fds[h] = path /\ path \in DOMAIN files
  BY DEF WithNew
<1> HIDE DEF fds, files
<1>3. o.ok = b.ok /\ o.files = files /\ o.active = h /\ o.fds = fds
  <2> HIDE DEF o
  <2> QED BY <1>1 DEF HandleInv, Storages
<1> HIDE DEF o
<1> QED BY <1>2, <1>3, HandleAssumption DEF OpenOn, o, files

(* An open that succeeds makes the file the active one; it comes into      *)
(* being only by an open that creates it.                                  *)
LEMMA Opens ==
    ASSUME NEW s, HandleInv(s), NEW path \in Paths, NEW mode \in Modes, NEW create \in BOOLEAN
    PROVE  LET o == OpenAt(s, path, mode, create)
           IN  /\ HandleInv(o) /\ o.ok \in BOOLEAN
               /\ o.files = IF create /\ o.ok THEN WithNew(s.files, path) ELSE s.files
               /\ o.ok => OpenOn(o, path)
<1> DEFINE h == IF Room(s) = {} THEN NoHandle ELSE Min(Room(s))
           o == OpenAt(s, path, mode, create)
           c == CloseFile(s)
           b == Call(c)
           hits == Hits(c, path, mode)
           i == CHOOSE i \in hits : TRUE
           fails == ~b.ok \/ h \notin Handles \ DOMAIN c.fds \/ (~create /\ path \notin DOMAIN c.files)
<1>1. HandleInv(c) /\ c.files = s.files
  BY CloseKeeps
<1>2. HandleInv(b) /\ b.files = c.files /\ b.fds = c.fds /\ b.ok \in BOOLEAN
  BY <1>1, CallInv, CallOk
<1>3. HandleInv(o)
  BY OpenFileInv DEF OpenAt
<1>4. o = IF ~create /\ hits # {} THEN OpenHit(c, i)
          ELSE IF fails THEN [b EXCEPT !.ok = FALSE]
          ELSE IF create THEN OpenCreate(b, path, h) ELSE OpenMiss(b, path, mode, h)
  BY DEF OpenFile, OpenAt
<1>5. o.ok \in BOOLEAN
  <2> HIDE DEF o
  <2> QED BY <1>3 DEF HandleInv, Storages
<1> HIDE DEF o
<1>6. CASE ~create /\ hits # {}
  <2>1. i \in hits
    <3> HIDE DEF hits
    <3> QED BY <1>6
  <2>2. i \in DOMAIN c.cache /\ c.cache[i].path = path
    BY <2>1 DEF Hits
  <2> HIDE DEF i, c
  <2>3. o = OpenHit(c, i)
    BY <1>4, <1>6
  <2>4. OpenHit(c, i).ok = TRUE /\ OpenHit(c, i).files = c.files /\ OpenOn(OpenHit(c, i), path)
    BY <1>1, <2>2, HitOpens
  <2> QED BY <1>1, <1>3, <1>5, <1>6, <2>3, <2>4 DEF o
<1>7. CASE ~(~create /\ hits # {}) /\ fails
  <2> HIDE DEF b, c, hits, fails
  <2>1. o = [b EXCEPT !.ok = FALSE]
    BY <1>4, <1>7
  <2>2. o.ok = FALSE /\ o.files = b.files
    BY <1>2, <2>1 DEF HandleInv, Storages
  <2> QED BY <1>1, <1>2, <1>3, <1>5, <2>2 DEF o
<1>8. CASE ~(~create /\ hits # {}) /\ ~fails /\ create
  <2>0. h \in Handles
    BY <1>8
  <2> HIDE DEF b, c, hits, fails, h
  <2>1. o = OpenCreate(b, path, h)
    BY <1>4, <1>8
  <2>2. /\ OpenCreate(b, path, h).ok = b.ok /\ OpenCreate(b, path, h).files = WithNew(b.files, path)
        /\ OpenOn(OpenCreate(b, path, h), path)
    BY <1>2, <2>0, CreateOpens
  <2>3. b.ok
    BY <1>2, <1>8 DEF fails
  <2> QED BY <1>1, <1>2, <1>3, <1>5, <1>8, <2>1, <2>2, <2>3 DEF o
<1>9. CASE ~(~create /\ hits # {}) /\ ~fails /\ ~create
  <2>0. h \in Handles /\ path \in DOMAIN b.files
    BY <1>2, <1>9
  <2> HIDE DEF b, c, hits, fails, h
  <2>1. o = OpenMiss(b, path, mode, h)
    BY <1>4, <1>9
  <2>2. /\ OpenMiss(b, path, mode, h).ok = b.ok /\ OpenMiss(b, path, mode, h).files = b.files
        /\ OpenOn(OpenMiss(b, path, mode, h), path)
    BY <1>2, <2>0, MissOpens
  <2> QED BY <1>1, <1>2, <1>3, <1>5, <1>9, <2>1, <2>2 DEF o
<1> QED BY <1>6, <1>7, <1>8, <1>9

(* A write to the active handle changes its file alone, or nothing when it  *)
(* is refused.                                                              *)
LEMMA Pwrites ==
    ASSUME NEW s, HandleInv(s), NEW path, OpenOn(s, path), NEW bytes \in Seq(Int), NEW at \in Nat
    PROVE  LET o == PwriteFile(s, bytes, at)
           IN  /\ HandleInv(o) /\ o.ok \in BOOLEAN
               /\ o.files = IF o.ok THEN [s.files EXCEPT ![path] = Written(s.files[path], bytes, at)] ELSE s.files
<1> DEFINE b == Call(s)
           o == PwriteFile(s, bytes, at)
<1>1. /\ HandleInv(b) /\ b.files = s.files /\ b.fds = s.fds /\ b.active = s.active /\ b.ok \in BOOLEAN
  BY CallInv, CallOk
<1>2. s.active # NoHandle /\ s.fds[s.active] = path
  BY DEF OpenOn
<1>3. HandleInv(o)
  BY PwriteInv
<1>4. o = IF ~b.ok THEN [b EXCEPT !.ok = FALSE]
          ELSE [b EXCEPT !.files[path] = Written(b.files[path], bytes, at)]
  BY <1>2, Zenon DEF PwriteFile
<1> HIDE DEF o, b
<1>5. o.ok = b.ok
  BY <1>1, <1>4 DEF HandleInv, Storages
<1>6. CASE b.ok
  <2> DEFINE f == [b.files EXCEPT ![path] = Written(b.files[path], bytes, at)]
  <2>1. o = [b EXCEPT !.files = f]
    BY <1>4, <1>6
  <2> HIDE DEF f
  <2>2. o.files = f
    BY <1>1, <2>1 DEF HandleInv, Storages
  <2> QED BY <1>1, <1>3, <1>5, <1>6, <2>2 DEF f, o
<1>7. CASE ~b.ok
  <2>1. o.files = b.files
    BY <1>1, <1>4, <1>7 DEF HandleInv, Storages
  <2> QED BY <1>1, <1>3, <1>5, <1>7, <2>1 DEF o
<1> QED BY <1>1, <1>6, <1>7

(* A truncate, like that. *)
LEMMA Truncates ==
    ASSUME NEW s, HandleInv(s), NEW path \in Paths, path \in DOMAIN s.files, NEW n \in Nat
    PROVE  LET o == TruncateFile(s, path, n)
           IN  /\ HandleInv(o) /\ o.ok \in BOOLEAN
               /\ o.files = IF o.ok THEN [s.files EXCEPT ![path] = Resized(s.files[path], n)] ELSE s.files
<1> DEFINE a == CacheCloseAll(s)
           b == Call(a)
           o == TruncateFile(s, path, n)
<1>1. HandleInv(a) /\ a.files = s.files
  BY CacheCloseAllInv
<1>2. /\ HandleInv(b) /\ b.files = s.files /\ b.ok \in BOOLEAN
  BY <1>1, CallInv, CallOk
<1>3. HandleInv(o)
  BY TruncateInv
<1>4. o = IF ~b.ok THEN [b EXCEPT !.ok = FALSE]
          ELSE [b EXCEPT !.files[path] = Resized(b.files[path], n)]
  BY <1>2, Zenon DEF TruncateFile
<1> HIDE DEF o, b
<1>5. o.ok = b.ok
  BY <1>2, <1>4 DEF HandleInv, Storages
<1>6. CASE b.ok
  <2> DEFINE f == [b.files EXCEPT ![path] = Resized(b.files[path], n)]
  <2>1. o = [b EXCEPT !.files = f]
    BY <1>4, <1>6
  <2> HIDE DEF f
  <2>2. o.files = f
    BY <1>2, <2>1 DEF HandleInv, Storages
  <2> QED BY <1>2, <1>3, <1>5, <1>6, <2>2 DEF f, o
<1>7. CASE ~b.ok
  <2>1. o.files = b.files
    BY <1>2, <1>4, <1>7 DEF HandleInv, Storages
  <2> QED BY <1>2, <1>3, <1>5, <1>7, <2>1 DEF o
<1> QED BY <1>2, <1>6, <1>7

(* A remove takes that file away, whatever is cached, unless it fails. *)
LEMMA Removes ==
    ASSUME NEW s, HandleInv(s), NEW path \in Paths
    PROVE  LET r == RemoveFile(s, path)
           IN  /\ HandleInv(r)
               /\ s.fails = 1 => r.files = s.files
               /\ s.fails # 1 => r.files = [p \in DOMAIN s.files \ {path} |-> s.files[p]]
               /\ r.fails = IF s.fails > 0 THEN s.fails - 1 ELSE 0
<1> DEFINE a == CacheCloseAll(s)
           b == Call(a)
           f == [p \in DOMAIN b.files \ {path} |-> b.files[p]]
           t == [b EXCEPT !.files = f]
           u == [b EXCEPT !.ok = FALSE]
           r == RemoveFile(s, path)
<1>1. HandleInv(a) /\ HandleInv(b) /\ b.files = s.files
  BY CacheCloseAllInv, CallInv
<1>2. a.fails = s.fails
  BY DEF CacheCloseAll, CloseFile, HandleInv, Storages
<1>3. b.fails = (IF s.fails > 0 THEN s.fails - 1 ELSE 0) /\ (b.ok <=> s.fails # 1)
  <2> HIDE DEF a
  <2> QED BY <1>1, <1>2 DEF Call, HandleInv, Storages
<1>4. r = IF ~b.ok \/ path \notin DOMAIN b.files THEN u ELSE t
  BY Zenon DEF RemoveFile
<1>5. /\ t.files = f /\ t.fails = b.fails /\ u.files = b.files /\ u.fails = b.fails
      /\ f = [p \in DOMAIN s.files \ {path} |-> s.files[p]]
      /\ path \notin DOMAIN b.files => f = s.files
  <2>1. \E P : s.files \in [P -> Seq(Int)]
    BY DEF HandleInv, Storages, Folders
  <2>2. f = [p \in DOMAIN s.files \ {path} |-> s.files[p]]
    BY <1>1
  <2>3. path \notin DOMAIN b.files => f = s.files
    <3> SUFFICES ASSUME path \notin DOMAIN s.files
                 PROVE  [p \in DOMAIN s.files \ {path} |-> s.files[p]] = s.files
      BY <1>1, <2>2
    <3> QED BY <2>1
  <2> HIDE DEF b, f
  <2> QED BY <1>1, <2>2, <2>3 DEF HandleInv, Storages
<1>6. HandleInv(r)
  BY RemoveInv
<1> HIDE DEF b, f, t, u, r
<1>7. r.fails = IF s.fails > 0 THEN s.fails - 1 ELSE 0
  BY <1>3, <1>4, <1>5
<1>8. s.fails = 1 => r.files = s.files
  BY <1>1, <1>3, <1>4, <1>5
<1>9. s.fails # 1 => r.files = [p \in DOMAIN s.files \ {path} |-> s.files[p]]
  BY <1>1, <1>3, <1>4, <1>5
<1> QED BY <1>6, <1>7, <1>8, <1>9 DEF r

-----------------------------------------------------------------------------
(* The directory written with one entry changed. *)

(* An entry that a write of it, unchanged, leaves alone. *)
Quiet(d, e) ==
    /\ d.stitched[e].flags = d.dirents[e].flags
    /\ InUse(d.dirents[e].flags) => ~Moved(d.stitched[e], d.dirents[e])
                                    /\ ~(d.dirents[e].count < Len(d.stitched[e].sectors))

(* An entry that says what the image has already makes no change. *)
LEMMA QuietEntry ==
    ASSUME NEW d, NEW e, Quiet(d, e)
    PROVE  Entry(d, e) = d
BY DEF Quiet, Entry

(* Where one entry of the directory is new, one file at most is created ... *)
LEMMA OneCreation ==
    ASSUME NEW d, d.error = FALSE, NEW new, NEW s \in 1 .. Slots,
           \A e \in 1 .. Slots \ {s} : new[e] = d.dirents[e]
    PROVE  Creations(d, new)[Slots] = CreateNew(d, d, new[s], s)
<1> DEFINE c == CreateNew(d, d, new[s], s)
           P(t) == t = [e \in 0 .. Slots |-> IF e = 0 THEN d ELSE CreateNew(d, t[e - 1], new[e], e)]
           g == [e \in 0 .. Slots |-> IF e < s THEN d ELSE c]
           t == CHOOSE t : P(t)
<1>0. Slots \in Nat \ {0} /\ s \in Nat /\ s > 0 /\ s <= Slots
  BY Sizes
<1>1. \A e \in 1 .. Slots \ {s} : \A u : CreateNew(d, u, new[e], e) = u
  BY DEF CreateNew
<1> HIDE DEF c
<1>2. P(g)
  <2>1. ASSUME NEW e \in 0 .. Slots
        PROVE  g[e] = IF e = 0 THEN d ELSE CreateNew(d, g[e - 1], new[e], e)
    <3>1. CASE e = 0
      BY <1>0, <3>1
    <3>2. CASE e # 0 /\ e # s
      <4>1. e - 1 \in 0 .. Slots /\ (e - 1 < s <=> e < s)
        BY <1>0, <3>2
      <4>2. g[e - 1] = g[e]
        BY <4>1
      <4>3. e \in 1 .. Slots \ {s}
        BY <3>2
      <4> HIDE DEF g
      <4> QED BY <1>1, <3>2, <4>2, <4>3
    <3>3. CASE e = s
      <4>1. e - 1 \in 0 .. Slots /\ e - 1 < s /\ e # 0
        BY <1>0, <3>3
      <4>2. g[e - 1] = d /\ g[e] = c
        BY <1>0, <3>3, <4>1
      <4> HIDE DEF g
      <4> QED BY <3>3, <4>1, <4>2 DEF c
    <3> QED BY <3>1, <3>2, <3>3
  <2>2. [e \in 0 .. Slots |-> g[e]] = [e \in 0 .. Slots |-> IF e = 0 THEN d ELSE CreateNew(d, g[e - 1], new[e], e)]
    <3> HIDE DEF g
    <3> QED BY <2>1, Zenon
  <2>3. g = [e \in 0 .. Slots |-> g[e]]
    OBVIOUS
  <2> HIDE DEF g
  <2> QED BY <2>2, <2>3
<1>3. P(t)
  <2> HIDE DEF P, g
  <2> QED BY <1>2, Zenon
<1>4. \A e \in 0 .. Slots : t[e] = IF e = 0 THEN d ELSE CreateNew(d, t[e - 1], new[e], e)
  <2> HIDE DEF t
  <2> QED BY <1>3
<1>5. Creations(d, new) = t
  BY DEF Creations
<1> HIDE DEF t
<1> DEFINE T == {e \in 0 .. Slots : t[e] = g[e]}
<1>6. 0 \in T
  BY <1>0, <1>4
<1>7. ASSUME NEW m \in 1 .. Slots, m - 1 \in T PROVE m \in T
  <2>1. m \in 0 .. Slots /\ m # 0
    BY <1>0
  <2>2. t[m - 1] = g[m - 1]
    BY <1>7
  <2>3. g[m] = CreateNew(d, g[m - 1], new[m], m)
    <3> HIDE DEF g
    <3> QED BY <1>2, <2>1
  <2> HIDE DEF g
  <2> QED BY <1>4, <2>1, <2>2, <2>3
<1>8. t[Slots] = g[Slots]
  <2>1. Slots \in 0 .. Slots
    BY <1>0
  <2>2. 0 .. Slots \subseteq T
    <3> HIDE DEF T
    <3> QED BY <1>0, <1>6, <1>7, Upto
  <2> HIDE DEF g
  <2> QED BY <2>1, <2>2
<1>9. g[Slots] = c
  BY <1>0
<1> QED BY <1>5, <1>8, <1>9 DEF c

(* ... and one entry taken. *)
LEMMA OneTaking ==
    ASSUME NEW d, NEW s \in 1 .. Slots,
           \A e \in 1 .. Slots \ {s} : Quiet(d, e) /\ (Take(d, s).error \/ Quiet(Take(d, s), e))
    PROVE  Takings(d)[Slots] = Take(d, s)
<1> DEFINE c == Take(d, s)
           P(t) == t = [e \in 0 .. Slots |-> IF e = 0 THEN d ELSE Take(t[e - 1], e)]
           g == [e \in 0 .. Slots |-> IF e < s THEN d ELSE c]
           t == CHOOSE t : P(t)
<1>0. Slots \in Nat \ {0} /\ s \in Nat /\ s > 0 /\ s <= Slots
  BY Sizes
<1>1. \A e \in 1 .. Slots \ {s} : Take(d, e) = d /\ Take(c, e) = c
  BY QuietEntry DEF Take
<1> HIDE DEF c
<1>2. P(g)
  <2>1. ASSUME NEW e \in 0 .. Slots
        PROVE  g[e] = IF e = 0 THEN d ELSE Take(g[e - 1], e)
    <3>1. CASE e = 0
      BY <1>0, <3>1
    <3>2. CASE e # 0 /\ e # s
      <4>1. e - 1 \in 0 .. Slots /\ (e - 1 < s <=> e < s)
        BY <1>0, <3>2
      <4>2. g[e - 1] = g[e] /\ (g[e] = d \/ g[e] = c)
        BY <4>1
      <4>3. e \in 1 .. Slots \ {s}
        BY <3>2
      <4> HIDE DEF g
      <4> QED BY <1>1, <3>2, <4>2, <4>3
    <3>3. CASE e = s
      <4>1. e - 1 \in 0 .. Slots /\ e - 1 < s /\ e # 0
        BY <1>0, <3>3
      <4>2. g[e - 1] = d /\ g[e] = c
        BY <1>0, <3>3, <4>1
      <4> HIDE DEF g
      <4> QED BY <3>3, <4>1, <4>2 DEF c
    <3> QED BY <3>1, <3>2, <3>3
  <2>2. [e \in 0 .. Slots |-> g[e]] = [e \in 0 .. Slots |-> IF e = 0 THEN d ELSE Take(g[e - 1], e)]
    <3> HIDE DEF g
    <3> QED BY <2>1, Zenon
  <2>3. g = [e \in 0 .. Slots |-> g[e]]
    OBVIOUS
  <2> HIDE DEF g
  <2> QED BY <2>2, <2>3
<1>3. P(t)
  <2> HIDE DEF P, g
  <2> QED BY <1>2, Zenon
<1>4. \A e \in 0 .. Slots : t[e] = IF e = 0 THEN d ELSE Take(t[e - 1], e)
  <2> HIDE DEF t
  <2> QED BY <1>3
<1>5. Takings(d) = t
  BY DEF Takings
<1> HIDE DEF t
<1> DEFINE T == {e \in 0 .. Slots : t[e] = g[e]}
<1>6. 0 \in T
  BY <1>0, <1>4
<1>7. ASSUME NEW m \in 1 .. Slots, m - 1 \in T PROVE m \in T
  <2>1. m \in 0 .. Slots /\ m # 0
    BY <1>0
  <2>2. t[m - 1] = g[m - 1]
    BY <1>7
  <2>3. g[m] = Take(g[m - 1], m)
    <3> HIDE DEF g
    <3> QED BY <1>2, <2>1
  <2> HIDE DEF g
  <2> QED BY <1>4, <2>1, <2>2, <2>3
<1>8. t[Slots] = g[Slots]
  <2>1. Slots \in 0 .. Slots
    BY <1>0
  <2>2. 0 .. Slots \subseteq T
    <3> HIDE DEF T
    <3> QED BY <1>0, <1>6, <1>7, Upto
  <2> HIDE DEF g
  <2> QED BY <2>1, <2>2
<1>9. g[Slots] = c
  BY <1>0
<1> QED BY <1>5, <1>8, <1>9 DEF c

(* A disk that differs in the slot s and the host file h only. *)
SameFiles(old, new, h) ==
    \A p \in Paths \ {h} : /\ p \in DOMAIN new <=> p \in DOMAIN old
                           /\ p \in DOMAIN old => new[p] = old[p]
Frame(d, r, s, h) ==
    /\ r \in Images /\ HandleInv(r.io)
    /\ \A e \in 1 .. Slots \ {s} : r.dirents[e] = d.dirents[e] /\ r.stitched[e] = d.stitched[e]
    /\ SameFiles(d.io.files, r.io.files, h)

LEMMA FilesAre ==
    ASSUME NEW s, HandleInv(s)
    PROVE  /\ s.files = [p \in DOMAIN s.files |-> s.files[p]]
           /\ DOMAIN s.files \subseteq Paths
           /\ \A p \in DOMAIN s.files : s.files[p] \in Seq(Int)
BY DEF HandleInv, Storages, Folders

(* A host file is created empty, or left as it is when it is there already. *)
LEMMA CreatedIs ==
    ASSUME NEW d \in Images, HandleInv(d.io), d.error = FALSE, NEW name, HostName(name) \in Paths
    PROVE  LET c == Created(d, name)
           IN  /\ c \in Images /\ HandleInv(c.io)
               /\ c.vtoc = d.vtoc /\ c.dirents = d.dirents /\ c.stitched = d.stitched
               /\ c.io.files = IF c.error THEN d.io.files ELSE WithNew(d.io.files, HostName(name))
<1> DEFINE h == HostName(name)
           s == OpenAt(d.io, h, "write", TRUE)
           c == Created(d, name)
<1>1. /\ HandleInv(s) /\ s.ok \in BOOLEAN
      /\ s.files = IF s.ok THEN WithNew(d.io.files, h) ELSE d.io.files
  <2>1. "write" \in Modes
    BY DosAssumption
  <2> HIDE DEF h
  <2> QED BY <2>1, Opens DEF h
<1>2. c = IF s.ok THEN [d EXCEPT !.io = CloseFile(s)] ELSE [d EXCEPT !.io = s, !.error = TRUE]
  BY Zenon DEF Created, Fail
<1> HIDE DEF s, h, c
<1>3. HandleInv(CloseFile(s)) /\ CloseFile(s).files = s.files
  BY <1>1, CloseKeeps
<1>4. s \in Storages /\ CloseFile(s) \in Storages
  BY <1>1, <1>3 DEF HandleInv
<1>5. CASE s.ok
  <2>1. /\ c \in Images /\ c.io = CloseFile(s) /\ c.error = FALSE
        /\ c.vtoc = d.vtoc /\ c.dirents = d.dirents /\ c.stitched = d.stitched
    BY <1>2, <1>4, <1>5 DEF Images
  <2> QED BY <1>1, <1>3, <1>5, <2>1 DEF c, h
<1>6. CASE ~s.ok
  <2>1. /\ c \in Images /\ c.io = s /\ c.error = TRUE
        /\ c.vtoc = d.vtoc /\ c.dirents = d.dirents /\ c.stitched = d.stitched
    BY <1>2, <1>4, <1>6 DEF Images
  <2> QED BY <1>1, <1>6, <2>1 DEF c, h
<1> QED BY <1>1, <1>5, <1>6

(* The write of the directory, when it has one entry to change. *)
LEMMA DirWriteIs ==
    ASSUME NEW d \in Images, d.error = FALSE, NEW s \in 1 .. Slots, NEW entry \in Dirents,
           \A e \in 1 .. Slots \ {s} : Quiet(d, e),
           LET c == CreateNew(d, d, entry, s)
               t == Entry([c EXCEPT !.dirents = [d.dirents EXCEPT ![s] = entry]], s)
           IN  /\ c \in Images /\ c.stitched = d.stitched
               /\ ~c.error => \A e \in 1 .. Slots \ {s} : t.error \/ Quiet(t, e)
    PROVE  LET new == [d.dirents EXCEPT ![s] = entry]
               c   == CreateNew(d, d, entry, s)
           IN  DirWrite(d, new) = IF c.error THEN c ELSE Entry([c EXCEPT !.dirents = new], s)
<1> DEFINE new == [d.dirents EXCEPT ![s] = entry]
           c   == CreateNew(d, d, entry, s)
           n   == [c EXCEPT !.dirents = new]
           t   == Entry(n, s)
<1>1. new[s] = entry /\ \A e \in 1 .. Slots \ {s} : new[e] = d.dirents[e]
  BY DEF Images
<1>2. Creations(d, new)[Slots] = c
  <2> HIDE DEF new
  <2>1. Creations(d, new)[Slots] = CreateNew(d, d, new[s], s)
    BY <1>1, OneCreation
  <2> QED BY <1>1, <2>1
<1>3. DirWrite(d, new) = IF c.error THEN c ELSE Takings(n)[Slots]
  BY <1>2, Zenon DEF DirWrite
<1>4. c \in Images /\ c.stitched = d.stitched /\ (~c.error => \A e \in 1 .. Slots \ {s} : t.error \/ Quiet(t, e))
  OBVIOUS
<1> HIDE DEF c
<1>5. ASSUME ~c.error PROVE Takings(n)[Slots] = t
  <2>1. n.error = c.error /\ n.stitched = d.stitched /\ n.dirents = new
    <3> HIDE DEF new
    <3> QED BY <1>4 DEF Images
  <2>2. Take(n, s) = t
    BY <1>5, <2>1 DEF Take
  <2>3. \A e \in 1 .. Slots \ {s} : Quiet(n, e)
    <3> HIDE DEF n, new
    <3> QED BY <1>1, <2>1 DEF Quiet
  <2> HIDE DEF n, new, t
  <2>4. \A e \in 1 .. Slots \ {s} : Quiet(n, e) /\ (Take(n, s).error \/ Quiet(Take(n, s), e))
    BY <1>4, <1>5, <2>2, <2>3
  <2> QED BY <2>2, <2>4, OneTaking
<1> HIDE DEF n, new, t
<1>6. DirWrite(d, new) = IF c.error THEN c ELSE t
  BY <1>3, <1>5
<1> QED BY <1>6 DEF n, new, c, t

(* The entry of a file deleted: its host file is removed, or the remove     *)
(* fails.                                                                   *)
LEMMA Erasing ==
    ASSUME NEW d \in Images, HandleInv(d.io), d.error = FALSE, NEW s \in 1 .. Slots, NEW entry \in Dirents,
           \A e \in 1 .. Slots \ {s} : Quiet(d, e),
           entry.flags = "deleted", d.stitched[s].flags = "closed", d.stitched[s].host \in Paths
    PROVE  LET h == d.stitched[s].host
               r == DirWrite(d, [d.dirents EXCEPT ![s] = entry])
           IN  /\ Frame(d, r, s, h) /\ ~r.error /\ r.vtoc = d.vtoc
               /\ r.dirents[s] = entry /\ r.stitched[s] = [NoFile EXCEPT !.flags = "deleted"]
               /\ r.io = RemoveFile(d.io, h)
<1> DEFINE new == [d.dirents EXCEPT ![s] = entry]
           h   == d.stitched[s].host
           x   == RemoveFile(d.io, h)
           gone == [NoFile EXCEPT !.flags = "deleted"]
           n   == [d EXCEPT !.dirents = new]
           t   == Entry(n, s)
<1>1. /\ HandleInv(x)
      /\ x.files = d.io.files \/ x.files = [p \in DOMAIN d.io.files \ {h} |-> d.io.files[p]]
  BY Removes
<1>2. CreateNew(d, d, entry, s) = d
  BY DEF CreateNew, InUse
<1>3. /\ n \in Images /\ n.io = d.io /\ n.stitched = d.stitched /\ n.dirents = new /\ n.error = FALSE
      /\ n.vtoc = d.vtoc /\ new[s] = entry /\ \A e \in 1 .. Slots \ {s} : new[e] = d.dirents[e]
      /\ new \in [1 .. Slots -> Dirents]
  BY DEF Images
<1> HIDE DEF new, n
<1>4. t = [n EXCEPT !.io = x, !.stitched[s] = gone]
  <2>1. n.dirents[s].flags = "deleted" /\ n.stitched[s].flags = "closed" /\ n.stitched[s].host = h
    BY <1>3
  <2>2. n.io = d.io
    BY <1>3
  <2>3. ~InUse("deleted") /\ "deleted" # "closed"
    BY DEF InUse
  <2> QED BY <2>1, <2>2, <2>3, Zenon DEF Entry
<1>5. gone \in Chains /\ gone.flags = "deleted"
  <2>1. gone = [flags |-> "deleted", sectors |-> <<>>, host |-> NoName]
    BY DEF NoFile
  <2>2. <<>> \in Seq(DataSectors) /\ "deleted" \in Flags /\ NoName \in Paths \cup {NoName}
    BY DEF Flags
  <2> HIDE DEF gone
  <2> QED BY <2>1, <2>2 DEF Chains
<1> HIDE DEF x, gone, t, h
<1>6. x \in Storages
  BY <1>1 DEF HandleInv
<1>7. /\ t \in Images /\ t.io = x /\ t.dirents = new /\ t.error = FALSE /\ t.vtoc = d.vtoc
      /\ t.stitched = [d.stitched EXCEPT ![s] = gone]
  BY <1>3, <1>4, <1>5, <1>6 DEF Images
<1>8. t.stitched[s] = gone /\ \A e \in 1 .. Slots \ {s} : t.stitched[e] = d.stitched[e]
  BY <1>7 DEF Images
<1>9. \A e \in 1 .. Slots \ {s} : Quiet(t, e)
  BY <1>3, <1>7, <1>8 DEF Quiet
<1>10. DirWrite(d, new) = t
  <2>1. /\ CreateNew(d, d, entry, s) \in Images /\ CreateNew(d, d, entry, s).stitched = d.stitched
        /\ Entry([CreateNew(d, d, entry, s) EXCEPT !.dirents = new], s) = t
    BY <1>2 DEF t, n
  <2>2. ~CreateNew(d, d, entry, s).error
    BY <1>2
  <2>3. DirWrite(d, new) = IF CreateNew(d, d, entry, s).error THEN CreateNew(d, d, entry, s)
                           ELSE Entry([CreateNew(d, d, entry, s) EXCEPT !.dirents = new], s)
    BY <1>9, <2>1, DirWriteIs, Zenon DEF new
  <2> QED BY <2>1, <2>2, <2>3
<1>11. SameFiles(d.io.files, t.io.files, h)
  BY <1>1, <1>7 DEF SameFiles
<1>12. Frame(d, t, s, h)
  BY <1>1, <1>3, <1>7, <1>8, <1>11 DEF Frame
<1> QED BY <1>3, <1>7, <1>8, <1>10, <1>11, <1>12 DEF new, h, gone, x

(* The entry of a file that stays in use: its chain may change. *)
Rechained(f, entry) ==
    IF Moved(f, entry) THEN <<entry.start>>
    ELSE IF entry.count < Len(f.sectors) THEN SubSeq(f.sectors, 1, Max({entry.count, 1})) ELSE f.sectors

LEMMA EntryInUse ==
    ASSUME NEW d, NEW e, InUse(d.dirents[e].flags), InUse(d.stitched[e].flags)
    PROVE  LET entry == d.dirents[e]
               f     == d.stitched[e]
           IN  Entry(d, e) = IF entry.flags = f.flags /\ ~Moved(f, entry) /\ ~(entry.count < Len(f.sectors))
                             THEN d
                             ELSE [d EXCEPT !.stitched[e] =
                                     [flags |-> entry.flags, sectors |-> Rechained(f, entry), host |-> f.host]]
<1> DEFINE entry == d.dirents[e]
           f     == d.stitched[e]
           both  == InUse(entry.flags) /\ InUse(f.flags)
           moved == both /\ Moved(f, entry)
           fewer == both /\ entry.count < Len(f.sectors)
           new   == Created(d, entry.name)
           A     == [d EXCEPT !.io = RemoveFile(d.io, f.host), !.stitched[e] = [NoFile EXCEPT !.flags = "deleted"]]
           B     == IF new.error THEN new
                    ELSE [new EXCEPT !.stitched[e] = [flags |-> entry.flags, sectors |-> <<entry.start>>,
                                                      host |-> HostName(entry.name)]]
           chain == IF moved THEN <<entry.start>>
                    ELSE IF fewer THEN SubSeq(f.sectors, 1, Max({entry.count, 1})) ELSE f.sectors
           C     == [d EXCEPT !.stitched[e] = [flags |-> entry.flags, sectors |-> chain, host |-> f.host]]
<1>1. Entry(d, e) = IF entry.flags = f.flags /\ ~moved /\ ~fewer THEN d
                    ELSE IF entry.flags = "deleted" THEN A
                    ELSE IF InUse(entry.flags) /\ ~InUse(f.flags) THEN B ELSE C
  BY Zenon DEF Entry
<1>2. (moved <=> Moved(f, entry)) /\ (fewer <=> entry.count < Len(f.sectors))
  OBVIOUS
<1>3. entry.flags # "deleted"
  BY DEF InUse
<1>4. chain = Rechained(f, entry)
  <2> HIDE DEF moved, fewer
  <2> QED BY <1>2 DEF Rechained
<1>5. C = [d EXCEPT !.stitched[e] = [flags |-> entry.flags, sectors |-> Rechained(f, entry), host |-> f.host]]
  <2> HIDE DEF chain
  <2> QED BY <1>4, Zenon
<1> HIDE DEF A, B, C, moved, fewer, entry, f
<1>6. InUse(f.flags)
  BY DEF f
<1>7. Entry(d, e) = IF entry.flags = f.flags /\ ~Moved(f, entry) /\ ~(entry.count < Len(f.sectors)) THEN d ELSE C
  <2> DEFINE low == entry.count < Len(f.sectors)
  <2> HIDE DEF low
  <2>1. fewer <=> low
    BY <1>2 DEF low
  <2>2. Entry(d, e) = IF entry.flags = f.flags /\ ~Moved(f, entry) /\ ~low THEN d ELSE C
    BY <1>1, <1>2, <1>3, <1>6, <2>1
  <2> QED BY <2>2 DEF low
<1> QED BY <1>5, <1>7, Zenon DEF entry, f

(* The entry of a file in use is written: r is what becomes of d. *)
Changed(d, r, s, h, entry) ==
    /\ Frame(d, r, s, h) /\ ~r.error /\ r.vtoc = d.vtoc /\ r.io = d.io
    /\ r.dirents[s] = entry
    /\ r.stitched[s] = [flags |-> entry.flags, sectors |-> Rechained(d.stitched[s], entry),
                        host |-> d.stitched[s].host]

(* An entry in use of a file in use: the chain is kept, cut or begun anew,  *)
(* and no host file is touched.                                             *)
LEMMA Changing ==
    ASSUME NEW d \in Images, HandleInv(d.io), d.error = FALSE, NEW s \in 1 .. Slots, NEW entry \in Dirents,
           \A e \in 1 .. Slots \ {s} : Quiet(d, e),
           InUse(entry.flags), InUse(d.stitched[s].flags), InUse(d.dirents[s].flags),
           Rechained(d.stitched[s], entry) \in Seq(DataSectors), NEW h
    PROVE  Changed(d, DirWrite(d, [d.dirents EXCEPT ![s] = entry]), s, h, entry)
<1> DEFINE new == [d.dirents EXCEPT ![s] = entry]
           f   == d.stitched[s]
           c   == Rechained(f, entry)
           g   == [flags |-> entry.flags, sectors |-> c, host |-> f.host]
           n   == [d EXCEPT !.dirents = new]
           t   == Entry(n, s)
<1>1. f \in Chains /\ f = [flags |-> f.flags, sectors |-> f.sectors, host |-> f.host] /\ entry.flags \in Flags
  BY DEF Images, Chains, Dirents
<1>2. CreateNew(d, d, entry, s) = d
  BY DEF CreateNew
<1>3. /\ n \in Images /\ n.io = d.io /\ n.stitched = d.stitched /\ n.dirents = new /\ n.error = FALSE
      /\ n.vtoc = d.vtoc /\ new[s] = entry /\ \A e \in 1 .. Slots \ {s} : new[e] = d.dirents[e]
      /\ new \in [1 .. Slots -> Dirents]
  BY DEF Images
<1> HIDE DEF new, n, c
<1>4. t.io = d.io /\ t.dirents = new /\ t.error = FALSE /\ t.vtoc = d.vtoc
      /\ t.stitched = [d.stitched EXCEPT ![s] = g] /\ t \in Images
  <2> DEFINE moved == Moved(f, entry)
             fewer == entry.count < Len(f.sectors)
  <2>0. g \in Chains
    BY <1>1 DEF Chains, c
  <2>1. CASE entry.flags = f.flags /\ ~moved /\ ~fewer
    <3>1. t = n
      <4>1. n.dirents[s] = entry /\ n.stitched[s] = f
        BY <1>3
      <4>2. InUse(n.dirents[s].flags) /\ InUse(n.stitched[s].flags)
        BY <4>1
      <4> HIDE DEF f
      <4> QED BY <2>1, <4>1, <4>2, EntryInUse
    <3>2. c = f.sectors
      BY <2>1 DEF c, Rechained
    <3>3. g = f
      BY <1>1, <2>1, <3>2
    <3>4. [d.stitched EXCEPT ![s] = f] = d.stitched
      BY DEF Images
    <3> QED BY <1>3, <3>1, <3>3, <3>4
  <2>2. CASE ~(entry.flags = f.flags /\ ~moved /\ ~fewer)
    <3>5. t = [n EXCEPT !.stitched[s] = g]
      <4>1. n.dirents[s] = entry /\ n.stitched[s] = f
        BY <1>3
      <4>2. Entry(n, s) = IF entry.flags = f.flags /\ ~moved /\ ~fewer THEN n
                          ELSE [n EXCEPT !.stitched[s] =
                                  [flags |-> entry.flags, sectors |-> Rechained(f, entry), host |-> f.host]]
        <5> HIDE DEF n, new
        <5>1. InUse(n.dirents[s].flags) /\ InUse(n.stitched[s].flags)
          BY <4>1
        <5>2. Entry(n, s) =
                IF n.dirents[s].flags = n.stitched[s].flags /\ ~Moved(n.stitched[s], n.dirents[s])
                   /\ ~(n.dirents[s].count < Len(n.stitched[s].sectors)) THEN n
                ELSE [n EXCEPT !.stitched[s] =
                        [flags |-> n.dirents[s].flags, sectors |-> Rechained(n.stitched[s], n.dirents[s]),
                         host |-> n.stitched[s].host]]
          BY <5>1, EntryInUse
        <5> HIDE DEF f
        <5> QED BY <4>1, <5>2, Zenon
      <4> HIDE DEF moved, fewer, f
      <4> QED BY <2>2, <4>2, Zenon DEF c, g
    <3> HIDE DEF t, g, f
    <3> QED BY <1>3, <2>0, <3>5 DEF Images
  <2> QED BY <2>1, <2>2
<1> HIDE DEF g, t, f
<1>5. t.stitched[s] = g /\ \A e \in 1 .. Slots \ {s} : t.stitched[e] = d.stitched[e]
  BY <1>4 DEF Images
<1>6. \A e \in 1 .. Slots \ {s} : Quiet(t, e)
  BY <1>3, <1>4, <1>5 DEF Quiet
<1>7. DirWrite(d, new) = t
  <2>1. /\ CreateNew(d, d, entry, s) \in Images /\ CreateNew(d, d, entry, s).stitched = d.stitched
        /\ Entry([CreateNew(d, d, entry, s) EXCEPT !.dirents = new], s) = t
    BY <1>2 DEF t, n
  <2>2. ~CreateNew(d, d, entry, s).error
    BY <1>2
  <2>3. DirWrite(d, new) = IF CreateNew(d, d, entry, s).error THEN CreateNew(d, d, entry, s)
                           ELSE Entry([CreateNew(d, d, entry, s) EXCEPT !.dirents = new], s)
    BY <1>6, <2>1, DirWriteIs, Zenon DEF new
  <2> QED BY <2>1, <2>2, <2>3
<1>8. Frame(d, t, s, h)
  BY <1>3, <1>4, <1>5 DEF Frame, SameFiles
<1> QED BY <1>3, <1>4, <1>5, <1>7, <1>8 DEF new, f, g, c, Changed

LEMMA SameFilesFacts ==
    ASSUME NEW a, NEW b, NEW c, NEW h, SameFiles(a, b, h), SameFiles(b, c, h)
    PROVE  SameFiles(a, c, h) /\ SameFiles(a, a, h)
BY DEF SameFiles

LEMMA SameWithNew ==
    ASSUME NEW files, NEW h
    PROVE  SameFiles(files, WithNew(files, h), h) /\ SameFiles(files, files, h) /\ h \in DOMAIN WithNew(files, h)
BY DEF SameFiles, WithNew

(* An entry in use of a slot that was not: a host file and a chain of one   *)
(* sector.                                                                  *)
LEMMA EntryNew ==
    ASSUME NEW d, NEW e, InUse(d.dirents[e].flags), ~InUse(d.stitched[e].flags)
    PROVE  LET entry == d.dirents[e]
               new   == Created(d, entry.name)
           IN  Entry(d, e) = IF new.error THEN new
                             ELSE [new EXCEPT !.stitched[e] =
                                     [flags |-> entry.flags, sectors |-> <<entry.start>>,
                                      host |-> HostName(entry.name)]]
<1> DEFINE entry == d.dirents[e]
           f     == d.stitched[e]
           new   == Created(d, entry.name)
           B     == IF new.error THEN new
                    ELSE [new EXCEPT !.stitched[e] = [flags |-> entry.flags, sectors |-> <<entry.start>>,
                                                      host |-> HostName(entry.name)]]
<1>1. entry.flags # f.flags /\ entry.flags # "deleted"
  BY DEF InUse
<1>2. InUse(entry.flags) /\ ~InUse(f.flags)
  OBVIOUS
<1>3. Entry(d, e) = B
  BY <1>1, <1>2, Zenon DEF Entry
<1> QED BY <1>3

(* Slot s has begun a file, with entry and the empty host file h, or none. *)
Starts(d, r, s, h, entry) ==
    /\ Frame(d, r, s, h) /\ r.vtoc = d.vtoc
    /\ r.error => r.stitched[s] = d.stitched[s]
    /\ ~r.error => /\ r.dirents[s] = entry /\ h \in DOMAIN r.io.files
                   /\ r.stitched[s] = [flags |-> entry.flags, sectors |-> <<entry.start>>, host |-> h]

(* The entry of a new file: its host file is created, or it is not taken. *)
LEMMA Creating ==
    ASSUME NEW d \in Images, HandleInv(d.io), d.error = FALSE, NEW s \in 1 .. Slots, NEW entry \in Dirents,
           \A e \in 1 .. Slots \ {s} : Quiet(d, e),
           InUse(entry.flags), ~InUse(d.stitched[s].flags),
           HostName(entry.name) \in Paths, entry.start \in DataSectors
    PROVE  Starts(d, DirWrite(d, [d.dirents EXCEPT ![s] = entry]), s, HostName(entry.name), entry)
<1> DEFINE new == [d.dirents EXCEPT ![s] = entry]
           h   == HostName(entry.name)
           g   == [flags |-> entry.flags, sectors |-> <<entry.start>>, host |-> h]
           c   == CreateNew(d, d, entry, s)
           n   == [c EXCEPT !.dirents = new]
           m   == Created(n, entry.name)
           t   == Entry(n, s)
<1>1. /\ c \in Images /\ HandleInv(c.io) /\ c.vtoc = d.vtoc /\ c.dirents = d.dirents /\ c.stitched = d.stitched
      /\ SameFiles(d.io.files, c.io.files, h)
  <2> DEFINE k == Created(d, entry.name)
  <2>1. /\ k \in Images /\ HandleInv(k.io)
        /\ k.vtoc = d.vtoc /\ k.dirents = d.dirents /\ k.stitched = d.stitched
        /\ k.io.files = IF k.error THEN d.io.files ELSE WithNew(d.io.files, h)
    BY CreatedIs
  <2>2. c = d \/ c = k
    BY DEF CreateNew
  <2>3. SameFiles(d.io.files, d.io.files, h) /\ SameFiles(d.io.files, WithNew(d.io.files, h), h)
    BY SameWithNew
  <2> HIDE DEF c, k, h
  <2> QED BY <2>1, <2>2, <2>3
<1>2. new[s] = entry /\ (\A e \in 1 .. Slots \ {s} : new[e] = d.dirents[e]) /\ new \in [1 .. Slots -> Dirents]
  BY DEF Images
<1>3. g \in Chains
  BY DEF Chains, Dirents
<1> HIDE DEF new, c
<1>4. n \in Images /\ n.io = c.io /\ n.vtoc = d.vtoc /\ n.dirents = new /\ n.stitched = d.stitched /\ n.error = c.error
  BY <1>1, <1>2 DEF Images
<1> HIDE DEF n
<1>5. CASE c.error
  <2>1. DirWrite(d, new) = c
    <3>1. /\ CreateNew(d, d, entry, s) \in Images /\ CreateNew(d, d, entry, s).stitched = d.stitched
          /\ CreateNew(d, d, entry, s).error
      BY <1>1, <1>5 DEF c
    <3>2. DirWrite(d, new) = IF CreateNew(d, d, entry, s).error THEN CreateNew(d, d, entry, s)
                             ELSE Entry([CreateNew(d, d, entry, s) EXCEPT !.dirents = new], s)
      BY <3>1, DirWriteIs, Zenon DEF new
    <3> QED BY <3>1, <3>2 DEF c
  <2>2. Frame(d, c, s, h)
    BY <1>1 DEF Frame
  <2> QED BY <1>1, <1>5, <2>1, <2>2 DEF new, Starts
<1>6. CASE ~c.error
  <2>0. n.error = FALSE /\ HandleInv(n.io)
    BY <1>1, <1>4, <1>6 DEF Images
  <2>1. /\ m \in Images /\ HandleInv(m.io)
        /\ m.vtoc = d.vtoc /\ m.dirents = new /\ m.stitched = d.stitched
        /\ m.io.files = IF m.error THEN c.io.files ELSE WithNew(c.io.files, h)
    <3>1. /\ m \in Images /\ HandleInv(m.io)
          /\ m.vtoc = n.vtoc /\ m.dirents = n.dirents /\ m.stitched = n.stitched
          /\ m.io.files = IF m.error THEN n.io.files ELSE WithNew(n.io.files, h)
      BY <1>4, <2>0, CreatedIs
    <3> HIDE DEF m, h
    <3> QED BY <1>4, <3>1
  <2>2. t = IF m.error THEN m ELSE [m EXCEPT !.stitched[s] = g]
    <3>1. n.dirents[s] = entry /\ n.stitched[s] = d.stitched[s]
      BY <1>2, <1>4
    <3>2. InUse(n.dirents[s].flags) /\ ~InUse(n.stitched[s].flags)
      BY <3>1
    <3>3. t = IF Created(n, n.dirents[s].name).error THEN Created(n, n.dirents[s].name)
              ELSE [Created(n, n.dirents[s].name) EXCEPT !.stitched[s] =
                      [flags |-> n.dirents[s].flags, sectors |-> <<n.dirents[s].start>>,
                       host |-> HostName(n.dirents[s].name)]]
      BY ONLY <3>2, EntryNew
    <3> HIDE DEF t
    <3> QED BY <3>1, <3>3, Zenon
  <2>3. SameFiles(d.io.files, m.io.files, h) /\ (~m.error => h \in DOMAIN m.io.files)
    <3>1. SameFiles(c.io.files, WithNew(c.io.files, h), h) /\ h \in DOMAIN WithNew(c.io.files, h)
      BY SameWithNew
    <3>2. SameFiles(d.io.files, WithNew(c.io.files, h), h)
      BY <1>1, <3>1, SameFilesFacts
    <3> HIDE DEF m, h
    <3> QED BY <1>1, <2>1, <3>1, <3>2
  <2> HIDE DEF m, t, g
  <2>4. /\ t \in Images /\ t.io = m.io /\ t.dirents = new /\ t.vtoc = d.vtoc /\ t.error = m.error
        /\ t.stitched = IF m.error THEN d.stitched ELSE [d.stitched EXCEPT ![s] = g]
    <3>1. CASE m.error
      BY <2>1, <2>2, <3>1
    <3>2. CASE ~m.error
      <4>1. t = [m EXCEPT !.stitched[s] = g]
        BY <2>2, <3>2
      <4> QED BY <1>3, <2>1, <3>2, <4>1 DEF Images
    <3> QED BY <3>1, <3>2
  <2>5. /\ t.stitched[s] = IF m.error THEN d.stitched[s] ELSE g
        /\ \A e \in 1 .. Slots \ {s} : t.stitched[e] = d.stitched[e]
    BY <2>4 DEF Images
  <2>6. \A e \in 1 .. Slots \ {s} : Quiet(t, e)
    BY <1>2, <2>4, <2>5 DEF Quiet
  <2>7. DirWrite(d, new) = t
    <3>1. /\ CreateNew(d, d, entry, s) \in Images /\ CreateNew(d, d, entry, s).stitched = d.stitched
          /\ Entry([CreateNew(d, d, entry, s) EXCEPT !.dirents = new], s) = t
      BY <1>1 DEF t, n, c
    <3>2. ~CreateNew(d, d, entry, s).error
      BY <1>6 DEF c
    <3>3. DirWrite(d, new) = IF CreateNew(d, d, entry, s).error THEN CreateNew(d, d, entry, s)
                             ELSE Entry([CreateNew(d, d, entry, s) EXCEPT !.dirents = new], s)
      BY <2>6, <3>1, DirWriteIs, Zenon DEF new
    <3> QED BY <3>1, <3>2, <3>3
  <2>8. Frame(d, t, s, h)
    <3> HIDE DEF h
    <3> QED BY <1>2, <2>1, <2>3, <2>4, <2>5 DEF Frame
  <2> QED BY <1>2, <2>3, <2>4, <2>5, <2>7, <2>8 DEF new, g, Starts
<1> QED BY <1>5, <1>6

-----------------------------------------------------------------------------
(* A data sector written, and one read. *)

(* The file of a sector that one chain has, and the sector's place in it. *)
LEMMA TheFile ==
    ASSUME NEW d \in Images, NEW s \in 1 .. Slots, NEW x, FilesWith(d, x) = {s},
           Distinct(d.stitched[s].sectors), NEW k \in DOMAIN d.stitched[s].sectors,
           d.stitched[s].sectors[k] = x
    PROVE  /\ Min(FilesWith(d, x)) = s
           /\ Place(d.stitched[s].sectors, x) = k
<1>1. s \in Nat
  BY Sizes
<1>2. Min(FilesWith(d, x)) = s
  BY <1>1, MinOfOne
<1> DEFINE c == d.stitched[s].sectors
<1>3. c \in Seq(DataSectors)
  BY DEF Images, Chains
<1>4. DOMAIN c = 1 .. Len(c)
  <2> HIDE DEF c
  <2> QED BY <1>3
<1>5. \A i \in DOMAIN c : c[i] = x => i = k
  <2> HIDE DEF c
  <2>1. Distinct(c) /\ k \in DOMAIN c /\ c[k] = x
    BY DEF c
  <2> QED BY <1>4, <2>1 DEF Distinct
<1>6. \E i \in DOMAIN c : c[i] = x
  OBVIOUS
<1>7. Place(c, x) = k
  <2> HIDE DEF c
  <2> QED BY <1>5, <1>6 DEF Place
<1> QED BY <1>2, <1>7

LEMMA SameChanged ==
    ASSUME NEW files, NEW h, NEW v
    PROVE  SameFiles(files, [files EXCEPT ![h] = v], h) /\ DOMAIN [files EXCEPT ![h] = v] = DOMAIN files
BY DEF SameFiles

(* The k-th sector of the file in slot s is written: r is what becomes of d. *)
DataPut(d, r, s, k, bytes, next) ==
    LET f   == d.stitched[s]
        h   == f.host
        at  == (k - 1) * DataSize
        put == Written(d.io.files[h], bytes, at)
    IN  /\ Frame(d, r, s, h) /\ r.vtoc = d.vtoc /\ r.dirents = d.dirents
        /\ r.error => /\ r.stitched[s] = f
                      /\ \/ r.io.files = d.io.files
                         \/ h \in DOMAIN d.io.files /\ r.io.files = [d.io.files EXCEPT ![h] = put]
        /\ ~r.error =>
             /\ h \in DOMAIN d.io.files
             /\ r.stitched[s] = [flags |-> f.flags, sectors |-> Chain(f.sectors, k, next), host |-> h]
             /\ r.io.files = [d.io.files EXCEPT ![h] =
                                IF next = 0 THEN Resized(put, at + Len(bytes)) ELSE put]

(* A write of a data sector to the chain that has it touches that slot and  *)
(* that host file.                                                          *)
LEMMA DataWriting ==
    ASSUME NEW d \in Images, HandleInv(d.io), d.error = FALSE, NEW s \in 1 .. Slots,
           NEW x, FilesWith(d, x) = {s}, d.stitched[s].host \in Paths, Distinct(d.stitched[s].sectors),
           NEW k \in DOMAIN d.stitched[s].sectors, d.stitched[s].sectors[k] = x,
           NEW bytes \in Seq(Int), NEW next, (k - 1) * DataSize \in Nat,
           Chain(d.stitched[s].sectors, k, next) \in Seq(DataSectors)
    PROVE  DataPut(d, DataWrite(d, x, [bytes |-> bytes, next |-> next]), s, k, bytes, next)
<1> DEFINE f    == d.stitched[s]
           h    == f.host
           at   == (k - 1) * DataSize
           w    == [bytes |-> bytes, next |-> next]
           open == OpenAt(d.io, h, "write", FALSE)
           done == PwriteFile(open, bytes, at)
           shut == CloseFile(done)
           cut  == IF next = 0 THEN TruncateFile(shut, h, at + Len(bytes)) ELSE shut
           r    == DataWrite(d, x, w)
           old  == d.io.files
           put  == Written(old[h], bytes, at)
           c    == Chain(f.sectors, k, next)
<1>1. r = IF ~open.ok THEN Fail([d EXCEPT !.io = open])
          ELSE IF ~done.ok THEN Fail([d EXCEPT !.io = shut])
          ELSE IF ~cut.ok THEN Fail([d EXCEPT !.io = cut])
          ELSE [d EXCEPT !.io = cut, !.stitched[s].sectors = c]
  <2>1. r = PutSector(d, s, k, w)
    <3>1. Min(FilesWith(d, x)) = s /\ Place(f.sectors, x) = k /\ FilesWith(d, x) # {}
      BY TheFile
    <3> QED BY <3>1 DEF DataWrite
  <2>2. w.bytes = bytes /\ w.next = next
    OBVIOUS
  <2> HIDE DEF r, w
  <2>3. PutSector(d, s, k, w) =
          IF ~open.ok THEN Fail([d EXCEPT !.io = open])
          ELSE IF ~done.ok THEN Fail([d EXCEPT !.io = shut])
          ELSE IF ~cut.ok THEN Fail([d EXCEPT !.io = cut])
          ELSE [d EXCEPT !.io = cut, !.stitched[s].sectors = c]
    BY <2>2, Zenon DEF PutSector
  <2> QED BY <2>1, <2>3, Zenon
<1>2. HandleInv(open) /\ open.ok \in BOOLEAN /\ open.files = old /\ (open.ok => OpenOn(open, h))
  <2>1. "write" \in Modes /\ h \in Paths
    BY DosAssumption
  <2> HIDE DEF h
  <2> QED BY <2>1, Opens
<1> HIDE DEF open, h, f, at, put, c
<1>3. ASSUME open.ok
      PROVE  /\ HandleInv(done) /\ done.ok \in BOOLEAN /\ h \in DOMAIN old
             /\ done.files = IF done.ok THEN [old EXCEPT ![h] = put] ELSE old
  <2>1. OpenOn(open, h) /\ h \in DOMAIN old
    BY <1>2, <1>3 DEF OpenOn
  <2>2. at \in Nat
    BY DEF at
  <2>3. /\ HandleInv(done) /\ done.ok \in BOOLEAN
        /\ done.files = IF done.ok THEN [open.files EXCEPT ![h] = Written(open.files[h], bytes, at)] ELSE open.files
    BY <1>2, <2>1, <2>2, Pwrites
  <2> HIDE DEF done
  <2> QED BY <1>2, <2>1, <2>3 DEF put
<1> HIDE DEF done
<1>4. ASSUME open.ok
      PROVE  HandleInv(shut) /\ shut.files = done.files /\ shut.ok = done.ok
  BY <1>3, <1>4, CloseKeeps
<1> HIDE DEF shut
<1>5. ASSUME open.ok, done.ok
      PROVE  /\ HandleInv(cut) /\ cut.ok \in BOOLEAN
             /\ cut.files = IF next = 0 /\ cut.ok THEN [old EXCEPT ![h] = Resized(put, at + Len(bytes))]
                            ELSE [old EXCEPT ![h] = put]
             /\ next # 0 => cut.ok
  <2>1. shut.files = [old EXCEPT ![h] = put] /\ h \in DOMAIN old /\ HandleInv(shut) /\ shut.ok
    BY <1>3, <1>4, <1>5
  <2>2. CASE next # 0
    <3>1. cut = shut
      BY <2>2
    <3> HIDE DEF cut
    <3> QED BY <1>4, <1>5, <2>1, <2>2, <3>1
  <2>3. CASE next = 0
    <3>1. h \in Paths /\ h \in DOMAIN shut.files /\ at + Len(bytes) \in Nat
      BY <2>1 DEF h, f, at
    <3> DEFINE q == at + Len(bytes)
               u == TruncateFile(shut, h, q)
    <3>2. cut = u
      BY <2>3
    <3> HIDE DEF q, cut
    <3>3. /\ HandleInv(u) /\ u.ok \in BOOLEAN
          /\ u.files = IF u.ok THEN [shut.files EXCEPT ![h] = Resized(shut.files[h], q)] ELSE shut.files
      BY <2>1, <3>1, Truncates DEF q
    <3> HIDE DEF u
    <3>4. shut.files[h] = put
      BY <2>1
    <3>5. [shut.files EXCEPT ![h] = Resized(put, q)] = [old EXCEPT ![h] = Resized(put, q)]
      BY <2>1
    <3> QED BY <2>1, <2>3, <3>2, <3>3, <3>4, <3>5 DEF q
  <2> QED BY <2>2, <2>3
<1> HIDE DEF cut, r, old
<1>6. /\ SameFiles(old, [old EXCEPT ![h] = put], h) /\ SameFiles(old, old, h)
      /\ SameFiles(old, [old EXCEPT ![h] = Resized(put, at + Len(bytes))], h)
  BY SameChanged DEF SameFiles
<1>7. f \in Chains /\ f = [flags |-> f.flags, sectors |-> f.sectors, host |-> h]
  BY DEF f, h, Images, Chains
<1>8. \A u : HandleInv(u) => u \in Storages
  BY DEF HandleInv
<1> DEFINE Refused(u) == /\ r = Fail([d EXCEPT !.io = u]) /\ HandleInv(u)
                         /\ u.files = old \/ (h \in DOMAIN old /\ u.files = [old EXCEPT ![h] = put])
<1>9. ASSUME NEW u, Refused(u)
      PROVE  /\ Frame(d, r, s, h) /\ r.vtoc = d.vtoc /\ r.dirents = d.dirents /\ r.error
             /\ r.stitched[s] = f
             /\ r.io.files = old \/ (h \in DOMAIN old /\ r.io.files = [old EXCEPT ![h] = put])
  <2>1. /\ r \in Images /\ r.io = u /\ r.vtoc = d.vtoc /\ r.dirents = d.dirents /\ r.stitched = d.stitched
        /\ r.error = TRUE
    <3>1. u \in Storages /\ r = [d EXCEPT !.io = u, !.error = TRUE]
      BY <1>8, <1>9, Zenon DEF Fail
    <3> QED BY <3>1 DEF Images
  <2>2. SameFiles(old, r.io.files, h)
    BY <1>6, <1>9, <2>1
  <2> QED BY <1>9, <2>1, <2>2 DEF Frame, f, old
<1>10. CASE ~open.ok
  <2>1. Refused(open)
    BY <1>1, <1>2, <1>10
  <2> HIDE DEF Refused
  <2> QED BY <1>9, <2>1 DEF f, h, r, w, put, old, at, DataPut
<1>11. CASE open.ok /\ ~done.ok
  <2>1. Refused(shut)
    BY <1>1, <1>3, <1>4, <1>11
  <2> HIDE DEF Refused
  <2> QED BY <1>9, <2>1 DEF f, h, r, w, put, old, at, DataPut
<1>12. CASE open.ok /\ done.ok /\ ~cut.ok
  <2>1. Refused(cut)
    BY <1>1, <1>3, <1>5, <1>12
  <2> HIDE DEF Refused
  <2> QED BY <1>9, <2>1 DEF f, h, r, w, put, old, at, DataPut
<1>13. CASE open.ok /\ done.ok /\ cut.ok
  <2> DEFINE g == [f EXCEPT !.sectors = c]
  <2>1. r = [d EXCEPT !.io = cut, !.stitched[s] = g]
    BY <1>1, <1>13, Zenon DEF f
  <2>2. g = [flags |-> f.flags, sectors |-> c, host |-> h] /\ g \in Chains
    <3>1. c \in Seq(DataSectors)
      BY DEF c, f
    <3>2. g = [flags |-> f.flags, sectors |-> c, host |-> h]
      BY <1>7
    <3>3. f.flags \in Flags /\ h \in Paths \cup {NoName}
      BY <1>7 DEF Chains
    <3> HIDE DEF g
    <3> QED BY <3>1, <3>2, <3>3 DEF Chains
  <2> HIDE DEF g
  <2>3. cut \in Storages /\ HandleInv(cut)
    BY <1>5, <1>8, <1>13
  <2>4. /\ r \in Images /\ r.io = cut /\ r.vtoc = d.vtoc /\ r.dirents = d.dirents /\ r.error = FALSE
        /\ r.stitched = [d.stitched EXCEPT ![s] = g]
    BY <2>1, <2>2, <2>3 DEF Images
  <2>5. r.stitched[s] = g /\ \A e \in 1 .. Slots \ {s} : r.stitched[e] = d.stitched[e]
    BY <2>4 DEF Images
  <2>6. /\ h \in DOMAIN old
        /\ r.io.files = [old EXCEPT ![h] = IF next = 0 THEN Resized(put, at + Len(bytes)) ELSE put]
    <3>1. h \in DOMAIN old
      BY <1>3, <1>13
    <3>2. CASE next = 0
      BY <1>5, <1>13, <2>4, <3>1, <3>2
    <3>3. CASE next # 0
      BY <1>5, <1>13, <2>4, <3>1, <3>3
    <3> QED BY <3>2, <3>3
  <2>7. SameFiles(old, r.io.files, h)
    BY <1>6, <2>6
  <2>8. Frame(d, r, s, h)
    BY <2>3, <2>4, <2>5, <2>7 DEF Frame, old
  <2> QED BY <2>2, <2>4, <2>5, <2>6, <2>8 DEF f, h, r, w, put, old, at, c, DataPut
<1> QED BY <1>2, <1>3, <1>5, <1>10, <1>11, <1>12, <1>13

(* A read changes no file. *)
LEMMA Reading ==
    ASSUME NEW d \in Images, HandleInv(d.io), NEW x,
           \A e \in 1 .. Slots : InUse(d.stitched[e].flags) => d.stitched[e].host \in Paths
    PROVE  LET r == Read(d, x)
           IN  /\ r \in Images /\ HandleInv(r.io) /\ r.io.files = d.io.files
               /\ r.vtoc = d.vtoc /\ r.dirents = d.dirents /\ r.stitched = d.stitched
<1> DEFINE F == FilesWith(d, x)
           h == d.stitched[Min(F)].host
           s == OpenAt(d.io, h, "read", FALSE)
           r == Read(d, x)
<1>1. CASE F = {}
  BY <1>1 DEF Read
<1>2. CASE F # {}
  <2>1. F \subseteq 1 .. Slots /\ \A e \in F : InUse(d.stitched[e].flags)
    BY DEF FilesWith
  <2>2. Min(F) \in F
    <3>1. F \subseteq Nat
      BY <2>1, Sizes
    <3> HIDE DEF F
    <3> QED BY <1>2, <3>1, MinIs
  <2>3. h \in Paths
    BY <2>1, <2>2
  <2>4. r = IF s.ok THEN [d EXCEPT !.io = CloseFile(s)] ELSE [d EXCEPT !.io = s, !.error = TRUE]
    BY <1>2, Zenon DEF Read, Fail
  <2> HIDE DEF F, h, r
  <2>5. HandleInv(s) /\ s.ok \in BOOLEAN /\ s.files = d.io.files
    <3>1. "read" \in Modes
      BY DosAssumption
    <3> QED BY <2>3, <3>1, Opens
  <2> HIDE DEF s
  <2>6. HandleInv(CloseFile(s)) /\ CloseFile(s).files = s.files /\ s \in Storages /\ CloseFile(s) \in Storages
    BY <2>5, CloseKeeps DEF HandleInv
  <2>7. CASE s.ok
    <3>1. /\ r \in Images /\ r.io = CloseFile(s)
          /\ r.vtoc = d.vtoc /\ r.dirents = d.dirents /\ r.stitched = d.stitched
      BY <2>4, <2>6, <2>7 DEF Images
    <3> QED BY <2>5, <2>6, <3>1 DEF r
  <2>8. CASE ~s.ok
    <3>1. /\ r \in Images /\ r.io = s
          /\ r.vtoc = d.vtoc /\ r.dirents = d.dirents /\ r.stitched = d.stitched
      BY <2>4, <2>6, <2>8 DEF Images
    <3> QED BY <2>5, <3>1 DEF r
  <2> QED BY <2>7, <2>8
<1> QED BY <1>1, <1>2

-----------------------------------------------------------------------------
(* What the invariant says of a disk. *)

(* Equal but for the handles of the storage. *)
Same(d, r) ==
    /\ r.io.files = d.io.files /\ r.vtoc = d.vtoc /\ r.dirents = d.dirents /\ r.stitched = d.stitched

(* The invariant is about files, not about handles. *)
LEMMA SameDisk ==
    ASSUME NEW d, NEW r, Same(d, r), NEW cat, NEW j
    PROVE  /\ DiskInv(d, cat, j) => DiskInv(r, cat, j)
           /\ \A st : /\ HostsInv(d, cat, j, st) => HostsInv(r, cat, j, st)
                      /\ Gone(d, j, st) => Gone(r, j, st)
<1>1. /\ \A n, f : Stored(d, n, f) => Stored(r, n, f)
      /\ \A e : Empty(d, e) => Empty(r, e)
  BY DEF Same, Stored, Empty
<1>2. Progress(d, cat, j) => Progress(r, cat, j)
  <2>1. AtEntry(d, cat, j) => AtEntry(r, cat, j)
    BY <1>1 DEF AtEntry, Same
  <2>2. AtData(d, cat, j) => AtData(r, cat, j)
    <3> DEFINE f == j.file
               c == d.stitched[f.slot]
               At(g) == \A x \in 1 .. Len(f.bytes) :
                           x <= (j.k - 1) * DataSize \/ x > j.k * DataSize => g[x] = f.bytes[x]
               Is(files, entries, chain) ==
                   /\ j.kind \in Outputs \cup {"update"}
                   /\ chain.host = f.host /\ Following(chain.sectors, cat, j)
                   /\ f.host \in DOMAIN files
                   /\ Begun(files[f.host], f.bytes, (j.k - 1) * DataSize)
                   /\ IF j.kind = "update"
                      THEN /\ chain.flags = "closed" /\ chain.sectors = f.sectors
                           /\ entries[f.slot] = EntryOf("closed", f.sectors, Len(f.sectors), j.name)
                           /\ Len(files[f.host]) = Len(f.bytes) /\ At(files[f.host])
                      ELSE chain.flags = "open" /\ entries[f.slot] = j.entry
    <3>1. r.io.files = d.io.files /\ r.dirents = d.dirents /\ r.stitched = d.stitched
      BY DEF Same
    <3>2. \A v : AtData(v, cat, j) <=> Is(v.io.files, v.dirents, v.stitched[f.slot])
      BY ONLY TRUE, Zenon DEF AtData
    <3> HIDE DEF Is
    <3> QED BY ONLY <3>1, <3>2
  <2>3. Ended(d, j) => Ended(r, j)
    BY DEF Ended, Same
  <2> QED BY <2>1, <2>2, <2>3 DEF Progress
<1>3. DiskInv(d, cat, j) => DiskInv(r, cat, j)
  BY <1>1, <1>2 DEF DiskInv, Same
<1>4. \A st : HostsInv(d, cat, j, st) => HostsInv(r, cat, j, st)
  BY DEF HostsInv, Same
<1>5. \A st : Gone(d, j, st) => Gone(r, j, st)
  BY DEF Gone, Same
<1> QED BY <1>3, <1>4, <1>5

LEMMA NoJobIs ==
    /\ NoJob.phase = "none" /\ NoJob.name = NoName /\ NoJob.file.slot = 0
    /\ \A j : j.phase \in {"entry", "data", "vtoc", "close"} => j # NoJob
BY DEF NoJob

(* The parts of a well made file. *)
LEMMA FileIs ==
    ASSUME NEW f, WellMade(f)
    PROVE  /\ f.slot \in 1 .. Slots /\ f.host \in Paths /\ f.bytes \in Seq(Int) /\ Len(f.bytes) \in Nat
           /\ f.sectors \in Seq(DataSectors) /\ Distinct(f.sectors) /\ DOMAIN f.sectors = 1 .. Len(f.sectors)
           /\ Len(f.sectors) \in Nat \ {0} /\ Len(f.sectors) = SectorsFor(Len(f.bytes))
           /\ f.sectors[1] \in DataSectors
           /\ \A k \in 1 .. Len(f.sectors) : f.sectors[k] \in DataSectors /\ f.sectors[k] \in Nat /\ f.sectors[k] # 0
<1>1. /\ f.slot \in 1 .. Slots /\ f.host \in Paths /\ f.bytes \in Seq(Int)
      /\ f.sectors \in Seq(DataSectors) /\ Distinct(f.sectors) /\ Len(f.sectors) = SectorsFor(Len(f.bytes))
  BY DEF WellMade, Files
<1>2. Len(f.bytes) \in Nat
  BY <1>1
<1>3. Len(f.sectors) \in Nat \ {0}
  BY <1>1, <1>2, SectorsForIs
<1>4. DOMAIN f.sectors = 1 .. Len(f.sectors) /\ \A k \in 1 .. Len(f.sectors) : f.sectors[k] \in DataSectors
  BY <1>1
<1>5. 1 \in 1 .. Len(f.sectors)
  BY <1>3
<1> QED BY <1>1, <1>2, <1>3, <1>4, <1>5, Sizes

(* The slots besides that of the operation. *)
LEMMA OtherSlots ==
    ASSUME NEW d, NEW cat, NEW j, DiskInv(d, cat, j), NEW e \in 1 .. Slots, e # j.file.slot
    PROVE  \/ Empty(d, e) /\ \A n \in DOMAIN cat : cat[n].slot # e
           \/ \E n \in DOMAIN cat \ {j.name} : cat[n].slot = e /\ Stored(d, n, cat[n])
<1>1. CASE \A n \in DOMAIN cat : cat[n].slot # e
  BY <1>1 DEF DiskInv
<1>2. CASE ~ \A n \in DOMAIN cat : cat[n].slot # e
  <2>1. PICK n \in DOMAIN cat : cat[n].slot = e
    BY <1>2
  <2>2. n # j.name
    <3>1. j # NoJob => Operation(cat, j)
      BY DEF DiskInv
    <3>2. ASSUME j # NoJob, n = j.name PROVE FALSE
      BY <2>1, <3>1, <3>2 DEF Operation
    <3>3. ASSUME j = NoJob, n = j.name PROVE FALSE
      BY <3>3, NoJobIs DEF DiskInv, Catalogue
    <3> QED BY <3>2, <3>3
  <2> QED BY <2>1, <2>2 DEF DiskInv
<1> QED BY <1>1, <1>2

LEMMA StoredQuiet ==
    ASSUME NEW d, NEW n, NEW f, WellMade(f), Stored(d, n, f)
    PROVE  /\ Quiet(d, f.slot) /\ InUse(d.stitched[f.slot].flags)
           /\ d.stitched[f.slot].host = f.host /\ d.stitched[f.slot].sectors = f.sectors
<1> DEFINE e == f.slot
<1>1. Len(f.sectors) \in Nat \ {0} /\ f.sectors \in Seq(DataSectors)
  BY FileIs
<1>2. /\ d.dirents[e].flags = "closed" /\ d.dirents[e].count = Len(f.sectors) /\ d.dirents[e].start = f.sectors[1]
      /\ d.stitched[e].flags = "closed" /\ d.stitched[e].sectors = f.sectors /\ d.stitched[e].host = f.host
  BY DEF Stored, EntryOf
<1>3. f.sectors # <<>> /\ ~(Len(f.sectors) < Len(f.sectors))
  BY <1>1
<1>4. ~Moved(d.stitched[e], d.dirents[e])
  BY <1>2, <1>3 DEF Moved
<1>5. InUse(d.stitched[e].flags)
  BY <1>2 DEF InUse
<1>6. ~(d.dirents[e].count < Len(d.stitched[e].sectors))
  BY <1>2, <1>3
<1> QED BY <1>2, <1>4, <1>5, <1>6 DEF Quiet

(* In the slots of other files the directory says what the image has. *)
LEMMA OthersQuiet ==
    ASSUME NEW d, NEW cat, NEW j, DiskInv(d, cat, j)
    PROVE  \A e \in 1 .. Slots \ {j.file.slot} : Quiet(d, e)
<1> TAKE e \in 1 .. Slots \ {j.file.slot}
<1>1. CASE Empty(d, e)
  BY <1>1 DEF Empty, Quiet
<1>2. CASE \E n \in DOMAIN cat \ {j.name} : cat[n].slot = e /\ Stored(d, n, cat[n])
  <2>1. PICK n \in DOMAIN cat \ {j.name} : cat[n].slot = e /\ Stored(d, n, cat[n])
    BY <1>2
  <2>2. WellMade(cat[n])
    BY DEF DiskInv, Catalogue
  <2> QED BY <2>1, <2>2, StoredQuiet
<1> QED BY <1>1, <1>2, OtherSlots

-----------------------------------------------------------------------------
(* An operation of the guest keeps the rest. *)

(* A write framed to one slot and one host file keeps every other file as   *)
(* it was.                                                                  *)
LEMMA OthersKeep ==
    ASSUME NEW d, HandleInv(d.io), NEW cat, NEW j, DiskInv(d, cat, j), j # NoJob,
           NEW r, Frame(d, r, j.file.slot, j.file.host)
    PROVE  /\ \A n \in DOMAIN cat \ {j.name} : Stored(r, n, cat[n])
           /\ \A e \in 1 .. Slots : (\A n \in DOMAIN cat : cat[n].slot # e) /\ e # j.file.slot => Empty(r, e)
           /\ \A st : HostsInv(d, cat, j, st) => HostsInv(r, cat, j, st)
<1> DEFINE f == j.file
<1>1. Catalogue(cat) /\ Operation(cat, j)
  BY DEF DiskInv
<1>2. /\ \A e \in 1 .. Slots \ {f.slot} : r.dirents[e] = d.dirents[e] /\ r.stitched[e] = d.stitched[e]
      /\ SameFiles(d.io.files, r.io.files, f.host)
  BY DEF Frame
<1>3. ASSUME NEW n \in DOMAIN cat \ {j.name} PROVE Stored(r, n, cat[n])
  <2>1. Stored(d, n, cat[n]) /\ WellMade(cat[n])
    BY <1>1 DEF DiskInv, Catalogue
  <2>2. cat[n].slot \in 1 .. Slots \ {f.slot} /\ cat[n].host \in Paths \ {f.host}
    BY <1>1, <2>1, FileIs DEF Operation, Apart
  <2>3. cat[n].host \in DOMAIN r.io.files /\ r.io.files[cat[n].host] = d.io.files[cat[n].host]
    BY <1>2, <2>1, <2>2 DEF SameFiles, Stored
  <2> QED BY <1>2, <2>1, <2>2, <2>3 DEF Stored
<1>4. \A e \in 1 .. Slots : (\A n \in DOMAIN cat : cat[n].slot # e) /\ e # f.slot => Empty(r, e)
  BY <1>2 DEF DiskInv, Empty
<1>5. \A st : HostsInv(d, cat, j, st) => HostsInv(r, cat, j, st)
  <2> SUFFICES ASSUME NEW st, HostsInv(d, cat, j, st) PROVE HostsInv(r, cat, j, st)
    OBVIOUS
  <2>1. DOMAIN d.io.files \subseteq Paths
    BY FilesAre
  <2>2. DOMAIN r.io.files \subseteq Paths
    BY FilesAre DEF Frame
  <2>3. DOMAIN r.io.files \ {f.host} = DOMAIN d.io.files \ {f.host}
    BY <1>2, <2>1, <2>2 DEF SameFiles
  <2> QED BY <2>3 DEF HostsInv
<1> QED BY <1>3, <1>4, <1>5

(* An operation that goes on. *)
GoesOn(j, i) == i.name = j.name /\ i.kind = j.kind /\ i.as = j.as /\ i.file = j.file

(* Such a write takes the operation to its next phase, if that phase's      *)
(* progress holds.                                                          *)
LEMMA OnwardInv ==
    ASSUME NEW d, HandleInv(d.io), NEW cat, NEW j, DiskInv(d, cat, j), j # NoJob,
           NEW r, Frame(d, r, j.file.slot, j.file.host),
           NEW i, i # NoJob, GoesOn(j, i), Operation(cat, i), Progress(r, cat, i),
           r.vtoc = DataSectors \ TakenBy(IF i.phase = "close" THEN Done(cat, j) ELSE cat)
    PROVE  /\ DiskInv(r, cat, i)
           /\ \A st : HostsInv(d, cat, j, st) => HostsInv(r, cat, i, st)
<1>1. /\ \A n \in DOMAIN cat \ {j.name} : Stored(r, n, cat[n])
      /\ \A e \in 1 .. Slots : (\A n \in DOMAIN cat : cat[n].slot # e) /\ e # j.file.slot => Empty(r, e)
      /\ \A st : HostsInv(d, cat, j, st) => HostsInv(r, cat, j, st)
  BY OthersKeep, Zenon
<1>2. Done(cat, i) = Done(cat, j)
  BY DEF Done, GoesOn
<1>3. DiskInv(r, cat, i)
  <2>1. Catalogue(cat)
    BY DEF DiskInv
  <2>2. /\ \A n \in DOMAIN cat \ {i.name} : Stored(r, n, cat[n])
        /\ \A e \in 1 .. Slots : (\A n \in DOMAIN cat : cat[n].slot # e) /\ e # i.file.slot => Empty(r, e)
    BY <1>1 DEF GoesOn
  <2>3. r.vtoc = DataSectors \ TakenBy(IF i.phase = "close" THEN Done(cat, i) ELSE cat)
    BY <1>2
  <2> QED BY <2>1, <2>2, <2>3 DEF DiskInv
<1>4. \A st : HostsInv(r, cat, j, st) => HostsInv(r, cat, i, st)
  BY DEF HostsInv, GoesOn
<1> QED BY <1>1, <1>3, <1>4

(* The files when an operation is done. *)
LEMMA DoneIs ==
    ASSUME NEW cat, NEW j, Catalogue(cat), Operation(cat, j)
    PROVE  LET done == Done(cat, j)
               rest == DOMAIN cat \ {j.name}
           IN  /\ Catalogue(done)
               /\ \A n \in rest : n # j.as /\ n \in DOMAIN done /\ done[n] = cat[n]
               /\ IF j.kind = "erase" THEN DOMAIN done = rest
                  ELSE DOMAIN done = rest \cup {j.as} /\ done[j.as] = j.file
               /\ TakenBy(done) = (UNION {Range(cat[n].sectors) : n \in rest})
                                  \cup (IF j.kind = "erase" THEN {} ELSE Range(j.file.sectors))
               /\ TakenBy(cat) = (UNION {Range(cat[n].sectors) : n \in rest})
                                 \cup (IF j.name \in DOMAIN cat THEN Range(cat[j.name].sectors) ELSE {})
<1> DEFINE done == Done(cat, j)
           rest == DOMAIN cat \ {j.name}
           drop == Drop(cat, j.name)
           T    == UNION {Range(cat[n].sectors) : n \in rest}
           mine == Range(j.file.sectors)
<1>1. DOMAIN drop = rest /\ (\A n \in rest : drop[n] = cat[n]) /\ drop = [n \in rest |-> cat[n]]
  BY DEF Drop
<1>2. \A n \in rest : n # j.as
  BY DEF Operation
<1>3. DOMAIN cat \subseteq DosNames \ {NoName} /\ (\A n \in DOMAIN cat : WellMade(cat[n]))
      /\ \A n, m \in DOMAIN cat : n # m => Apart(cat[n], cat[m])
  BY DEF Catalogue
<1>4. WellMade(j.file) /\ j.as \in DosNames \ {NoName} /\ \A n \in rest : Apart(j.file, cat[n])
  BY DEF Operation, Jobs
<1>5. TakenBy(cat) = T \cup (IF j.name \in DOMAIN cat THEN Range(cat[j.name].sectors) ELSE {})
  BY DEF TakenBy
<1> HIDE DEF drop
<1>6. CASE j.kind = "erase"
  <2>1. done = drop
    BY <1>6 DEF Done, drop
  <2>2. Catalogue(drop)
    <3>1. drop = [n \in DOMAIN drop |-> drop[n]] /\ DOMAIN drop \subseteq DosNames \ {NoName}
      BY <1>1, <1>3
    <3>2. \A n \in DOMAIN drop : WellMade(drop[n])
      BY <1>1, <1>3
    <3>3. \A n, m \in DOMAIN drop : n # m => Apart(drop[n], drop[m])
      BY <1>1, <1>3
    <3> QED BY <3>1, <3>2, <3>3 DEF Catalogue
  <2>3. TakenBy(drop) = T
    BY <1>1 DEF TakenBy
  <2>4. TakenBy(done) = T \cup {} /\ Catalogue(done) /\ DOMAIN done = rest /\ \A n \in rest : done[n] = cat[n]
    <3> HIDE DEF done, T, rest
    <3> QED BY <1>1, <2>1, <2>2, <2>3
  <2>5. TakenBy(done) = T \cup (IF j.kind = "erase" THEN {} ELSE mine)
    <3> HIDE DEF done, T, mine
    <3> QED BY <1>6, <2>4
  <2>6. IF j.kind = "erase" THEN DOMAIN done = rest
        ELSE DOMAIN done = rest \cup {j.as} /\ done[j.as] = j.file
    <3> HIDE DEF done, rest
    <3> QED BY <1>6, <2>4
  <2>7. \A n \in rest : n # j.as /\ n \in DOMAIN done /\ done[n] = cat[n]
    <3> HIDE DEF done, rest
    <3> QED BY <1>2, <2>4
  <2> QED BY <1>5, <2>4, <2>5, <2>6, <2>7, Zenon
<1>7. CASE j.kind # "erase"
  <2>1. done = [y \in rest \cup {j.as} |-> IF y = j.as THEN j.file ELSE drop[y]]
    <3>1. done = Put(drop, j.as, j.file)
      BY <1>7 DEF Done, drop
    <3> HIDE DEF done
    <3> QED BY <1>1, <3>1, Zenon DEF Put
  <2> HIDE DEF done
  <2>2. /\ DOMAIN done = rest \cup {j.as} /\ done[j.as] = j.file
        /\ \A n \in rest : done[n] = cat[n]
    <3> HIDE DEF rest
    <3>1. \A n \in rest : n # j.as /\ drop[n] = cat[n]
      BY <1>1, <1>2
    <3> QED BY <2>1, <3>1
  <2>3. Catalogue(done)
    <3>1. done = [n \in DOMAIN done |-> done[n]] /\ DOMAIN done \subseteq DosNames \ {NoName}
      BY <1>3, <1>4, <2>1, <2>2
    <3>2. \A n \in DOMAIN done : WellMade(done[n])
      BY <1>3, <1>4, <2>2
    <3>3. ASSUME NEW n \in DOMAIN done, NEW m \in DOMAIN done, n # m PROVE Apart(done[n], done[m])
      <4>1. CASE n = j.as
        BY <1>4, <2>2, <3>3, <4>1
      <4>2. CASE m = j.as
        <5>1. n \in rest /\ Apart(j.file, cat[n])
          BY <1>4, <2>2, <3>3, <4>2
        <5> QED BY <2>2, <4>2, <5>1 DEF Apart
      <4>3. CASE n # j.as /\ m # j.as
        BY <1>3, <2>2, <3>3, <4>3
      <4> QED BY <4>1, <4>2, <4>3
    <3> QED BY <3>1, <3>2, <3>3 DEF Catalogue
  <2>4. TakenBy(done) = T \cup Range(j.file.sectors)
    <3> HIDE DEF rest
    <3> QED BY <2>2 DEF TakenBy, rest
  <2>5. TakenBy(done) = T \cup (IF j.kind = "erase" THEN {} ELSE mine)
    <3> HIDE DEF T
    <3> QED BY <1>7, <2>4
  <2>6. IF j.kind = "erase" THEN DOMAIN done = rest
        ELSE DOMAIN done = rest \cup {j.as} /\ done[j.as] = j.file
    <3> HIDE DEF rest
    <3> QED BY <1>7, <2>2
  <2>7. \A n \in rest : n # j.as /\ n \in DOMAIN done /\ done[n] = cat[n]
    <3> HIDE DEF rest
    <3> QED BY <1>2, <2>2
  <2> USE DEF done
  <2> QED BY <1>5, <2>3, <2>5, <2>6, <2>7, Zenon
<1> QED BY <1>6, <1>7

(* The sectors that files use before operation j and after it. *)
TakenBefore(cat, j) ==
    TakenBy(cat) = (UNION {Range(cat[n].sectors) : n \in DOMAIN cat \ {j.name}})
                   \cup (IF j.name \in DOMAIN cat THEN Range(cat[j.name].sectors) ELSE {})

TakenAfter(cat, j) ==
    TakenBy(Done(cat, j)) = (UNION {Range(cat[n].sectors) : n \in DOMAIN cat \ {j.name}})
                            \cup (IF j.kind = "erase" THEN {} ELSE Range(j.file.sectors))

(* The sectors in use, as DoneIs tells them. *)
LEMMA TakenIs ==
    ASSUME NEW cat, NEW j, Catalogue(cat), Operation(cat, j)
    PROVE  TakenBefore(cat, j) /\ TakenAfter(cat, j)
<1> DEFINE done == Done(cat, j)
           rest == DOMAIN cat \ {j.name}
<1>1. /\ Catalogue(done)
      /\ \A n \in rest : n # j.as /\ n \in DOMAIN done /\ done[n] = cat[n]
      /\ IF j.kind = "erase" THEN DOMAIN done = rest
         ELSE DOMAIN done = rest \cup {j.as} /\ done[j.as] = j.file
      /\ TakenBy(done) = (UNION {Range(cat[n].sectors) : n \in rest})
                         \cup (IF j.kind = "erase" THEN {} ELSE Range(j.file.sectors))
      /\ TakenBy(cat) = (UNION {Range(cat[n].sectors) : n \in rest})
                        \cup (IF j.name \in DOMAIN cat THEN Range(cat[j.name].sectors) ELSE {})
  BY ONLY Catalogue(cat), Operation(cat, j), DoneIs
<1> QED BY ONLY <1>1 DEF TakenBefore, TakenAfter

(* The sectors free after an operation, from those free before it. *)
LEMMA FreedIs ==
    ASSUME NEW cat, NEW j, Catalogue(cat), Operation(cat, j)
    PROVE  LET old  == IF j.name \in DOMAIN cat THEN Range(cat[j.name].sectors) ELSE {}
               mine == IF j.kind = "erase" THEN {} ELSE Range(j.file.sectors)
           IN  /\ ((DataSectors \ TakenBy(cat)) \cup old) \ mine = DataSectors \ TakenBy(Done(cat, j))
               /\ old = mine => TakenBy(Done(cat, j)) = TakenBy(cat)
<1> DEFINE old  == IF j.name \in DOMAIN cat THEN Range(cat[j.name].sectors) ELSE {}
           mine == IF j.kind = "erase" THEN {} ELSE Range(j.file.sectors)
           T    == UNION {Range(cat[n].sectors) : n \in DOMAIN cat \ {j.name}}
<1>1. TakenBy(Done(cat, j)) = T \cup mine /\ TakenBy(cat) = T \cup old
  <2>1. TakenBefore(cat, j) /\ TakenAfter(cat, j)
    BY ONLY Catalogue(cat), Operation(cat, j), TakenIs
  <2> QED BY ONLY <2>1, Zenon DEF TakenBefore, TakenAfter
<1>2. old \subseteq DataSectors /\ T \cap old = {}
  <2>1. CASE j.name \notin DOMAIN cat
    BY <2>1
  <2>2. CASE j.name \in DOMAIN cat
    <3>1. WellMade(cat[j.name]) /\ \A n \in DOMAIN cat \ {j.name} : Apart(cat[n], cat[j.name])
      BY <2>2 DEF Catalogue
    <3>2. Range(cat[j.name].sectors) \subseteq DataSectors
      BY <3>1, FileIs DEF Range
    <3>3. \A n \in DOMAIN cat \ {j.name} : Range(cat[n].sectors) \cap Range(cat[j.name].sectors) = {}
      BY <3>1 DEF Apart
    <3> QED BY <2>2, <3>2, <3>3
  <2> QED BY <2>1, <2>2
<1> HIDE DEF T, old, mine
<1> QED BY <1>1, <1>2 DEF old, mine

(* A write after which the file is at rest ends the operation. *)
LEMMA FinishInv ==
    ASSUME NEW d, HandleInv(d.io), NEW cat, NEW j, DiskInv(d, cat, j), j # NoJob,
           NEW r, Frame(d, r, j.file.slot, j.file.host),
           IF j.kind = "erase" THEN Empty(r, j.file.slot) /\ j.phase = "vtoc" ELSE Stored(r, j.as, j.file),
           r.vtoc = DataSectors \ TakenBy(Done(cat, j))
    PROVE  /\ DiskInv(r, Done(cat, j), NoJob)
           /\ \A st : HostsInv(d, cat, j, st) /\ Gone(r, j, st) => HostsInv(r, Done(cat, j), NoJob, st)
<1> DEFINE done == Done(cat, j)
           rest == DOMAIN cat \ {j.name}
           s    == j.file.slot
           h    == j.file.host
<1>1. Catalogue(cat) /\ Operation(cat, j)
  BY DEF DiskInv
<1>2. /\ \A n \in rest : Stored(r, n, cat[n])
      /\ \A e \in 1 .. Slots : (\A n \in DOMAIN cat : cat[n].slot # e) /\ e # s => Empty(r, e)
      /\ \A st : HostsInv(d, cat, j, st) => HostsInv(r, cat, j, st)
  BY OthersKeep, Zenon
<1>3. /\ Catalogue(done)
      /\ \A n \in rest : n # j.as /\ n \in DOMAIN done /\ done[n] = cat[n]
      /\ IF j.kind = "erase" THEN DOMAIN done = rest
         ELSE DOMAIN done = rest \cup {j.as} /\ done[j.as] = j.file
  BY <1>1, DoneIs, Zenon
<1>4. j.name \in DOMAIN cat => cat[j.name].slot = s /\ cat[j.name].host = h
  BY <1>1 DEF Operation
<1>5. IF j.kind = "erase" THEN Empty(r, s) /\ j.phase = "vtoc" ELSE Stored(r, j.as, j.file)
  OBVIOUS
<1> HIDE DEF done
<1>6. \A n \in DOMAIN done : Stored(r, n, done[n])
  <2> HIDE DEF rest
  <2>1. CASE j.kind = "erase"
    BY <1>2, <1>3, <2>1
  <2>2. CASE j.kind # "erase"
    BY <1>2, <1>3, <1>5, <2>2
  <2> QED BY <2>1, <2>2
<1>7. ASSUME NEW e \in 1 .. Slots, \A n \in DOMAIN done : done[n].slot # e PROVE Empty(r, e)
  <2>1. CASE e = s
    <3>1. j.kind = "erase"
      BY <1>3, <1>7, <2>1
    <3> QED BY <1>5, <2>1, <3>1
  <2>2. CASE e # s
    <3>1. ASSUME NEW n \in DOMAIN cat PROVE cat[n].slot # e
      <4>1. CASE n = j.name
        BY <1>4, <2>2, <4>1
      <4>2. CASE n # j.name
        BY <1>3, <1>7, <4>2
      <4> QED BY <4>1, <4>2
    <3> QED BY <1>2, <2>2, <3>1
  <2> QED BY <2>1, <2>2
<1>8. DiskInv(r, done, NoJob)
  <2>1. r.vtoc = DataSectors \ TakenBy(IF NoJob.phase = "close" THEN Done(done, NoJob) ELSE done)
    BY NoJobIs DEF done
  <2> QED BY <1>3, <1>6, <1>7, <2>1 DEF DiskInv
<1>9. ASSUME NEW st, HostsInv(d, cat, j, st), Gone(r, j, st) PROVE HostsInv(r, done, NoJob, st)
  <2>1. HostsInv(r, cat, j, st)
    BY <1>2, <1>9
  <2>2. /\ LeftOut \cap HostsOf(cat) = {} /\ h \notin LeftOut
        /\ DOMAIN r.io.files \ {h} = (HostsOf(cat) \ {h}) \cup LeftOut \cup (st \ {h})
    BY <2>1 DEF HostsInv
  <2>3. \A n \in rest : cat[n].host # h
    BY <1>1 DEF Operation, Apart
  <2>4. HostsOf(cat) \ {h} = {cat[n].host : n \in rest}
    BY <1>4, <2>3 DEF HostsOf
  <2>5. HostsOf(done) = IF j.kind = "erase" THEN HostsOf(cat) \ {h} ELSE (HostsOf(cat) \ {h}) \cup {h}
    <3>1. CASE j.kind = "erase"
      <4>1. DOMAIN done = rest /\ \A n \in rest : done[n].host = cat[n].host
        <5> HIDE DEF rest, done
        <5> QED BY <1>3, <3>1
      <4>2. HostsOf(done) = {cat[n].host : n \in rest}
        <5> HIDE DEF rest, done
        <5> QED BY <4>1 DEF HostsOf
      <4> HIDE DEF done, h, rest
      <4> QED BY <2>4, <3>1, <4>2, Zenon
    <3>2. CASE j.kind # "erase"
      <4>1. /\ DOMAIN done = rest \cup {j.as} /\ done[j.as].host = h
            /\ \A n \in rest : done[n].host = cat[n].host
        <5> HIDE DEF rest
        <5> QED BY <1>3, <3>2
      <4> HIDE DEF rest, h
      <4> QED BY <2>4, <3>2, <4>1 DEF HostsOf
    <3> HIDE DEF done, h
    <3> QED BY <3>1, <3>2
  <2>6. IF j.kind = "erase" THEN h \in DOMAIN r.io.files <=> h \in st ELSE h \in DOMAIN r.io.files
    BY <1>5, <1>9 DEF Stored, Gone
  <2> HIDE DEF h
  <2>7. DOMAIN r.io.files = HostsOf(done) \cup LeftOut \cup st
    BY <2>2, <2>5, <2>6
  <2>8. LeftOut \cap HostsOf(done) = {}
    BY <2>2, <2>5
  <2> QED BY <2>7, <2>8 DEF HostsInv
<1> QED BY <1>8, <1>9 DEF done

(* An operation begins between two others, with the file as the catalogue   *)
(* has it.                                                                  *)
LEMMA BeginInv ==
    ASSUME NEW d, NEW cat, DiskInv(d, cat, NoJob),
           NEW j, j # NoJob, j.phase # "close", Operation(cat, j), Progress(d, cat, j)
    PROVE  /\ DiskInv(d, cat, j)
           /\ \A st : HostsInv(d, cat, NoJob, st) /\ j.file.host \notin LeftOut => HostsInv(d, cat, j, st)
<1>1. NoName \notin DOMAIN cat
  BY DEF DiskInv, Catalogue
<1>2. \A n \in DOMAIN cat : Stored(d, n, cat[n])
  BY <1>1, NoJobIs DEF DiskInv
<1>3. \A e \in 1 .. Slots : (\A n \in DOMAIN cat : cat[n].slot # e) => Empty(d, e)
  BY NoJobIs DEF DiskInv
<1>4. d.vtoc = DataSectors \ TakenBy(cat)
  BY NoJobIs DEF DiskInv
<1>5. DiskInv(d, cat, j)
  BY <1>2, <1>3, <1>4 DEF DiskInv
<1>6. \A st : HostsInv(d, cat, NoJob, st) /\ j.file.host \notin LeftOut => HostsInv(d, cat, j, st)
  <2> DEFINE h == j.file.host
  <2> HIDE DEF h
  <2> SUFFICES ASSUME NEW st, HostsInv(d, cat, NoJob, st), h \notin LeftOut PROVE HostsInv(d, cat, j, st)
    BY DEF h
  <2>1. LeftOut \cap HostsOf(cat) = {} /\ DOMAIN d.io.files = HostsOf(cat) \cup LeftOut \cup st
    BY DEF HostsInv
  <2>2. DOMAIN d.io.files \ {h} = (HostsOf(cat) \ {h}) \cup LeftOut \cup (st \ {h})
    BY <2>1
  <2> QED BY <2>1, <2>2 DEF HostsInv, h
<1> QED BY <1>5, <1>6

-----------------------------------------------------------------------------
(* The guest's writes. *)

(* Operation j has gone on to phase p, as i. *)
Advanced(cat, j, p, i) ==
    /\ Operation(cat, i) /\ GoesOn(j, i) /\ i # NoJob
    /\ i.phase = p /\ i.k = j.k /\ i.entry = j.entry

(* An operation goes on to another phase, or to its next sector. *)
LEMMA PhaseIs ==
    ASSUME NEW cat, NEW j, Operation(cat, j), NEW p \in {"entry", "data", "vtoc", "close"}
    PROVE  Advanced(cat, j, p, [j EXCEPT !.phase = p])
<1> DEFINE i == [j EXCEPT !.phase = p]
<1>1. j \in Jobs
  BY DEF Operation
<1>2. /\ i \in Jobs /\ i.phase = p /\ i.k = j.k /\ i.entry = j.entry
      /\ i.name = j.name /\ i.kind = j.kind /\ i.as = j.as /\ i.file = j.file
  BY <1>1 DEF Jobs
<1> HIDE DEF i
<1>3. Operation(cat, i)
  BY <1>2 DEF Operation
<1>4. i # NoJob
  BY <1>2, NoJobIs
<1> QED BY <1>2, <1>3, <1>4 DEF GoesOn, Advanced, i

LEMMA NextSectorIs ==
    ASSUME NEW cat, NEW j, Operation(cat, j), j # NoJob, j.phase = "data"
    PROVE  LET i == [j EXCEPT !.k = @ + 1]
           IN  /\ Operation(cat, i) /\ GoesOn(j, i) /\ i # NoJob
               /\ i.phase = j.phase /\ i.k = j.k + 1 /\ i.entry = j.entry
<1> DEFINE i == [j EXCEPT !.k = @ + 1]
<1>1. j \in Jobs
  BY DEF Operation
<1>2. /\ i \in Jobs /\ i.phase = j.phase /\ i.k = j.k + 1 /\ i.entry = j.entry
      /\ i.name = j.name /\ i.kind = j.kind /\ i.as = j.as /\ i.file = j.file
  BY <1>1 DEF Jobs
<1> HIDE DEF i
<1>3. Operation(cat, i)
  BY <1>2 DEF Operation
<1>4. i # NoJob
  BY <1>2, NoJobIs
<1> QED BY <1>2, <1>3, <1>4 DEF GoesOn, i

(* The disk d with the job j becomes the disk r with the job i. *)
Leads(d, cat, j, r, done, i) ==
    /\ DiskInv(r, done, i)
    /\ \A st : HostsInv(d, cat, j, st) /\ Gone(r, j, st) => HostsInv(r, done, i, st)

(* The first sectors of a chain. *)
LEMMA Firsts ==
    ASSUME NEW s \in Seq(DataSectors), NEW n \in 0 .. Len(s)
    PROVE  /\ SubSeq(s, 1, n) \in Seq(DataSectors) /\ Len(SubSeq(s, 1, n)) = n
           /\ \A k \in 1 .. n : SubSeq(s, 1, n)[k] = s[k]
           /\ SubSeq(s, 1, Len(s)) = s
<1>1. n \in Nat /\ n <= Len(s) /\ \A k \in 1 .. n : s[k] \in DataSectors
  OBVIOUS
<1>2. SubSeq(s, 1, n) = [k \in 1 .. n |-> s[k]]
  BY <1>1
<1>3. SubSeq(s, 1, Len(s)) = s
  OBVIOUS
<1> QED BY <1>1, <1>2, <1>3

LEMMA SameFirst ==
    ASSUME NEW s \in Seq(DataSectors), NEW t \in Seq(DataSectors), Len(s) > 0, Len(t) > 0, s[1] = t[1]
    PROVE  SubSeq(s, 1, 1) = <<t[1]>> /\ SubSeq(t, 1, 1) = <<t[1]>>
<1>1. ASSUME NEW u \in Seq(DataSectors), Len(u) > 0 PROVE SubSeq(u, 1, 1) = <<u[1]>>
  <2>1. 1 \in 0 .. Len(u)
    BY <1>1
  <2>2. SubSeq(u, 1, 1) \in Seq(DataSectors) /\ Len(SubSeq(u, 1, 1)) = 1 /\ SubSeq(u, 1, 1)[1] = u[1]
    BY <2>1, Firsts
  <2>3. \A v \in Seq(DataSectors) : Len(v) = 1 => v = <<v[1]>>
    OBVIOUS
  <2> QED BY <2>2, <2>3
<1>2. SubSeq(s, 1, 1) = <<s[1]>> /\ SubSeq(t, 1, 1) = <<t[1]>>
  BY <1>1
<1> QED BY <1>2

(* The chain an entry gives to a file that is opened again. *)
LEMMA RechainedIs ==
    ASSUME NEW f \in Chains, NEW entry, Len(f.sectors) > 0, NEW S \in Seq(DataSectors), Len(S) > 0,
           entry.start = S[1], entry.count \in {1, Len(f.sectors)}
    PROVE  /\ Rechained(f, entry) \in Seq(DataSectors)
           /\ \/ Rechained(f, entry) = SubSeq(S, 1, 1)
              \/ Rechained(f, entry) = f.sectors /\ SubSeq(f.sectors, 1, 1) = SubSeq(S, 1, 1)
           /\ f.sectors[1] = S[1] /\ entry.count = Len(f.sectors) => Rechained(f, entry) = f.sectors
<1> DEFINE C == f.sectors
<1>1. C \in Seq(DataSectors) /\ Len(C) > 0 /\ Len(C) \in Nat /\ C # <<>>
  BY DEF Chains
<1>2. <<S[1]>> \in Seq(DataSectors) /\ SubSeq(S, 1, 1) = <<S[1]>>
  BY SameFirst
<1>3. CASE Moved(f, entry)
  <2>1. Rechained(f, entry) = <<S[1]>>
    BY <1>3 DEF Rechained
  <2>2. S[1] # C[1]
    BY <1>1, <1>3 DEF Moved
  <2> QED BY <1>2, <2>1, <2>2
<1>4. CASE ~Moved(f, entry)
  <2>1. C[1] = S[1]
    BY <1>1, <1>4 DEF Moved
  <2> HIDE DEF C
  <2>2. SubSeq(C, 1, 1) = SubSeq(S, 1, 1)
    BY <1>1, <1>2, <2>1, SameFirst
  <2>3. entry.count \in Int /\ entry.count \in {1, Len(C)}
    BY <1>1 DEF C
  <2>4. CASE entry.count < Len(C)
    <3>1. entry.count = 1 /\ Max({entry.count, 1}) = 1
      BY <2>3, <2>4, MaxOfTwo
    <3>2. Rechained(f, entry) = SubSeq(C, 1, 1)
      BY <1>4, <2>4, <3>1 DEF Rechained, C
    <3> QED BY <1>1, <1>2, <2>2, <2>4, <3>1, <3>2 DEF C
  <2>5. CASE ~(entry.count < Len(C))
    <3>1. Rechained(f, entry) = C
      BY <1>4, <2>5 DEF Rechained, C
    <3> QED BY <1>1, <2>2, <3>1 DEF C
  <2> QED BY <2>4, <2>5
<1> QED BY <1>3, <1>4

(* The first write of an operation, of its entry. *)
EntrySends(d, cat, j) ==
    LET r == DirWrite(d, [d.dirents EXCEPT ![j.file.slot] = j.entry])
        i == [j EXCEPT !.phase = IF j.kind = "erase" THEN "vtoc" ELSE "data"]
    IN  /\ r \in Images /\ HandleInv(r.io)
        /\ IF r.error THEN Leads(d, cat, j, r, cat, j)
           ELSE IF j.kind = "rename" THEN Leads(d, cat, j, r, Done(cat, j), NoJob)
           ELSE Leads(d, cat, j, r, cat, i)

(* The entry of a new file is written. *)
LEMMA CreateSends ==
    ASSUME NEW d \in Images, HandleInv(d.io), d.error = FALSE, NEW cat, NEW j, DiskInv(d, cat, j),
           j.phase = "entry", j.kind = "create"
    PROVE  EntrySends(d, cat, j)
<1> DEFINE f == j.file
           s == f.slot
           h == f.host
           entry == j.entry
           r == DirWrite(d, [d.dirents EXCEPT ![s] = entry])
           i == [j EXCEPT !.phase = "data"]
<1>1. j # NoJob /\ Operation(cat, j) /\ AtEntry(d, cat, j) /\ d.vtoc = DataSectors \ TakenBy(cat)
  BY NoJobIs DEF DiskInv, Progress
<1>2. WellMade(f) /\ entry \in Dirents
  BY <1>1 DEF Operation, Jobs
<1>3. s \in 1 .. Slots /\ \A e \in 1 .. Slots \ {s} : Quiet(d, e)
  BY <1>2, FileIs, OthersQuiet
<1>4. /\ InUse(entry.flags) /\ entry.start = f.sectors[1] /\ entry.flags = "open"
      /\ HostName(entry.name) = h /\ h \in Paths /\ entry.start \in DataSectors
  <2>1. entry.flags = "open" /\ entry.start = f.sectors[1] /\ HostName(entry.name) = h
    BY <1>1 DEF Operation
  <2> QED BY <1>2, <2>1, FileIs DEF InUse
<1>5. ~InUse(d.stitched[s].flags) /\ j.k = 1
  BY <1>1 DEF AtEntry
<1> HIDE DEF entry
<1>6. /\ Frame(d, r, s, HostName(entry.name)) /\ r.vtoc = d.vtoc
      /\ r.error => r.stitched[s] = d.stitched[s]
      /\ ~r.error => /\ r.dirents[s] = entry /\ HostName(entry.name) \in DOMAIN r.io.files
                     /\ r.stitched[s] = [flags |-> entry.flags, sectors |-> <<entry.start>>,
                                         host |-> HostName(entry.name)]
  <2>1. /\ InUse(entry.flags) /\ ~InUse(d.stitched[s].flags) /\ HostName(entry.name) \in Paths
        /\ entry.start \in DataSectors /\ entry \in Dirents /\ s \in 1 .. Slots
        /\ \A e \in 1 .. Slots \ {s} : Quiet(d, e)
    BY <1>2, <1>3, <1>4, <1>5
  <2> HIDE DEF s
  <2>2. Starts(d, DirWrite(d, [d.dirents EXCEPT ![s] = entry]), s, HostName(entry.name), entry)
    BY <2>1, Creating, Zenon
  <2>3. Starts(d, r, s, HostName(entry.name), entry)
    BY <2>2, Zenon DEF r
  <2> HIDE DEF r
  <2> QED BY ONLY <2>3 DEF Starts
<1>7. Frame(d, r, s, h) /\ r \in Images /\ HandleInv(r.io)
  BY <1>4, <1>6 DEF Frame
<1> HIDE DEF r
<1>8. CASE r.error
  <2>1. Progress(r, cat, j)
    <3>1. AtEntry(r, cat, j)
      BY <1>1, <1>6, <1>8 DEF AtEntry
    <3> QED BY <3>1 DEF Progress
  <2>2. GoesOn(j, j)
    BY DEF GoesOn
  <2>3. r.vtoc = DataSectors \ TakenBy(IF j.phase = "close" THEN Done(cat, j) ELSE cat)
    BY <1>1, <1>6
  <2>4. Leads(d, cat, j, r, cat, j)
    BY <1>1, <1>7, <2>1, <2>2, <2>3, OnwardInv DEF Leads
  <2> QED BY <1>7, <1>8, <2>4 DEF EntrySends, r, entry
<1>9. CASE ~r.error
  <2>1. /\ Operation(cat, i) /\ GoesOn(j, i) /\ i # NoJob /\ i.phase = "data" /\ i.k = j.k /\ i.entry = j.entry
    <3>1. "data" \in {"entry", "data", "vtoc", "close"} /\ Operation(cat, j)
      BY <1>1
    <3>2. Advanced(cat, j, "data", i)
      BY ONLY <3>1, PhaseIs
    <3> HIDE DEF i
    <3> QED BY ONLY <3>2 DEF Advanced
  <2> HIDE DEF i
  <2>2. i.file = f /\ i.kind = "create" /\ i.name = j.name
    BY <2>1 DEF GoesOn
  <2>3. Following(<<entry.start>>, cat, i)
    <3>1. 1 \in 1 .. Len(f.sectors)
      BY <1>2, FileIs
    <3>2. <<entry.start>> = SubSeq(f.sectors, 1, 1)
      BY <1>2, <1>4, FileIs, SameFirst
    <3> HIDE DEF f
    <3> QED BY <1>5, <2>1, <2>2, <3>1, <3>2 DEF Following
  <2>4. Begun(r.io.files[h], f.bytes, (i.k - 1) * DataSize)
    <3>1. r.io.files[h] \in Seq(Int)
      BY <1>4, <1>6, <1>7, <1>9, FilesAre
    <3>2. (i.k - 1) * DataSize = 0
      BY <1>5, <2>1, Sizes
    <3> HIDE DEF f
    <3>3. Len(f.bytes) \in Nat /\ Len(r.io.files[h]) \in Nat
      <4> DEFINE t == r.io.files[h]
      <4>1. Len(f.bytes) \in Nat
        BY ONLY <1>2, FileIs
      <4>2. t \in Seq(Int)
        BY ONLY <3>1
      <4> HIDE DEF t
      <4>3. Len(t) \in Nat
        BY ONLY <4>2
      <4> QED BY ONLY <4>1, <4>3, Zenon DEF t
    <3> QED BY ONLY <3>2, <3>3 DEF Begun
  <2>5. AtData(r, cat, i)
    <3>1. /\ r.dirents[s] = i.entry /\ h \in DOMAIN r.io.files
          /\ r.stitched[s].flags = "open" /\ r.stitched[s].sectors = <<entry.start>> /\ r.stitched[s].host = h
      BY <1>4, <1>6, <1>9, <2>1 DEF entry
    <3>2. i.file.slot = s /\ i.file.host = h /\ i.file.bytes = f.bytes
      BY ONLY <2>2
    <3> HIDE DEF s, h
    <3> QED BY ONLY <2>2, <2>3, <2>4, <3>1, <3>2 DEF AtData, Outputs
  <2>6. Progress(r, cat, i)
    BY <2>1, <2>5 DEF Progress
  <2>7. r.vtoc = DataSectors \ TakenBy(IF i.phase = "close" THEN Done(cat, j) ELSE cat)
    BY <1>1, <1>6, <2>1
  <2>8. Leads(d, cat, j, r, cat, i)
    BY <1>1, <1>7, <2>1, <2>6, <2>7, OnwardInv DEF Leads
  <2>9. i = [j EXCEPT !.phase = IF j.kind = "erase" THEN "vtoc" ELSE "data"]
    BY DEF i
  <2> QED BY <1>7, <1>9, <2>8, <2>9 DEF EntrySends, r, entry
<1> QED BY <1>8, <1>9

(* The file an operation finds. *)
LEMMA FindsStored ==
    ASSUME NEW d, NEW cat, NEW j, DiskInv(d, cat, j), j.phase = "entry", j.kind # "create"
    PROVE  LET old == cat[j.name]
               s   == j.file.slot
           IN  /\ j.name \in DOMAIN cat /\ WellMade(old) /\ Stored(d, j.name, old)
               /\ old.slot = s /\ old.host = j.file.host
               /\ d.dirents[s] = EntryOf("closed", old.sectors, Len(old.sectors), j.name)
               /\ d.dirents[s].flags = "closed" /\ d.stitched[s].flags = "closed"
               /\ d.stitched[s].sectors = old.sectors /\ d.stitched[s].host = j.file.host
               /\ j.file.host \in DOMAIN d.io.files /\ d.io.files[j.file.host] = old.bytes
<1>1. Operation(cat, j) /\ AtEntry(d, cat, j) /\ Catalogue(cat)
  BY NoJobIs DEF DiskInv, Progress
<1>2. j.name \in DOMAIN cat /\ cat[j.name].slot = j.file.slot /\ cat[j.name].host = j.file.host
  BY <1>1 DEF Operation
<1>3. WellMade(cat[j.name]) /\ Stored(d, j.name, cat[j.name])
  BY <1>1, <1>2 DEF AtEntry, Catalogue
<1> DEFINE old == cat[j.name]
           s   == j.file.slot
<1>4. /\ d.dirents[s] = EntryOf("closed", old.sectors, Len(old.sectors), j.name)
      /\ d.stitched[s] = [flags |-> "closed", sectors |-> old.sectors, host |-> j.file.host]
      /\ j.file.host \in DOMAIN d.io.files /\ d.io.files[j.file.host] = old.bytes
  BY <1>2, <1>3 DEF Stored
<1>5. /\ d.dirents[s].flags = "closed" /\ d.stitched[s].flags = "closed"
      /\ d.stitched[s].sectors = old.sectors /\ d.stitched[s].host = j.file.host
  BY <1>4 DEF EntryOf
<1> QED BY <1>2, <1>3, <1>4, <1>5, Zenon

(* The entry of a file that is replaced or extended is written. *)
LEMMA ReopenSends ==
    ASSUME NEW d \in Images, HandleInv(d.io), d.error = FALSE, NEW cat, NEW j, DiskInv(d, cat, j),
           j.phase = "entry", j.kind \in {"replace", "append"}
    PROVE  EntrySends(d, cat, j)
<1> DEFINE f == j.file
           s == f.slot
           h == f.host
           old == cat[j.name]
           entry == j.entry
           C == Rechained(d.stitched[s], entry)
           r == DirWrite(d, [d.dirents EXCEPT ![s] = entry])
           i == [j EXCEPT !.phase = "data"]
<1>1. j # NoJob /\ Operation(cat, j) /\ AtEntry(d, cat, j) /\ d.vtoc = DataSectors \ TakenBy(cat)
  BY NoJobIs DEF DiskInv, Progress
<1>2. WellMade(f) /\ entry \in Dirents
  BY <1>1 DEF Operation, Jobs
<1>3. s \in 1 .. Slots /\ \A e \in 1 .. Slots \ {s} : Quiet(d, e)
  BY <1>2, FileIs, OthersQuiet
<1>4. /\ j.name \in DOMAIN cat /\ WellMade(old) /\ h \in DOMAIN d.io.files /\ d.io.files[h] = old.bytes
      /\ d.dirents[s].flags = "closed" /\ d.stitched[s].flags = "closed"
      /\ d.stitched[s].sectors = old.sectors /\ d.stitched[s].host = h
  <2>1. j.kind # "create"
    OBVIOUS
  <2>2. /\ j.name \in DOMAIN cat /\ WellMade(cat[j.name])
        /\ d.dirents[j.file.slot].flags = "closed" /\ d.stitched[j.file.slot].flags = "closed"
        /\ d.stitched[j.file.slot].sectors = cat[j.name].sectors
        /\ d.stitched[j.file.slot].host = j.file.host
        /\ j.file.host \in DOMAIN d.io.files /\ d.io.files[j.file.host] = cat[j.name].bytes
    BY ONLY <2>1, FindsStored, DiskInv(d, cat, j), j.phase = "entry"
  <2> QED BY <2>2
<1>5. entry.flags = "open" /\ entry.start = f.sectors[1]
  BY <1>1 DEF Operation
<1>6. /\ old.sectors \in Seq(DataSectors) /\ Len(old.sectors) \in Nat \ {0}
      /\ f.sectors \in Seq(DataSectors) /\ Len(f.sectors) \in Nat \ {0}
  BY <1>2, <1>4, FileIs
<1>7. entry.count \in {1, Len(old.sectors)}
  BY <1>1 DEF AtEntry
<1>8. /\ C \in Seq(DataSectors)
      /\ C = SubSeq(f.sectors, 1, 1) \/ (C = old.sectors /\ SubSeq(old.sectors, 1, 1) = SubSeq(f.sectors, 1, 1))
      /\ old.sectors[1] = f.sectors[1] /\ entry.count = Len(old.sectors) => C = old.sectors
  <2>1. d.stitched[s] \in Chains
    BY <1>3 DEF Images
  <2> DEFINE S == f.sectors
             g == d.stitched[s]
  <2>2. /\ Len(g.sectors) > 0 /\ Len(S) > 0 /\ S \in Seq(DataSectors) /\ entry.start = S[1]
        /\ entry.count \in {1, Len(g.sectors)}
    BY <1>4, <1>5, <1>6, <1>7
  <2> HIDE DEF S, g, entry
  <2>3. /\ Rechained(g, entry) \in Seq(DataSectors)
        /\ \/ Rechained(g, entry) = SubSeq(S, 1, 1)
           \/ Rechained(g, entry) = g.sectors /\ SubSeq(g.sectors, 1, 1) = SubSeq(S, 1, 1)
        /\ g.sectors[1] = S[1] /\ entry.count = Len(g.sectors) => Rechained(g, entry) = g.sectors
    BY <2>1, <2>2, RechainedIs DEF g
  <2>4. g.sectors = old.sectors
    BY <1>4 DEF g
  <2>5. C = Rechained(g, entry)
    BY DEF g
  <2> HIDE DEF C
  <2>6. old.sectors[1] = S[1] /\ entry.count = Len(old.sectors) => C = old.sectors
    BY <2>3, <2>4, <2>5, Zenon
  <2>7. C = SubSeq(S, 1, 1) \/ (C = old.sectors /\ SubSeq(old.sectors, 1, 1) = SubSeq(S, 1, 1))
    BY <2>3, <2>4, <2>5, Zenon
  <2>8. C \in Seq(DataSectors)
    BY <2>3, <2>5
  <2> QED BY <2>6, <2>7, <2>8, Zenon DEF S
<1> HIDE DEF C, entry, r
<1>9. /\ Frame(d, r, s, h) /\ ~r.error /\ r.vtoc = d.vtoc /\ r.io = d.io /\ r.dirents[s] = entry
      /\ r.stitched[s] = [flags |-> entry.flags, sectors |-> C, host |-> d.stitched[s].host]
  <2>1. /\ s \in 1 .. Slots /\ entry \in Dirents /\ \A e \in 1 .. Slots \ {s} : Quiet(d, e)
        /\ InUse(entry.flags) /\ InUse(d.stitched[s].flags) /\ InUse(d.dirents[s].flags)
        /\ Rechained(d.stitched[s], entry) \in Seq(DataSectors)
    BY <1>2, <1>3, <1>4, <1>5, <1>8 DEF InUse, C
  <2> HIDE DEF s, h
  <2>2. Changed(d, DirWrite(d, [d.dirents EXCEPT ![s] = entry]), s, h, entry)
    BY <2>1, Changing, Zenon
  <2>3. Changed(d, r, s, h, entry)
    BY <2>2, Zenon DEF r
  <2> QED BY <2>3, Zenon DEF C, Changed
<1>10. /\ Operation(cat, i) /\ GoesOn(j, i) /\ i # NoJob /\ i.phase = "data" /\ i.k = j.k /\ i.entry = j.entry
  <2>1. "data" \in {"entry", "data", "vtoc", "close"} /\ Operation(cat, j)
    BY <1>1
  <2>2. Advanced(cat, j, "data", i)
    BY ONLY <2>1, PhaseIs
  <2> HIDE DEF i
  <2> QED BY ONLY <2>2 DEF Advanced
<1> HIDE DEF i
<1>11. i.file = f /\ i.kind = j.kind /\ i.name = j.name
  BY <1>10 DEF GoesOn
<1>12. /\ Following(C, cat, i) /\ Begun(old.bytes, f.bytes, (i.k - 1) * DataSize)
  <2>1. CASE j.kind = "replace"
    <3>1. i.k = 1 /\ (i.k - 1) * DataSize = 0
      <4>1. i.k = 1
        BY <1>1, <1>10, <2>1 DEF AtEntry
      <4> QED BY <4>1, Sizes
    <3>2. Begun(old.bytes, f.bytes, (i.k - 1) * DataSize)
      <4>1. Len(old.bytes) \in Nat /\ Len(f.bytes) \in Nat
        BY <1>2, <1>4, FileIs
      <4> QED BY <3>1, <4>1 DEF Begun
    <3>3. Following(C, cat, i)
      <4> HIDE DEF f
      <4>1. 1 \in 1 .. Len(f.sectors) /\ 1 <= Len(old.sectors)
        BY <1>6
      <4> QED BY <1>4, <1>8, <1>11, <3>1, <4>1 DEF Following
    <3> QED BY <3>2, <3>3
  <2>2. CASE j.kind = "append"
    <3>1. /\ j.k = Len(old.sectors) /\ entry.count = j.k /\ j.k <= Len(f.sectors)
          /\ old.sectors = SubSeq(f.sectors, 1, j.k) /\ Begun(old.bytes, f.bytes, Len(old.bytes))
      BY <1>1, <2>2 DEF AtEntry, entry
    <3>2. j.k \in 0 .. Len(f.sectors) /\ j.k \in 1 .. Len(f.sectors) /\ 1 \in 1 .. j.k
      BY <1>6, <3>1
    <3>3. old.sectors[1] = f.sectors[1]
      <4> HIDE DEF f, old
      <4> QED BY <1>6, <3>1, <3>2, Firsts
    <3>4. Following(C, cat, i)
      <4> HIDE DEF f, old
      <4> QED BY <1>8, <1>10, <1>11, <3>1, <3>2, <3>3 DEF Following
    <3>5. Begun(old.bytes, f.bytes, (i.k - 1) * DataSize)
      <4>1. old.bytes \in Seq(Int) /\ j.k \in 1 .. SectorsFor(Len(old.bytes))
        BY <1>4, <1>6, <3>1, FileIs
      <4> DEFINE at == (j.k - 1) * DataSize
                 b  == old.bytes
      <4>2. at \in Nat /\ at <= Len(b)
        BY <4>1, SectorBounds
      <4>3. Len(b) \in Nat /\ Begun(b, f.bytes, Len(b))
        BY <3>1, <4>1
      <4> HIDE DEF at, b
      <4>4. Begun(b, f.bytes, at)
        BY <4>2, <4>3 DEF Begun
      <4> QED BY <1>10, <4>4 DEF at, b
    <3> QED BY <3>4, <3>5
  <2> QED BY <2>1, <2>2
<1>13. AtData(r, cat, i)
  <2>1. /\ r.dirents[s] = i.entry /\ h \in DOMAIN r.io.files /\ r.io.files[h] = old.bytes
        /\ r.stitched[s].flags = "open" /\ r.stitched[s].sectors = C /\ r.stitched[s].host = h
    BY <1>4, <1>5, <1>9, <1>10 DEF entry
  <2>2. i.kind \in Outputs /\ i.kind # "update"
    BY <1>11 DEF Outputs
  <2> QED BY <1>11, <1>12, <2>1, <2>2 DEF AtData
<1>14. Progress(r, cat, i)
  BY <1>10, <1>13 DEF Progress
<1>15. r.vtoc = DataSectors \ TakenBy(IF i.phase = "close" THEN Done(cat, j) ELSE cat)
  BY <1>1, <1>9, <1>10
<1>16. Leads(d, cat, j, r, cat, i)
  BY <1>1, <1>9, <1>10, <1>14, <1>15, OnwardInv DEF Leads
<1>17. i = [j EXCEPT !.phase = IF j.kind = "erase" THEN "vtoc" ELSE "data"]
  BY DEF i
<1>18. r \in Images /\ HandleInv(r.io)
  BY <1>9 DEF Frame
<1> QED BY <1>9, <1>16, <1>17, <1>18 DEF EntrySends, r, entry

(* The entry with the new name is written. *)
LEMMA RenameSends ==
    ASSUME NEW d \in Images, HandleInv(d.io), d.error = FALSE, NEW cat, NEW j, DiskInv(d, cat, j),
           j.phase = "entry", j.kind = "rename"
    PROVE  EntrySends(d, cat, j)
<1> DEFINE f == j.file
           s == f.slot
           h == f.host
           entry == j.entry
           r == DirWrite(d, [d.dirents EXCEPT ![s] = entry])
<1>1. j # NoJob /\ Operation(cat, j) /\ AtEntry(d, cat, j) /\ Catalogue(cat) /\ d.vtoc = DataSectors \ TakenBy(cat)
  BY NoJobIs DEF DiskInv, Progress
<1>2. WellMade(f) /\ entry \in Dirents
  BY <1>1 DEF Operation, Jobs
<1>3. s \in 1 .. Slots /\ \A e \in 1 .. Slots \ {s} : Quiet(d, e)
  BY <1>2, FileIs, OthersQuiet
<1>4. /\ j.name \in DOMAIN cat /\ h \in DOMAIN d.io.files /\ d.io.files[h] = f.bytes
      /\ d.dirents[s].flags = "closed" /\ d.stitched[s].flags = "closed"
      /\ d.stitched[s].sectors = f.sectors /\ d.stitched[s].host = h /\ f = cat[j.name]
  <2>1. j.kind # "create"
    OBVIOUS
  <2>2. /\ j.name \in DOMAIN cat
        /\ d.dirents[j.file.slot].flags = "closed" /\ d.stitched[j.file.slot].flags = "closed"
        /\ d.stitched[j.file.slot].sectors = cat[j.name].sectors
        /\ d.stitched[j.file.slot].host = j.file.host
        /\ j.file.host \in DOMAIN d.io.files /\ d.io.files[j.file.host] = cat[j.name].bytes
    BY ONLY <2>1, FindsStored, DiskInv(d, cat, j), j.phase = "entry"
  <2>3. f = cat[j.name]
    BY <1>1 DEF Operation
  <2> QED BY <2>2, <2>3
<1>5. /\ entry.flags = "closed" /\ entry.start = f.sectors[1] /\ entry.name = j.as
      /\ entry.count = Len(f.sectors)
  BY <1>1 DEF Operation, AtEntry
<1>6. f.sectors \in Seq(DataSectors) /\ Len(f.sectors) \in Nat \ {0} /\ f.sectors # <<>>
  BY <1>2, FileIs
<1>7. Rechained(d.stitched[s], entry) = f.sectors
  <2>1. ~Moved(d.stitched[s], entry) /\ ~(entry.count < Len(d.stitched[s].sectors))
    BY <1>4, <1>5, <1>6 DEF Moved
  <2> QED BY <1>4, <2>1 DEF Rechained
<1> HIDE DEF entry
<1>8. Changed(d, r, s, h, entry)
  <2>1. /\ s \in 1 .. Slots /\ entry \in Dirents /\ \A e \in 1 .. Slots \ {s} : Quiet(d, e)
        /\ InUse(entry.flags) /\ InUse(d.stitched[s].flags) /\ InUse(d.dirents[s].flags)
        /\ Rechained(d.stitched[s], entry) \in Seq(DataSectors)
    BY <1>2, <1>3, <1>4, <1>5, <1>6, <1>7 DEF InUse
  <2> HIDE DEF s, h
  <2> QED BY <2>1, Changing, Zenon
<1> HIDE DEF r
<1>9. /\ Frame(d, r, s, h) /\ ~r.error /\ r.vtoc = d.vtoc /\ r.io = d.io /\ r.dirents[s] = entry
      /\ r.stitched[s] = [flags |-> "closed", sectors |-> f.sectors, host |-> h]
  BY <1>4, <1>5, <1>7, <1>8 DEF Changed
<1>10. Stored(r, j.as, f)
  <2>1. entry = [flags |-> "closed", count |-> Len(f.sectors), start |-> f.sectors[1], name |-> j.as]
    BY <1>2, <1>5 DEF Dirents
  <2> QED BY <1>4, <1>9, <2>1 DEF Stored, EntryOf
<1>11. r.vtoc = DataSectors \ TakenBy(Done(cat, j))
  <2>1. (IF j.name \in DOMAIN cat THEN Range(cat[j.name].sectors) ELSE {})
        = (IF j.kind = "erase" THEN {} ELSE Range(j.file.sectors))
    BY <1>4
  <2>2. TakenBy(Done(cat, j)) = TakenBy(cat)
    BY <1>1, <2>1, FreedIs
  <2> QED BY <1>1, <1>9, <2>2
<1>12. Leads(d, cat, j, r, Done(cat, j), NoJob)
  BY <1>1, <1>9, <1>10, <1>11, FinishInv DEF Leads
<1>13. r \in Images /\ HandleInv(r.io)
  BY <1>9 DEF Frame
<1> QED BY <1>9, <1>12, <1>13 DEF EntrySends, r, entry

(* The entry of an erased file is written: one call, the remove. *)
LEMMA EraseSends ==
    ASSUME NEW d \in Images, HandleInv(d.io), d.error = FALSE, NEW cat, NEW j, DiskInv(d, cat, j),
           j.phase = "entry", j.kind = "erase"
    PROVE  LET r == DirWrite(d, [d.dirents EXCEPT ![j.file.slot] = j.entry])
           IN  /\ EntrySends(d, cat, j) /\ ~r.error
               /\ r.io = RemoveFile(d.io, j.file.host)
               /\ j.file.host \in Paths /\ j.file.host \in DOMAIN d.io.files
<1> DEFINE f == j.file
           s == f.slot
           h == f.host
           entry == j.entry
           r == DirWrite(d, [d.dirents EXCEPT ![s] = entry])
           i == [j EXCEPT !.phase = "vtoc"]
<1>1. j # NoJob /\ Operation(cat, j) /\ d.vtoc = DataSectors \ TakenBy(cat)
  BY NoJobIs DEF DiskInv
<1>2. WellMade(f) /\ entry \in Dirents /\ entry.flags = "deleted"
  BY <1>1 DEF Operation, Jobs
<1>3. s \in 1 .. Slots /\ h \in Paths /\ \A e \in 1 .. Slots \ {s} : Quiet(d, e)
  BY <1>2, FileIs, OthersQuiet
<1>4. d.stitched[s].flags = "closed" /\ d.stitched[s].host = h /\ h \in DOMAIN d.io.files
  <2>1. j.kind # "create"
    OBVIOUS
  <2> QED BY ONLY <2>1, FindsStored, DiskInv(d, cat, j), j.phase = "entry"
<1> HIDE DEF entry
<1>5. /\ Frame(d, r, s, h) /\ ~r.error /\ r.vtoc = d.vtoc
      /\ r.dirents[s] = entry /\ r.stitched[s] = [NoFile EXCEPT !.flags = "deleted"]
      /\ r.io = RemoveFile(d.io, h)
  <2>1. /\ \A e \in 1 .. Slots \ {s} : Quiet(d, e)
        /\ entry.flags = "deleted" /\ d.stitched[s].flags = "closed" /\ d.stitched[s].host \in Paths
        /\ s \in 1 .. Slots /\ entry \in Dirents
    BY <1>2, <1>3, <1>4
  <2> HIDE DEF s
  <2>2. /\ Frame(d, r, s, d.stitched[s].host) /\ ~r.error /\ r.vtoc = d.vtoc
        /\ r.dirents[s] = entry /\ r.stitched[s] = [NoFile EXCEPT !.flags = "deleted"]
        /\ r.io = RemoveFile(d.io, d.stitched[s].host)
    <3>1. d \in Images /\ HandleInv(d.io) /\ d.error = FALSE
      OBVIOUS
    <3>2. LET g == d.stitched[s].host
              t == DirWrite(d, [d.dirents EXCEPT ![s] = entry])
          IN  /\ Frame(d, t, s, g) /\ ~t.error /\ t.vtoc = d.vtoc
              /\ t.dirents[s] = entry /\ t.stitched[s] = [NoFile EXCEPT !.flags = "deleted"]
              /\ t.io = RemoveFile(d.io, g)
      BY ONLY <2>1, <3>1, Erasing
    <3> QED BY ONLY <3>2 DEF r
  <2> HIDE DEF r, h
  <2> QED BY <1>4, <2>2
<1> HIDE DEF r
<1>6. /\ Operation(cat, i) /\ GoesOn(j, i) /\ i # NoJob /\ i.phase = "vtoc" /\ i.entry = j.entry
  <2>1. Advanced(cat, j, "vtoc", i)
    <3>1. Operation(cat, j)
      BY <1>1
    <3> QED BY ONLY <3>1, PhaseIs
  <2> QED BY ONLY <2>1 DEF Advanced
<1> HIDE DEF i
<1>7. Ended(r, i)
  <2>1. i.file = f /\ i.kind = "erase"
    BY <1>6 DEF GoesOn
  <2> QED BY <1>5, <1>6, <2>1 DEF Ended, entry
<1>8. Progress(r, cat, i)
  BY <1>6, <1>7 DEF Progress
<1>9. r.vtoc = DataSectors \ TakenBy(IF i.phase = "close" THEN Done(cat, j) ELSE cat)
  BY <1>1, <1>5, <1>6
<1>10. Leads(d, cat, j, r, cat, i)
  BY <1>1, <1>5, <1>6, <1>8, <1>9, OnwardInv DEF Leads
<1>11. i = [j EXCEPT !.phase = IF j.kind = "erase" THEN "vtoc" ELSE "data"]
  BY DEF i
<1>12. r \in Images /\ HandleInv(r.io)
  BY <1>5 DEF Frame
<1>13. EntrySends(d, cat, j)
  BY <1>5, <1>10, <1>11, <1>12 DEF EntrySends, r, entry
<1> QED BY <1>3, <1>4, <1>5, <1>13 DEF r, entry, h

LEMMA EntrySent ==
    ASSUME NEW d \in Images, HandleInv(d.io), d.error = FALSE, NEW cat, NEW j, DiskInv(d, cat, j),
           j.phase = "entry"
    PROVE  EntrySends(d, cat, j)
<1>1. j.kind \in {"create", "replace", "append", "erase", "rename"}
  <2>1. j \in Jobs /\ AtEntry(d, cat, j)
    BY NoJobIs DEF DiskInv, Operation, Progress
  <2>2. j.kind # "update"
    BY <2>1 DEF AtEntry
  <2> QED BY <2>1, <2>2 DEF Jobs, Outputs
<1> QED BY <1>1, CreateSends, ReopenSends, RenameSends, EraseSends

-----------------------------------------------------------------------------
(* A write of the sector the operation is at. *)

LEMMA SameSeq ==
    ASSUME NEW D, NEW s \in Seq(D), NEW t \in Seq(D), Len(s) = Len(t), \A i \in 1 .. Len(s) : s[i] = t[i]
    PROVE  s = t
<1>1. s = [i \in 1 .. Len(s) |-> s[i]] /\ t = [i \in 1 .. Len(t) |-> t[i]]
  OBVIOUS
<1> QED BY <1>1

(* One sector more. *)
LEMMA OneMore ==
    ASSUME NEW s \in Seq(DataSectors), NEW k \in 1 .. Len(s), k < Len(s)
    PROVE  /\ Append(SubSeq(s, 1, k), s[k + 1]) = SubSeq(s, 1, k + 1)
           /\ SubSeq(s, 1, k) \o <<s[k + 1]>> = SubSeq(s, 1, k + 1)
           /\ \A t \in Seq(DataSectors) : k < Len(t) /\ SubSeq(t, 1, k) = SubSeq(s, 1, k) /\ t[k + 1] = s[k + 1]
                                          => SubSeq(t, 1, k + 1) = SubSeq(s, 1, k + 1)
<1>1. k \in Nat /\ k \in 0 .. Len(s) /\ k + 1 \in 0 .. Len(s) /\ k + 1 \in 1 .. Len(s) /\ Len(s) \in Nat
  OBVIOUS
<1> DEFINE p == SubSeq(s, 1, k)
           q == SubSeq(s, 1, k + 1)
           x == s[k + 1]
<1>2. /\ p \in Seq(DataSectors) /\ Len(p) = k /\ \A i \in 1 .. k : p[i] = s[i]
      /\ q \in Seq(DataSectors) /\ Len(q) = k + 1 /\ \A i \in 1 .. k + 1 : q[i] = s[i]
      /\ x \in DataSectors
  BY <1>1, Firsts
<1>3. ASSUME NEW t \in Seq(DataSectors), k < Len(t), SubSeq(t, 1, k) = p, t[k + 1] = x
      PROVE  SubSeq(t, 1, k + 1) = q
  <2> DEFINE u == SubSeq(t, 1, k + 1)
             v == SubSeq(t, 1, k)
  <2>1. k \in 0 .. Len(t) /\ k + 1 \in 0 .. Len(t)
    BY <1>1, <1>3
  <2>2. /\ u \in Seq(DataSectors) /\ Len(u) = k + 1 /\ \A i \in 1 .. k + 1 : u[i] = t[i]
        /\ \A i \in 1 .. k : v[i] = t[i]
    BY <2>1, Firsts
  <2>3. v = p /\ t[k + 1] = s[k + 1]
    BY <1>3
  <2> HIDE DEF u, v, p, q
  <2>4. \A i \in 1 .. k + 1 : u[i] = q[i]
    BY <1>1, <1>2, <2>2, <2>3
  <2> QED BY <1>2, <2>2, <2>4, SameSeq DEF u
<1> HIDE DEF p, q, x
<1>4. /\ Append(p, x) \in Seq(DataSectors) /\ Len(Append(p, x)) = k + 1
      /\ \A i \in 1 .. k + 1 : Append(p, x)[i] = IF i <= k THEN p[i] ELSE x
  BY <1>1, <1>2
<1>5. /\ p \o <<x>> \in Seq(DataSectors) /\ Len(p \o <<x>>) = k + 1
      /\ \A i \in 1 .. k + 1 : (p \o <<x>>)[i] = IF i <= k THEN p[i] ELSE x
  BY <1>1, <1>2
<1>6. \A i \in 1 .. k + 1 : q[i] = IF i <= k THEN p[i] ELSE x
  BY <1>1, <1>2 DEF x
<1>7. Append(p, x) = q
  <2> DEFINE u == Append(p, x)
  <2> HIDE DEF u
  <2>1. u \in Seq(DataSectors) /\ Len(u) = Len(q) /\ \A i \in 1 .. Len(u) : u[i] = q[i]
    BY <1>2, <1>4, <1>6 DEF u
  <2> QED BY <1>2, <2>1, SameSeq DEF u
<1>8. p \o <<x>> = q
  <2> DEFINE u == p \o <<x>>
  <2> HIDE DEF u
  <2>1. u \in Seq(DataSectors) /\ Len(u) = Len(q) /\ \A i \in 1 .. Len(u) : u[i] = q[i]
    BY <1>2, <1>5, <1>6 DEF u
  <2> QED BY <1>2, <2>1, SameSeq DEF u
<1> QED BY <1>3, <1>7, <1>8 DEF p, q, x

(* The chain after a write of the k-th sector of S, whose first k sectors  *)
(* it had.                                                                 *)
LEMMA Chained ==
    ASSUME NEW C \in Seq(DataSectors), NEW S \in Seq(DataSectors), NEW k \in 1 .. Len(S), k <= Len(C),
           SubSeq(C, 1, k) = SubSeq(S, 1, k)
    PROVE  LET after == Chain(C, k, Link(S, k))
           IN  /\ after \in Seq(DataSectors)
               /\ k = Len(S) \/ C = S => after = S
               /\ k < Len(S) => \/ after = SubSeq(S, 1, k + 1)
                                \/ /\ after = C /\ k + 1 <= Len(C)
                                   /\ SubSeq(C, 1, k + 1) = SubSeq(S, 1, k + 1)
<1> DEFINE next  == Link(S, k)
           after == Chain(C, k, next)
<1>1. k \in Nat /\ k \in 0 .. Len(C) /\ k \in 0 .. Len(S) /\ Len(S) \in Nat /\ Len(C) \in Nat
  OBVIOUS
<1>2. SubSeq(C, 1, k) \in Seq(DataSectors) /\ SubSeq(S, 1, Len(S)) = S /\ SubSeq(C, 1, Len(C)) = C
  <2>1. Len(S) \in 0 .. Len(S) /\ Len(C) \in 0 .. Len(C)
    BY <1>1
  <2> QED BY <1>1, <2>1, Firsts
<1>3. CASE k = Len(S)
  <2>1. next = 0
    BY <1>1, <1>3 DEF Link
  <2> HIDE DEF next
  <2>2. after = SubSeq(C, 1, k) \o <<>>
    BY <2>1 DEF Chain
  <2>3. SubSeq(C, 1, k) \o <<>> = SubSeq(C, 1, k)
    <3> DEFINE p == SubSeq(C, 1, k)
    <3> HIDE DEF p
    <3>1. p \in Seq(DataSectors)
      BY <1>2 DEF p
    <3> QED BY <3>1 DEF p
  <2>4. after = S
    BY <1>2, <1>3, <2>2, <2>3
  <2> QED BY <1>1, <1>3, <2>4 DEF next
<1>4. CASE k < Len(S)
  <2>1. next = S[k + 1] /\ next \in DataSectors /\ next # 0
    BY <1>1, <1>4, Sizes DEF Link
  <2>2. /\ Append(SubSeq(S, 1, k), S[k + 1]) = SubSeq(S, 1, k + 1)
        /\ SubSeq(S, 1, k) \o <<S[k + 1]>> = SubSeq(S, 1, k + 1)
        /\ k < Len(C) /\ C[k + 1] = S[k + 1] => SubSeq(C, 1, k + 1) = SubSeq(S, 1, k + 1)
    BY <1>4, OneMore
  <2>3. SubSeq(S, 1, k + 1) \in Seq(DataSectors)
    BY <1>1, <1>4, Firsts
  <2> HIDE DEF next
  <2>4. CASE k < Len(C) /\ C[k + 1] # next
    <3>1. after = SubSeq(C, 1, k) \o <<next>>
      BY <2>1, <2>4 DEF Chain
    <3>2. after = SubSeq(S, 1, k + 1)
      BY <2>1, <2>2, <3>1
    <3>3. C # S
      BY <2>1, <2>4
    <3> QED BY <1>4, <2>3, <3>2, <3>3 DEF next
  <2>5. CASE k < Len(C) /\ C[k + 1] = next
    <3>1. after = C
      BY <1>1, <2>1, <2>5 DEF Chain
    <3>2. k + 1 <= Len(C)
      BY <1>1, <2>5
    <3> QED BY <1>4, <2>1, <2>2, <2>5, <3>1, <3>2 DEF next
  <2>6. CASE k = Len(C)
    <3>1. after = Append(C, next)
      BY <1>1, <2>1, <2>6 DEF Chain
    <3>2. C = SubSeq(S, 1, k)
      BY <1>2, <2>6
    <3>3. after = SubSeq(S, 1, k + 1)
      BY <2>1, <2>2, <3>1, <3>2
    <3>4. C # S
      BY <1>4, <2>6
    <3> QED BY <1>4, <2>3, <3>3, <3>4 DEF next
  <2>7. k < Len(C) \/ k = Len(C)
    BY <1>1
  <2> QED BY <2>4, <2>5, <2>6, <2>7
<1> QED BY <1>1, <1>3, <1>4

(* The chain of the file of the operation has the sector it is at. *)
LEMMA ChainAt ==
    ASSUME NEW d \in Images, NEW cat, NEW j, DiskInv(d, cat, j), j.phase = "data"
    PROVE  LET s == j.file.slot
               S == j.file.sectors
               C == d.stitched[s].sectors
           IN  /\ s \in 1 .. Slots /\ S \in Seq(DataSectors) /\ C \in Seq(DataSectors)
               /\ j.k \in 1 .. Len(S) /\ j.k <= Len(C)
               /\ SubSeq(C, 1, j.k) = SubSeq(S, 1, j.k) /\ Distinct(C)
               /\ C = SubSeq(S, 1, j.k) \/ (j.name \in DOMAIN cat /\ C = cat[j.name].sectors)
<1> DEFINE f == j.file
           s == f.slot
           S == f.sectors
           C == d.stitched[s].sectors
           k == j.k
<1>1. Operation(cat, j) /\ AtData(d, cat, j) /\ Catalogue(cat)
  BY NoJobIs DEF DiskInv, Progress
<1>2. WellMade(f)
  BY <1>1 DEF Operation
<1>3. s \in 1 .. Slots /\ S \in Seq(DataSectors) /\ Distinct(S) /\ Len(S) \in Nat
  BY <1>2, FileIs
<1>4. C \in Seq(DataSectors)
  <2>1. d.stitched[s] \in Chains
    BY <1>3 DEF Images
  <2> QED BY <2>1 DEF Chains
<1>5. /\ k \in 1 .. Len(S)
      /\ \/ C = SubSeq(S, 1, k)
         \/ /\ j.name \in DOMAIN cat /\ C = cat[j.name].sectors /\ k <= Len(C)
            /\ SubSeq(C, 1, k) = SubSeq(S, 1, k)
  <2>1. Following(C, cat, j)
    BY <1>1 DEF AtData
  <2> QED BY <2>1 DEF Following
<1> HIDE DEF C, S, s
<1>6. /\ k \in 0 .. Len(S)
      /\ SubSeq(S, 1, k) \in Seq(DataSectors) /\ Len(SubSeq(S, 1, k)) = k
      /\ \A i \in 1 .. k : SubSeq(S, 1, k)[i] = S[i]
  <2>1. k \in 0 .. Len(S)
    BY <1>5
  <2> QED BY <1>3, <2>1, Firsts
<1>7. CASE C = SubSeq(S, 1, k)
  <2>1. Len(C) = k /\ k \in Nat /\ k \in 0 .. Len(C) /\ \A i \in 1 .. k : C[i] = S[i]
    BY <1>3, <1>6, <1>7
  <2>2. SubSeq(C, 1, k) = C
    BY <1>4, <2>1, Firsts
  <2>3. Distinct(C)
    BY <1>3, <1>5, <2>1 DEF Distinct
  <2> QED BY <1>3, <1>4, <1>5, <1>7, <2>1, <2>2, <2>3 DEF C, S, s
<1>8. CASE /\ j.name \in DOMAIN cat /\ C = cat[j.name].sectors /\ k <= Len(C)
           /\ SubSeq(C, 1, k) = SubSeq(S, 1, k)
  <2>1. WellMade(cat[j.name])
    BY <1>1, <1>8 DEF Catalogue
  <2>2. Distinct(C)
    BY <1>8, <2>1, FileIs
  <2> QED BY <1>3, <1>4, <1>5, <1>8, <2>2 DEF C, S, s
<1> QED BY <1>5, <1>7, <1>8

(* The sector the operation is at is on the image's chain, and on no other  *)
(* one.                                                                     *)
LEMMA SectorFound ==
    ASSUME NEW d \in Images, NEW cat, NEW j, DiskInv(d, cat, j), j.phase = "data"
    PROVE  LET s == j.file.slot
               C == d.stitched[s].sectors
               x == j.file.sectors[j.k]
           IN  /\ j.k \in DOMAIN C /\ C[j.k] = x
               /\ FilesWith(d, x) = {s}
<1> DEFINE f == j.file
           s == f.slot
           S == f.sectors
           C == d.stitched[s].sectors
           k == j.k
           x == S[k]
<1>1. Operation(cat, j) /\ AtData(d, cat, j) /\ Catalogue(cat)
  BY NoJobIs DEF DiskInv, Progress
<1>2. /\ s \in 1 .. Slots /\ S \in Seq(DataSectors) /\ C \in Seq(DataSectors)
      /\ k \in 1 .. Len(S) /\ k <= Len(C) /\ SubSeq(C, 1, k) = SubSeq(S, 1, k)
  BY ChainAt
<1>3. k \in DOMAIN C /\ C[k] = x
  <2> HIDE DEF C, S
  <2>1. k \in 0 .. Len(S) /\ k \in 0 .. Len(C) /\ k \in 1 .. k /\ k \in DOMAIN C
    BY <1>2
  <2>2. SubSeq(C, 1, k)[k] = C[k] /\ SubSeq(S, 1, k)[k] = S[k]
    BY <1>2, <2>1, Firsts
  <2> QED BY <1>2, <2>1, <2>2
<1>4. x \in Range(C) /\ x \in Range(S)
  <2> HIDE DEF C, S
  <2>1. k \in DOMAIN S
    BY <1>2
  <2> QED BY <1>3, <2>1 DEF Range
<1>5. InUse(d.stitched[s].flags)
  BY <1>1 DEF AtData, InUse
<1>6. ASSUME NEW e \in 1 .. Slots, e # s, InUse(d.stitched[e].flags)
      PROVE  x \notin Range(d.stitched[e].sectors)
  <2>1. CASE Empty(d, e)
    BY <1>6, <2>1 DEF Empty
  <2>2. CASE \E n \in DOMAIN cat \ {j.name} : cat[n].slot = e /\ Stored(d, n, cat[n])
    <3>1. PICK n \in DOMAIN cat \ {j.name} : cat[n].slot = e /\ Stored(d, n, cat[n])
      BY <2>2
    <3>2. WellMade(cat[n]) /\ Apart(f, cat[n])
      BY <1>1 DEF Catalogue, Operation
    <3>3. d.stitched[e].sectors = cat[n].sectors
      BY <3>1, <3>2, StoredQuiet
    <3> HIDE DEF x
    <3> QED BY <1>4, <3>2, <3>3 DEF Apart
  <2> QED BY <1>6, <2>1, <2>2, OtherSlots
<1>7. FilesWith(d, x) = {s}
  <2> HIDE DEF x, s
  <2>1. \A e \in 1 .. Slots : InUse(d.stitched[e].flags) /\ x \in Range(d.stitched[e].sectors) <=> e = s
    BY <1>2, <1>4, <1>5, <1>6
  <2> QED BY <1>2, <2>1 DEF FilesWith
<1> QED BY <1>3, <1>7

(* The k-th sector of the operation's file is written: the disk d becomes r. *)
SectorPut(d, j, r) ==
    LET s    == j.file.slot
        h    == j.file.host
        at   == (j.k - 1) * DataSize
        w    == SectorBytes(j.file.bytes, j.k)
        next == Link(j.file.sectors, j.k)
        put  == Written(d.io.files[h], w, at)
    IN  /\ Frame(d, r, s, h) /\ r.vtoc = d.vtoc /\ r.dirents = d.dirents /\ h \in DOMAIN r.io.files
        /\ r.error => /\ r.stitched[s] = d.stitched[s]
                      /\ r.io.files[h] = d.io.files[h] \/ r.io.files[h] = put
        /\ ~r.error =>
            /\ r.stitched[s] = [flags |-> d.stitched[s].flags, host |-> h,
                                sectors |-> Chain(d.stitched[s].sectors, j.k, next)]
            /\ r.io.files[h] = IF next = 0 THEN Resized(put, at + Len(w)) ELSE put
SectorWrite(d, j) ==
    DataWrite(d, j.file.sectors[j.k], [bytes |-> SectorBytes(j.file.bytes, j.k),
                                       next |-> Link(j.file.sectors, j.k)])

(* Its write goes to that place of that host file. *)
LEMMA SectorPuts ==
    ASSUME NEW d \in Images, HandleInv(d.io), d.error = FALSE, NEW cat, NEW j, DiskInv(d, cat, j),
           j.phase = "data"
    PROVE  SectorPut(d, j, SectorWrite(d, j))
<1> DEFINE f == j.file
           s == f.slot
           h == f.host
           S == f.sectors
           C == d.stitched[s].sectors
           k == j.k
           x == S[k]
           w == SectorBytes(f.bytes, k)
           next == Link(S, k)
           at == (k - 1) * DataSize
           old == d.io.files
           put == Written(old[h], w, at)
           r == DataWrite(d, x, [bytes |-> w, next |-> next])
<1>1. Operation(cat, j) /\ AtData(d, cat, j)
  BY NoJobIs DEF DiskInv, Progress
<1>2. d.stitched[s].host = h /\ h \in DOMAIN old
  BY <1>1 DEF AtData
<1>3. WellMade(f)
  BY <1>1 DEF Operation
<1>4. h \in Paths /\ f.bytes \in Seq(Int) /\ Len(S) = SectorsFor(Len(f.bytes))
  BY <1>3, FileIs
<1>5. /\ s \in 1 .. Slots /\ S \in Seq(DataSectors) /\ C \in Seq(DataSectors)
      /\ k \in 1 .. Len(S) /\ k <= Len(C) /\ SubSeq(C, 1, k) = SubSeq(S, 1, k) /\ Distinct(C)
  BY ChainAt
<1>6. k \in DOMAIN C /\ C[k] = x /\ FilesWith(d, x) = {s}
  BY SectorFound
<1>7. w \in Seq(Int) /\ at \in Nat
  BY <1>4, <1>5, SectorBounds
<1>8. Chain(C, k, next) \in Seq(DataSectors)
  BY <1>5, Chained
<1> HIDE DEF w, next
<1>9. /\ Frame(d, r, s, h) /\ r.vtoc = d.vtoc /\ r.dirents = d.dirents
      /\ r.error => /\ r.stitched[s] = d.stitched[s]
                    /\ r.io.files = old \/ r.io.files = [old EXCEPT ![h] = put]
      /\ ~r.error =>
          /\ r.stitched[s] = [flags |-> d.stitched[s].flags, sectors |-> Chain(C, k, next), host |-> h]
          /\ r.io.files = [old EXCEPT ![h] = IF next = 0 THEN Resized(put, at + Len(w)) ELSE put]
  <2>1. /\ s \in 1 .. Slots /\ FilesWith(d, x) = {s} /\ d.stitched[s].host \in Paths
        /\ Distinct(d.stitched[s].sectors) /\ k \in DOMAIN d.stitched[s].sectors
        /\ d.stitched[s].sectors[k] = x /\ w \in Seq(Int) /\ (k - 1) * DataSize \in Nat
        /\ Chain(d.stitched[s].sectors, k, next) \in Seq(DataSectors)
    BY <1>2, <1>4, <1>5, <1>6, <1>7, <1>8
  <2> DEFINE g == d.stitched[s].host
             u == Written(d.io.files[g], w, (k - 1) * DataSize)
  <2> HIDE DEF s, x, k
  <2>2. DataPut(d, r, s, k, w, next)
    BY <2>1, DataWriting, Zenon
  <2>3. g = h
    BY <1>2 DEF s
  <2> HIDE DEF g, h, r
  <2> QED BY <2>2, <2>3, Zenon DEF DataPut, g
<1> DEFINE v == IF next = 0 THEN Resized(put, at + Len(w)) ELSE put
<1> HIDE DEF r, put, at, v
<1>10. /\ h \in DOMAIN r.io.files
       /\ r.error => r.io.files[h] = old[h] \/ r.io.files[h] = put
       /\ ~r.error => r.io.files[h] = v
  <2> HIDE DEF h, old
  <2>1. h \in DOMAIN old
    BY <1>2 DEF h, old
  <2>2. r.error => r.io.files = old \/ r.io.files = [old EXCEPT ![h] = put]
    BY <1>9
  <2>3. ~r.error => r.io.files = [old EXCEPT ![h] = v]
    BY <1>9 DEF v
  <2> QED BY <2>1, <2>2, <2>3
<1>11. SectorWrite(d, j) = r
  BY DEF SectorWrite, r, w, next
<1> QED BY <1>9, <1>10, <1>11 DEF SectorPut, w, next, put, at, v

(* A sector sent: what follows is the next one, or the VTOC. *)
SectorSends(d, cat, j) ==
    LET r == SectorWrite(d, j)
        i == IF j.k < Len(j.file.sectors) THEN [j EXCEPT !.k = @ + 1] ELSE [j EXCEPT !.phase = "vtoc"]
    IN  /\ r \in Images /\ HandleInv(r.io)
        /\ IF r.error THEN Leads(d, cat, j, r, cat, j)
           ELSE IF j.kind = "update" THEN Leads(d, cat, j, r, Done(cat, j), NoJob)
           ELSE Leads(d, cat, j, r, cat, i)

(* The bytes on the host after the write of a sector. *)
LEMMA PutBytes ==
    ASSUME NEW d \in Images, HandleInv(d.io), NEW cat, NEW j, DiskInv(d, cat, j), j.phase = "data"
    PROVE  LET old   == d.io.files[j.file.host]
               bytes == j.file.bytes
               at    == (j.k - 1) * DataSize
               w     == SectorBytes(bytes, j.k)
               put   == Written(old, w, at)
               last  == Len(j.file.sectors)
           IN  /\ Begun(old, bytes, at) /\ Begun(put, bytes, at)
               /\ j.k < last => Begun(put, bytes, j.k * DataSize)
               /\ j.k = last => Resized(put, at + Len(w)) = bytes
               /\ j.kind = "update" => put = bytes
<1> DEFINE old   == d.io.files[j.file.host]
           bytes == j.file.bytes
           at    == (j.k - 1) * DataSize
           w     == SectorBytes(bytes, j.k)
           put   == Written(old, w, at)
           last  == Len(j.file.sectors)
<1>1. Operation(cat, j) /\ AtData(d, cat, j)
  BY NoJobIs DEF DiskInv, Progress
<1>2. WellMade(j.file)
  BY <1>1 DEF Operation
<1>3. bytes \in Seq(Int) /\ last = SectorsFor(Len(bytes))
  BY <1>2, FileIs
<1>4. j.file.host \in DOMAIN d.io.files /\ Begun(old, bytes, at)
  BY <1>1 DEF AtData
<1>5. old \in Seq(Int)
  BY <1>4, FilesAre
<1>6. j.k \in 1 .. last
  BY ChainAt
<1>7. j.kind = "update" => /\ Len(old) = Len(bytes)
                           /\ \A i \in 1 .. Len(bytes) : i <= at \/ i > j.k * DataSize => old[i] = bytes[i]
  BY <1>1 DEF AtData
<1> HIDE DEF old, bytes, last
<1>8. /\ Begun(put, bytes, at)
      /\ j.k < SectorsFor(Len(bytes)) => Begun(put, bytes, j.k * DataSize)
      /\ j.k = SectorsFor(Len(bytes)) => Resized(put, at + Len(w)) = bytes
      /\ (/\ Len(old) = Len(bytes)
          /\ \A i \in 1 .. Len(bytes) : i <= at \/ i > j.k * DataSize => old[i] = bytes[i])
         => put = bytes
  <2>1. j.k \in 1 .. SectorsFor(Len(bytes)) /\ Begun(old, bytes, (j.k - 1) * DataSize)
    BY <1>3, <1>4, <1>6
  <2> DEFINE k == j.k
  <2> HIDE DEF k
  <2> QED BY <1>3, <1>5, <2>1, SectorWritten DEF k
<1> HIDE DEF put, at, w
<1>9. j.kind = "update" => put = bytes
  BY <1>7, <1>8
<1> QED BY <1>3, <1>4, <1>8, <1>9 DEF old, bytes, last, put, at, w

(* The write was refused. *)
LEMMA SectorRefused ==
    ASSUME NEW d \in Images, HandleInv(d.io), d.error = FALSE, NEW cat, NEW j, DiskInv(d, cat, j),
           j.phase = "data", NEW r, SectorPut(d, j, r), r.error
    PROVE  Leads(d, cat, j, r, cat, j)
<1> DEFINE f == j.file
           s == f.slot
           h == f.host
           at == (j.k - 1) * DataSize
<1>1. j # NoJob /\ Operation(cat, j) /\ AtData(d, cat, j) /\ d.vtoc = DataSectors \ TakenBy(cat)
  BY NoJobIs DEF DiskInv, Progress
<1>2. /\ Frame(d, r, s, h) /\ r.vtoc = d.vtoc /\ r.dirents = d.dirents /\ h \in DOMAIN r.io.files
      /\ r.stitched[s] = d.stitched[s]
      /\ r.io.files[h] = d.io.files[h] \/ r.io.files[h] = Written(d.io.files[h], SectorBytes(f.bytes, j.k), at)
  BY DEF SectorPut
<1>3. /\ Begun(r.io.files[h], f.bytes, at)
      /\ j.kind = "update" => r.io.files[h] = d.io.files[h] \/ r.io.files[h] = f.bytes
  <2>1. /\ Begun(d.io.files[h], f.bytes, at)
        /\ Begun(Written(d.io.files[h], SectorBytes(f.bytes, j.k), at), f.bytes, at)
        /\ j.kind = "update" => Written(d.io.files[h], SectorBytes(f.bytes, j.k), at) = f.bytes
    BY PutBytes
  <2>2. CASE r.io.files[h] = d.io.files[h]
    BY <2>1, <2>2, Zenon
  <2>3. CASE r.io.files[h] = Written(d.io.files[h], SectorBytes(f.bytes, j.k), at)
    BY <2>1, <2>3, Zenon
  <2> QED BY <1>2, <2>2, <2>3
<1>4. AtData(r, cat, j)
  <2> DEFINE old == d.io.files[h]
             new == r.io.files[h]
  <2>1. /\ j.kind \in Outputs \cup {"update"}
        /\ d.stitched[s].host = h /\ Following(d.stitched[s].sectors, cat, j)
    BY <1>1 DEF AtData
  <2>2. ASSUME j.kind = "update"
        PROVE  /\ r.stitched[s].flags = "closed" /\ r.stitched[s].sectors = f.sectors
               /\ r.dirents[s] = EntryOf("closed", f.sectors, Len(f.sectors), j.name)
               /\ Len(new) = Len(f.bytes)
               /\ \A i \in 1 .. Len(f.bytes) : i <= at \/ i > j.k * DataSize => new[i] = f.bytes[i]
    <3>1. /\ d.stitched[s].flags = "closed" /\ d.stitched[s].sectors = f.sectors
          /\ d.dirents[s] = EntryOf("closed", f.sectors, Len(f.sectors), j.name)
          /\ Len(old) = Len(f.bytes)
          /\ \A i \in 1 .. Len(f.bytes) : i <= at \/ i > j.k * DataSize => old[i] = f.bytes[i]
      BY <1>1, <2>2 DEF AtData
    <3>2. new = old \/ new = f.bytes
      BY <1>3, <2>2
    <3> HIDE DEF new, old, f, at
    <3>3. /\ Len(new) = Len(f.bytes)
          /\ \A i \in 1 .. Len(f.bytes) : i <= at \/ i > j.k * DataSize => new[i] = f.bytes[i]
      BY <3>1, <3>2, Zenon
    <3>4. r.stitched[s] = d.stitched[s] /\ r.dirents[s] = d.dirents[s]
      BY <1>2
    <3> QED BY <3>1, <3>3, <3>4, Zenon
  <2>3. ASSUME j.kind # "update" PROVE r.stitched[s].flags = "open" /\ r.dirents[s] = j.entry
    BY <1>1, <1>2, <2>3 DEF AtData
  <2>4. r.stitched[s].host = h /\ Following(r.stitched[s].sectors, cat, j)
    BY <1>2, <2>1
  <2> QED BY <1>2, <1>3, <2>1, <2>2, <2>3, <2>4, Zenon DEF AtData
<1>5. Progress(r, cat, j)
  BY <1>4 DEF Progress
<1>6. r.vtoc = DataSectors \ TakenBy(IF j.phase = "close" THEN Done(cat, j) ELSE cat)
  BY <1>1, <1>2
<1> QED BY <1>1, <1>2, <1>5, <1>6, OnwardInv DEF Leads, GoesOn

(* The sector of an update is written: the file is done. *)
LEMMA SectorUpdated ==
    ASSUME NEW d \in Images, HandleInv(d.io), d.error = FALSE, NEW cat, NEW j, DiskInv(d, cat, j),
           j.phase = "data", NEW r, SectorPut(d, j, r), ~r.error, j.kind = "update"
    PROVE  Leads(d, cat, j, r, Done(cat, j), NoJob)
<1> DEFINE f == j.file
           s == f.slot
           h == f.host
           S == f.sectors
           C == d.stitched[s].sectors
           at == (j.k - 1) * DataSize
           w  == SectorBytes(f.bytes, j.k)
           put == Written(d.io.files[h], w, at)
           next == Link(S, j.k)
<1>1. /\ j # NoJob /\ Operation(cat, j) /\ AtData(d, cat, j) /\ Catalogue(cat)
      /\ d.vtoc = DataSectors \ TakenBy(cat)
  BY NoJobIs DEF DiskInv, Progress
<1>2. /\ Frame(d, r, s, h) /\ r.vtoc = d.vtoc /\ r.dirents = d.dirents /\ h \in DOMAIN r.io.files
      /\ r.stitched[s] = [flags |-> d.stitched[s].flags, host |-> h, sectors |-> Chain(C, j.k, next)]
      /\ r.io.files[h] = IF next = 0 THEN Resized(put, at + Len(w)) ELSE put
  BY DEF SectorPut
<1>3. /\ d.stitched[s].flags = "closed" /\ C = S
      /\ d.dirents[s] = EntryOf("closed", S, Len(S), j.name)
  BY <1>1 DEF AtData
<1>4. /\ S \in Seq(DataSectors) /\ j.k \in 1 .. Len(S) /\ j.k <= Len(C) /\ C \in Seq(DataSectors)
      /\ SubSeq(C, 1, j.k) = SubSeq(S, 1, j.k)
  BY ChainAt
<1>5. Chain(C, j.k, next) = S
  BY <1>3, <1>4, Chained
<1>6. put = f.bytes /\ (j.k = Len(S) => Resized(put, at + Len(w)) = f.bytes)
  BY PutBytes
<1>7. next = 0 => j.k = Len(S)
  <2>1. j.k < Len(S) => S[j.k + 1] \in DataSectors
    BY <1>4
  <2>2. j.k < Len(S) \/ j.k = Len(S)
    BY <1>4
  <2> QED BY <2>1, <2>2, Sizes DEF Link
<1> HIDE DEF put, at, w, next
<1>8. r.io.files[h] = f.bytes
  BY <1>2, <1>6, <1>7
<1>9. j.as = j.name /\ j.name \in DOMAIN cat /\ S = cat[j.name].sectors
  BY <1>1 DEF Operation
<1>10. Stored(r, j.as, f)
  BY <1>2, <1>3, <1>5, <1>8, <1>9 DEF Stored
<1>11. r.vtoc = DataSectors \ TakenBy(Done(cat, j))
  <2>1. (IF j.name \in DOMAIN cat THEN Range(cat[j.name].sectors) ELSE {})
        = (IF j.kind = "erase" THEN {} ELSE Range(j.file.sectors))
    BY <1>9
  <2>2. TakenBy(Done(cat, j)) = TakenBy(cat)
    BY <1>1, <2>1, FreedIs
  <2> QED BY <1>1, <1>2, <2>2
<1> QED BY <1>1, <1>2, <1>10, <1>11, FinishInv DEF Leads

(* Another sector is written: the next one, or the VTOC, follows. *)
LEMMA SectorTaken ==
    ASSUME NEW d \in Images, HandleInv(d.io), d.error = FALSE, NEW cat, NEW j, DiskInv(d, cat, j),
           j.phase = "data", NEW r, SectorPut(d, j, r), ~r.error, j.kind # "update"
    PROVE  Leads(d, cat, j, r, cat,
                 IF j.k < Len(j.file.sectors) THEN [j EXCEPT !.k = @ + 1] ELSE [j EXCEPT !.phase = "vtoc"])
<1> DEFINE f == j.file
           s == f.slot
           h == f.host
           S == f.sectors
           C == d.stitched[s].sectors
           k == j.k
           at == (j.k - 1) * DataSize
           w  == SectorBytes(f.bytes, j.k)
           put == Written(d.io.files[h], w, at)
           next == Link(S, k)
           after == Chain(C, k, next)
<1>1. /\ j # NoJob /\ Operation(cat, j) /\ AtData(d, cat, j) /\ Catalogue(cat)
      /\ d.vtoc = DataSectors \ TakenBy(cat)
  BY NoJobIs DEF DiskInv, Progress
<1>2. /\ Frame(d, r, s, h) /\ r.vtoc = d.vtoc /\ r.dirents = d.dirents /\ h \in DOMAIN r.io.files
      /\ r.stitched[s] = [flags |-> d.stitched[s].flags, host |-> h, sectors |-> after]
      /\ r.io.files[h] = IF next = 0 THEN Resized(put, at + Len(w)) ELSE put
  BY DEF SectorPut
<1>3. d.stitched[s].flags = "open" /\ d.dirents[s] = j.entry /\ j.kind \in Outputs
  BY <1>1 DEF AtData
<1>4. /\ S \in Seq(DataSectors) /\ k \in 1 .. Len(S) /\ k <= Len(C) /\ C \in Seq(DataSectors)
      /\ SubSeq(C, 1, k) = SubSeq(S, 1, k)
      /\ C = SubSeq(S, 1, k) \/ (j.name \in DOMAIN cat /\ C = cat[j.name].sectors)
  BY ChainAt
<1>5. /\ k = Len(S) => after = S
      /\ k < Len(S) => \/ after = SubSeq(S, 1, k + 1)
                       \/ after = C /\ k + 1 <= Len(C) /\ SubSeq(C, 1, k + 1) = SubSeq(S, 1, k + 1)
  <2> HIDE DEF C, S, k
  <2>1. /\ k = Len(S) \/ C = S => after = S
        /\ k < Len(S) => \/ after = SubSeq(S, 1, k + 1)
                         \/ /\ after = C /\ k + 1 <= Len(C)
                            /\ SubSeq(C, 1, k + 1) = SubSeq(S, 1, k + 1)
    BY <1>4, Chained
  <2> HIDE DEF after
  <2> QED BY <2>1, Zenon
<1>6. /\ j.k < Len(S) => Begun(put, f.bytes, j.k * DataSize)
      /\ j.k = Len(S) => Resized(put, at + Len(w)) = f.bytes
  BY PutBytes
<1> HIDE DEF put, at, w, after
<1>7. CASE k < Len(S)
  <2> DEFINE i == [j EXCEPT !.k = @ + 1]
  <2>1. /\ Operation(cat, i) /\ GoesOn(j, i) /\ i # NoJob
        /\ i.phase = "data" /\ i.k = k + 1 /\ i.entry = j.entry
    BY <1>1, NextSectorIs
  <2> HIDE DEF i
  <2>2. i.file = f /\ i.kind = j.kind /\ i.name = j.name
    BY <2>1 DEF GoesOn
  <2> HIDE DEF k, C
  <2>3. next # 0 /\ k + 1 \in 1 .. Len(S)
    <3>1. k + 1 \in 1 .. Len(S) /\ S[k + 1] \in DataSectors /\ next = S[k + 1]
      BY <1>4, <1>7 DEF Link
    <3> HIDE DEF next
    <3> QED BY <3>1, Sizes
  <2> HIDE DEF next
  <2>4. Following(after, cat, i)
    <3>1. CASE after = SubSeq(S, 1, k + 1)
      BY <2>1, <2>2, <2>3, <3>1 DEF Following
    <3>2. CASE after = C /\ k + 1 <= Len(C) /\ SubSeq(C, 1, k + 1) = SubSeq(S, 1, k + 1)
      <4>1. Len(SubSeq(S, 1, k)) = k
        BY ONLY <1>4, Firsts
      <4>2. j.name \in DOMAIN cat /\ C = cat[j.name].sectors
        <5>1. C # SubSeq(S, 1, k)
          <6>1. k \in Int /\ k + 1 <= Len(C)
            BY ONLY <1>4, <3>2
          <6> HIDE DEF C, S, k
          <6> QED BY ONLY <4>1, <6>1
        <5> HIDE DEF C, S, k
        <5> QED BY ONLY <1>4, <5>1
      <4> HIDE DEF C, S
      <4> QED BY <2>1, <2>2, <2>3, <3>2, <4>2 DEF Following, S
    <3> QED BY ONLY <1>5, <1>7, <3>1, <3>2
  <2>5. Begun(r.io.files[h], f.bytes, (i.k - 1) * DataSize)
    <3>1. i.k - 1 = j.k
      BY ONLY <1>4, <2>1 DEF k
    <3>2. r.io.files[h] = put
      BY <1>2, <2>3
    <3> QED BY <1>6, <1>7, <3>1, <3>2 DEF k
  <2>6. AtData(r, cat, i)
    <3>1. i.kind \in Outputs /\ i.kind # "update"
      BY <1>3, <2>2
    <3>2. /\ r.stitched[s].flags = "open" /\ r.stitched[s].host = h /\ r.stitched[s].sectors = after
          /\ r.dirents[s] = i.entry
      BY <1>2, <1>3, <2>1
    <3> QED BY <1>2, <2>2, <2>4, <2>5, <3>1, <3>2 DEF AtData
  <2>7. Progress(r, cat, i)
    BY <2>1, <2>6 DEF Progress
  <2>8. r.vtoc = DataSectors \ TakenBy(IF i.phase = "close" THEN Done(cat, j) ELSE cat)
    BY <1>1, <1>2, <2>1
  <2>9. Leads(d, cat, j, r, cat, i)
    BY <1>1, <1>2, <2>1, <2>7, <2>8, OnwardInv DEF Leads
  <2> QED BY ONLY <1>7, <2>9, Zenon DEF i, k
<1>8. CASE ~(k < Len(S))
  <2> DEFINE i == [j EXCEPT !.phase = "vtoc"]
  <2>1. /\ Operation(cat, i) /\ GoesOn(j, i) /\ i # NoJob /\ i.phase = "vtoc" /\ i.entry = j.entry
    <3>1. Advanced(cat, j, "vtoc", i)
      <4>1. Operation(cat, j)
        BY <1>1
      <4> QED BY ONLY <4>1, PhaseIs
    <3> QED BY ONLY <3>1 DEF Advanced
  <2> HIDE DEF i
  <2>2. i.file = f /\ i.kind = j.kind /\ i.name = j.name
    BY <2>1 DEF GoesOn
  <2>3. k = Len(S) /\ next = 0
    <3>1. k = Len(S)
      <4> HIDE DEF k, S, C
      <4>1. S \in Seq(DataSectors)
        BY ONLY <1>4
      <4>2. Len(S) \in Nat
        BY ONLY <4>1
      <4>3. k \in 1 .. Len(S) /\ ~(k < Len(S))
        BY ONLY <1>4, <1>8
      <4> QED BY ONLY <4>2, <4>3
    <3> QED BY ONLY <1>8, <3>1 DEF Link
  <2>4. Ended(r, i)
    <3>1. r.stitched[s] = [flags |-> "open", sectors |-> S, host |-> h]
      BY <1>2, <1>3, <1>5, <2>3
    <3>2. r.io.files[h] = f.bytes
      BY <1>2, <1>6, <2>3
    <3>3. i.kind \in Outputs /\ i.kind # "erase"
      BY <1>3, <2>2 DEF Outputs
    <3> QED BY <1>2, <1>3, <2>1, <2>2, <3>1, <3>2, <3>3 DEF Ended
  <2>5. Progress(r, cat, i)
    BY <2>1, <2>4 DEF Progress
  <2>6. r.vtoc = DataSectors \ TakenBy(IF i.phase = "close" THEN Done(cat, j) ELSE cat)
    BY <1>1, <1>2, <2>1
  <2>7. Leads(d, cat, j, r, cat, i)
    BY <1>1, <1>2, <2>1, <2>5, <2>6, OnwardInv DEF Leads
  <2> QED BY <1>8, <2>7 DEF i
<1> QED BY <1>7, <1>8

LEMMA SectorSent ==
    ASSUME NEW d \in Images, HandleInv(d.io), d.error = FALSE, NEW cat, NEW j, DiskInv(d, cat, j),
           j.phase = "data"
    PROVE  SectorSends(d, cat, j)
<1> DEFINE r == SectorWrite(d, j)
<1>1. SectorPut(d, j, r)
  BY SectorPuts
<1> HIDE DEF r
<1>2. r \in Images /\ HandleInv(r.io)
  BY <1>1 DEF SectorPut, Frame
<1>3. r.error => Leads(d, cat, j, r, cat, j)
  BY <1>1, SectorRefused
<1>4. ~r.error /\ j.kind = "update" => Leads(d, cat, j, r, Done(cat, j), NoJob)
  BY <1>1, SectorUpdated
<1>5. ~r.error /\ j.kind # "update" =>
        Leads(d, cat, j, r, cat,
              IF j.k < Len(j.file.sectors) THEN [j EXCEPT !.k = @ + 1] ELSE [j EXCEPT !.phase = "vtoc"])
  BY <1>1, SectorTaken
<1> QED BY <1>2, <1>3, <1>4, <1>5, Zenon DEF SectorSends, r

-----------------------------------------------------------------------------
(* The writes of the VTOC and of the closed entry. *)

FreeThen(d, cat, j) ==
    (d.vtoc \cup (IF j.name \in DOMAIN cat THEN Range(cat[j.name].sectors) ELSE {}))
    \ (IF j.kind = "erase" THEN {} ELSE Range(j.file.sectors))

VTOCSends(d, cat, j) ==
    LET r == [d EXCEPT !.vtoc = FreeThen(d, cat, j)]
    IN  /\ r \in Images /\ HandleInv(r.io) /\ ~r.error
        /\ IF j.kind = "erase" THEN Leads(d, cat, j, r, Done(cat, j), NoJob)
           ELSE Leads(d, cat, j, r, cat, [j EXCEPT !.phase = "close"])

(* The VTOC is written with the sectors that are free when the operation is *)
(* done.                                                                    *)
LEMMA VTOCSent ==
    ASSUME NEW d \in Images, HandleInv(d.io), d.error = FALSE, NEW cat, NEW j, DiskInv(d, cat, j),
           j.phase = "vtoc"
    PROVE  VTOCSends(d, cat, j)
<1> DEFINE f == j.file
           s == f.slot
           h == f.host
           free == FreeThen(d, cat, j)
           r == [d EXCEPT !.vtoc = free]
<1>1. /\ j # NoJob /\ Operation(cat, j) /\ Ended(d, j) /\ Catalogue(cat)
      /\ d.vtoc = DataSectors \ TakenBy(cat)
  BY NoJobIs DEF DiskInv, Progress
<1>2. free = DataSectors \ TakenBy(Done(cat, j))
  BY <1>1, FreedIs DEF FreeThen
<1> HIDE DEF free
<1>3. /\ r \in Images /\ r.io = d.io /\ r.dirents = d.dirents /\ r.stitched = d.stitched
      /\ r.vtoc = free /\ r.error = FALSE
  BY <1>2 DEF Images
<1> HIDE DEF r
<1>4. Frame(d, r, s, h)
  BY <1>3 DEF Frame, SameFiles
<1>5. CASE j.kind = "erase"
  <2>1. Empty(r, s)
    <3>1. /\ d.dirents[s] = j.entry /\ d.stitched[s] = [NoFile EXCEPT !.flags = "deleted"]
          /\ j.entry.flags = "deleted"
      BY <1>1, <1>5 DEF Ended, Operation
    <3>2. d.stitched[s].flags = "deleted" /\ d.stitched[s].sectors = <<>>
      BY <3>1 DEF NoFile
    <3> QED BY <1>3, <3>1, <3>2 DEF Empty, InUse
  <2>2. Leads(d, cat, j, r, Done(cat, j), NoJob)
    BY <1>1, <1>2, <1>3, <1>4, <1>5, <2>1, FinishInv DEF Leads
  <2> QED BY <1>3, <1>5, <2>2 DEF VTOCSends, r, free
<1>6. CASE j.kind # "erase"
  <2> DEFINE i == [j EXCEPT !.phase = "close"]
  <2>1. /\ Operation(cat, i) /\ GoesOn(j, i) /\ i # NoJob /\ i.phase = "close" /\ i.entry = j.entry
    <3>1. Advanced(cat, j, "close", i)
      <4>1. Operation(cat, j)
        BY <1>1
      <4> QED BY ONLY <4>1, PhaseIs
    <3> QED BY ONLY <3>1 DEF Advanced
  <2> HIDE DEF i
  <2>2. i.file = f /\ i.kind = j.kind
    BY <2>1 DEF GoesOn
  <2>3. Ended(r, i)
    BY <1>1, <1>3, <2>1, <2>2 DEF Ended
  <2>4. Progress(r, cat, i)
    BY <1>6, <2>1, <2>2, <2>3 DEF Progress
  <2>5. r.vtoc = DataSectors \ TakenBy(IF i.phase = "close" THEN Done(cat, j) ELSE cat)
    BY <1>2, <1>3, <2>1
  <2>6. Leads(d, cat, j, r, cat, i)
    BY <1>1, <1>4, <2>1, <2>4, <2>5, OnwardInv DEF Leads
  <2> QED BY <1>3, <1>6, <2>6 DEF VTOCSends, r, free, i
<1> QED BY <1>5, <1>6

CloseSends(d, cat, j) ==
    LET S == j.file.sectors
        r == DirWrite(d, [d.dirents EXCEPT ![j.file.slot] = EntryOf("closed", S, Len(S), j.name)])
    IN  /\ r \in Images /\ HandleInv(r.io) /\ ~r.error
        /\ Leads(d, cat, j, r, Done(cat, j), NoJob)

(* The closed entry is written, and the file is at rest. *)
LEMMA CloseSent ==
    ASSUME NEW d \in Images, HandleInv(d.io), d.error = FALSE, NEW cat, NEW j, DiskInv(d, cat, j),
           j.phase = "close"
    PROVE  CloseSends(d, cat, j)
<1> DEFINE f == j.file
           s == f.slot
           h == f.host
           S == f.sectors
           entry == EntryOf("closed", S, Len(S), j.name)
           r == DirWrite(d, [d.dirents EXCEPT ![s] = entry])
<1>1. /\ j # NoJob /\ Operation(cat, j) /\ Ended(d, j) /\ j.kind # "erase"
      /\ d.vtoc = DataSectors \ TakenBy(Done(cat, j))
  BY NoJobIs DEF DiskInv, Progress
<1>2. WellMade(f) /\ j \in Jobs
  BY <1>1 DEF Operation
<1>3. s \in 1 .. Slots /\ \A e \in 1 .. Slots \ {s} : Quiet(d, e)
  BY <1>2, FileIs, OthersQuiet
<1>4. /\ d.dirents[s] = j.entry /\ h \in DOMAIN d.io.files /\ d.io.files[h] = f.bytes
      /\ d.stitched[s] = [flags |-> "open", sectors |-> S, host |-> h]
      /\ j.kind \in Outputs
  BY <1>1 DEF Ended
<1>5. j.entry.flags = "open" /\ j.as = j.name
  BY <1>1, <1>4 DEF Operation, Outputs
<1>6. S \in Seq(DataSectors) /\ Len(S) \in Nat \ {0} /\ S # <<>> /\ S[1] \in DataSectors /\ S[1] \in Int
  BY <1>2, FileIs, Sizes
<1>7. /\ entry \in Dirents /\ entry.flags = "closed" /\ entry.start = S[1] /\ entry.count = Len(S)
  BY <1>2, <1>6 DEF EntryOf, Dirents, Flags, Jobs
<1>8. Rechained(d.stitched[s], entry) = S
  <2> HIDE DEF entry
  <2>1. ~Moved(d.stitched[s], entry) /\ ~(entry.count < Len(d.stitched[s].sectors))
    BY <1>4, <1>6, <1>7 DEF Moved
  <2> QED BY <1>4, <2>1 DEF Rechained
<1> HIDE DEF entry
<1>9. Changed(d, r, s, h, entry)
  <2>1. /\ s \in 1 .. Slots /\ entry \in Dirents /\ \A e \in 1 .. Slots \ {s} : Quiet(d, e)
        /\ InUse(entry.flags) /\ InUse(d.stitched[s].flags) /\ InUse(d.dirents[s].flags)
        /\ Rechained(d.stitched[s], entry) \in Seq(DataSectors)
    BY <1>3, <1>4, <1>5, <1>6, <1>7, <1>8 DEF InUse
  <2> HIDE DEF s, h
  <2> QED BY <2>1, Changing, Zenon
<1> HIDE DEF r
<1>10. /\ Frame(d, r, s, h) /\ ~r.error /\ r.vtoc = d.vtoc /\ r.io = d.io /\ r.dirents[s] = entry
       /\ r.stitched[s] = [flags |-> "closed", sectors |-> S, host |-> h]
  BY <1>4, <1>7, <1>8, <1>9 DEF Changed
<1>11. Stored(r, j.as, f)
  BY <1>4, <1>5, <1>10 DEF Stored, entry
<1>12. r.vtoc = DataSectors \ TakenBy(Done(cat, j))
  BY <1>1, <1>10
<1>13. Leads(d, cat, j, r, Done(cat, j), NoJob)
  BY <1>1, <1>10, <1>11, <1>12, FinishInv DEF Leads
<1>14. r \in Images /\ HandleInv(r.io)
  BY <1>10 DEF Frame
<1> QED BY <1>10, <1>13, <1>14, Zenon DEF CloseSends, r, entry

-----------------------------------------------------------------------------
(* The steps of the specification. *)

DosInv ==
    /\ Image \in Images /\ HandleInv(io) /\ jobs \in Nat
    /\ DiskInv(Image, dos, job) /\ Gone(Image, job, stranded)
    /\ GuestApart => HostsInv(Image, dos, job, stranded)

LEMMA ImageIs ==
    /\ Image.io = io /\ Image.vtoc = vtoc /\ Image.dirents = dirents /\ Image.stitched = stitched
    /\ Image.error = FALSE
BY DEF Image

(* A storage call that will fail is not seen in the files. *)
LEMMA FailingIs ==
    ASSUME DosInv, NEW f \in Nat
    PROVE  LET d == ImageFailing(f)
           IN  /\ d \in Images /\ HandleInv(d.io) /\ d.error = FALSE /\ Same(Image, d) /\ Same(d, Image)
               /\ d.vtoc = vtoc /\ d.dirents = dirents /\ d.stitched = stitched
               /\ DiskInv(d, dos, job) /\ Gone(d, job, stranded)
               /\ GuestApart => HostsInv(d, dos, job, stranded)
               /\ d.io.fails = f
<1> DEFINE d == ImageFailing(f)
           s == [io EXCEPT !.fails = f]
<1>1. /\ Image \in Images /\ HandleInv(io) /\ DiskInv(Image, dos, job) /\ Gone(Image, job, stranded)
      /\ GuestApart => HostsInv(Image, dos, job, stranded)
  BY DEF DosInv
<1>2. HandleInv(s) /\ s.files = io.files /\ s.fails = f
  <2>1. HandleInv(s)
    BY <1>1, FailingInv
  <2>2. s.files = io.files /\ s.fails = f
    BY <1>1 DEF HandleInv, Storages
  <2> QED BY <2>1, <2>2
<1>3. d = [Image EXCEPT !.io = s]
  BY ImageIs DEF ImageFailing
<1> HIDE DEF s, d
<1>4. s \in Storages
  BY <1>2 DEF HandleInv
<1>5. /\ d \in Images /\ d.io = s /\ d.error = FALSE
      /\ d.vtoc = vtoc /\ d.dirents = dirents /\ d.stitched = stitched
  BY <1>1, <1>3, <1>4, ImageIs DEF Images
<1>6. Same(Image, d) /\ Same(d, Image)
  BY <1>2, <1>5, ImageIs DEF Same
<1>7. DiskInv(d, dos, job) /\ Gone(d, job, stranded) /\ (GuestApart => HostsInv(d, dos, job, stranded))
  BY <1>1, <1>6, SameDisk
<1> QED BY <1>2, <1>5, <1>6, <1>7 DEF d

(* A call has returned. *)
LEMMA ReturnedIs ==
    ASSUME NEW r \in Images, HandleInv(r.io), NEW f, Called(r, f)
    PROVE  Image' \in Images /\ HandleInv(io') /\ Same(r, Image')
<1> DEFINE s == [r.io EXCEPT !.fails = 0]
           t == [s EXCEPT !.ok = TRUE]
<1>1. HandleInv(s) /\ s.files = r.io.files
  <2>1. HandleInv(s)
    BY FailingInv
  <2>2. s.files = r.io.files
    BY DEF HandleInv, Storages
  <2> QED BY <2>1, <2>2
<1> HIDE DEF s
<1>2. HandleInv(t) /\ t.files = s.files
  <2>1. HandleInv(t)
    BY <1>1, FailInv
  <2>2. t.files = s.files
    BY <1>1 DEF HandleInv, Storages
  <2> QED BY <2>1, <2>2
<1> HIDE DEF t
<1>3. io' = t /\ vtoc' = r.vtoc /\ dirents' = r.dirents /\ stitched' = r.stitched
  <2>1. [r.io EXCEPT !.fails = 0, !.ok = TRUE] = t
    BY Zenon DEF s, t
  <2> QED BY <2>1 DEF Called
<1>4. /\ Image'.io = t /\ Image'.vtoc = r.vtoc /\ Image'.dirents = r.dirents /\ Image'.stitched = r.stitched
      /\ Image' = [io |-> t, vtoc |-> r.vtoc, dirents |-> r.dirents, stitched |-> r.stitched, error |-> FALSE]
  BY <1>3 DEF Image
<1>5. Image' \in Images
  <2>1. t \in Storages
    BY <1>2 DEF HandleInv
  <2>2. /\ r.vtoc \in SUBSET DataSectors /\ r.dirents \in [1 .. Slots -> Dirents]
        /\ r.stitched \in [1 .. Slots -> Chains]
    BY DEF Images
  <2> QED BY <1>4, <2>1, <2>2 DEF Images
<1>6. Same(r, Image')
  BY <1>1, <1>2, <1>4 DEF Same
<1> QED BY <1>2, <1>3, <1>5, <1>6

(* A write that leads from the guest's state to its next keeps the          *)
(* invariant.                                                               *)
LEMMA SentInv ==
    ASSUME DosInv, NEW f \in Nat, NEW r \in Images, HandleInv(r.io), Called(r, f), UNCHANGED jobs,
           Leads(ImageFailing(f), dos, job, r, dos', job'),
           stranded' = stranded \/ (job # NoJob /\ stranded' \ {job.file.host} = stranded \ {job.file.host}),
           Gone(r, job, stranded'), Gone(r, job', stranded')
    PROVE  DosInv'
<1>1. Image' \in Images /\ HandleInv(io') /\ Same(r, Image')
  BY ReturnedIs
<1>2. GuestApart => HostsInv(ImageFailing(f), dos, job, stranded')
  <2>1. GuestApart => HostsInv(ImageFailing(f), dos, job, stranded)
    BY FailingIs
  <2>2. CASE stranded' = stranded
    BY <2>1, <2>2
  <2>3. CASE job # NoJob /\ stranded' \ {job.file.host} = stranded \ {job.file.host}
    BY <2>1, <2>3 DEF HostsInv
  <2> QED BY <2>2, <2>3
<1>3. DiskInv(r, dos', job') /\ (GuestApart => HostsInv(r, dos', job', stranded'))
  BY <1>2 DEF Leads
<1>4. /\ DiskInv(Image', dos', job') /\ Gone(Image', job', stranded')
      /\ GuestApart => HostsInv(Image', dos', job', stranded')
  BY <1>1, <1>3, SameDisk
<1>5. jobs' \in Nat
  BY DEF DosInv
<1> QED BY <1>1, <1>4, <1>5 DEF DosInv

(* One lemma for each write, and one for a read. *)
LEMMA WriteEntryInv ==
    ASSUME DosInv, NEW f \in Nat, WriteEntry(f)
    PROVE  DosInv'
<1> DEFINE d == ImageFailing(f)
           s == job.file.slot
           r == DirWrite(d, [d.dirents EXCEPT ![s] = job.entry])
           i == [job EXCEPT !.phase = IF job.kind = "erase" THEN "vtoc" ELSE "data"]
           next == IF job.kind = "rename" THEN NoJob ELSE i
<1>1. /\ d \in Images /\ HandleInv(d.io) /\ d.error = FALSE /\ d.dirents = dirents
      /\ DiskInv(d, dos, job) /\ d.io.fails = f
  BY FailingIs
<1> HIDE DEF d
<1>2. job.phase = "entry"
  BY DEF WriteEntry
<1>3. EntrySends(d, dos, job)
  BY <1>1, <1>2, EntrySent
<1>4. Operation(dos, job)
  BY <1>1, <1>2, NoJobIs DEF DiskInv
<1>5. i # NoJob /\ i.kind = job.kind /\ i.file = job.file
  <2>1. Advanced(dos, job, "vtoc", [job EXCEPT !.phase = "vtoc"])
    BY ONLY <1>4, PhaseIs
  <2>2. Advanced(dos, job, "data", [job EXCEPT !.phase = "data"])
    BY ONLY <1>4, PhaseIs
  <2>3. Advanced(dos, job, "vtoc", i) \/ Advanced(dos, job, "data", i)
    BY ONLY <2>1, <2>2
  <2> HIDE DEF i
  <2> QED BY ONLY <2>3 DEF Advanced, GoesOn
<1> HIDE DEF i
<1>6. r = Write(d, Dir, [dirents EXCEPT ![s] = job.entry])
  BY <1>1 DEF Write, Dir, VTOC
<1>7. /\ Called(r, f) /\ UNCHANGED jobs
      /\ IF r.error THEN UNCHANGED <<dos, job>>
         ELSE job' = next /\ dos' = (IF next = NoJob THEN Finished ELSE dos)
  <2>1. Send(f, Dir, [dirents EXCEPT ![s] = job.entry], next)
    BY Zenon DEF WriteEntry, i
  <2> HIDE DEF r, next
  <2> QED BY <1>6, <2>1 DEF Send, d
<1> HIDE DEF r
<1>8. /\ r \in Images /\ HandleInv(r.io)
      /\ IF r.error THEN Leads(d, dos, job, r, dos, job)
         ELSE IF job.kind = "rename" THEN Leads(d, dos, job, r, Done(dos, job), NoJob)
         ELSE Leads(d, dos, job, r, dos, i)
  BY <1>3, Zenon DEF EntrySends, r, i
<1>9. Finished = Done(dos, job)
  BY Zenon DEF Finished, Done
<1>10. Leads(d, dos, job, r, dos', job')
  <2>1. CASE r.error
    BY <1>7, <1>8, <2>1
  <2>2. CASE ~r.error /\ job.kind = "rename"
    BY <1>7, <1>8, <1>9, <2>2
  <2>3. CASE ~r.error /\ job.kind # "rename"
    BY <1>5, <1>7, <1>8, <2>3
  <2> QED BY <2>1, <2>2, <2>3
<1> DEFINE h == job.file.host
<1>11. stranded' = IF job.kind # "erase" THEN stranded
                   ELSE IF f = 0 THEN stranded \ {h} ELSE stranded \cup {h}
  BY Zenon DEF WriteEntry
<1>12. job # NoJob /\ stranded' \ {h} = stranded \ {h}
  <2> HIDE DEF h
  <2>1. job # NoJob
    BY <1>2, NoJobIs
  <2> QED BY <1>11, <2>1
<1>13. Gone(r, job, stranded')
  BY <1>2 DEF Gone
<1>14. Gone(r, job', stranded')
  <2>1. CASE job.kind # "erase"
    <3>1. job'.kind \in {job.kind, "none"}
      BY <1>5, <1>7 DEF NoJob
    <3> QED BY <2>1, <3>1 DEF Gone
  <2>2. CASE job.kind = "erase"
    <3>1. /\ ~r.error /\ r.io = RemoveFile(d.io, h) /\ h \in Paths /\ h \in DOMAIN d.io.files
      BY <1>1, <1>2, <2>2, EraseSends, Zenon DEF r
    <3>2. /\ d.io.fails = 1 => r.io.files = d.io.files
          /\ d.io.fails # 1 => r.io.files = [p \in DOMAIN d.io.files \ {h} |-> d.io.files[p]]
          /\ r.io.fails = IF d.io.fails > 0 THEN d.io.fails - 1 ELSE 0
      BY <1>1, <3>1, Removes
    <3>3. f > 0 => r.io.fails = 0
      BY <1>7 DEF Called
    <3> HIDE DEF h
    <3>4. f \in {0, 1}
      BY <1>1, <3>2, <3>3
    <3>5. h \in DOMAIN r.io.files <=> h \in stranded'
      BY <1>1, <1>11, <2>2, <3>1, <3>2, <3>4
    <3>6. job' = i
      BY <1>5, <1>7, <2>2, <3>1
    <3> QED BY <1>5, <3>5, <3>6 DEF Gone, h
  <2> QED BY <2>1, <2>2
<1> QED BY <1>7, <1>8, <1>10, <1>12, <1>13, <1>14, SentInv DEF d

LEMMA WriteSectorInv ==
    ASSUME DosInv, NEW f \in Nat, WriteSector(f)
    PROVE  DosInv'
<1> DEFINE d == ImageFailing(f)
           S == job.file.sectors
           x == S[job.k]
           w == [bytes |-> SectorBytes(job.file.bytes, job.k), next |-> Link(S, job.k)]
           r == SectorWrite(d, job)
           i == IF job.k < Len(S) THEN [job EXCEPT !.k = @ + 1] ELSE [job EXCEPT !.phase = "vtoc"]
           next == IF job.kind = "update" THEN NoJob ELSE i
<1>1. d \in Images /\ HandleInv(d.io) /\ d.error = FALSE /\ DiskInv(d, dos, job)
  BY FailingIs
<1> HIDE DEF d
<1>2. job.phase = "data"
  BY DEF WriteSector
<1>3. SectorSends(d, dos, job)
  BY <1>1, <1>2, SectorSent
<1>4. job # NoJob /\ Operation(dos, job)
  BY <1>1, <1>2, NoJobIs DEF DiskInv
<1>5. i # NoJob /\ i.kind = job.kind
  <2>1. [job EXCEPT !.phase = "vtoc"] # NoJob /\ [job EXCEPT !.phase = "vtoc"].kind = job.kind
    <3>1. Advanced(dos, job, "vtoc", [job EXCEPT !.phase = "vtoc"])
      BY ONLY <1>4, PhaseIs
    <3> QED BY ONLY <3>1 DEF Advanced, GoesOn
  <2>2. [job EXCEPT !.k = @ + 1] # NoJob /\ [job EXCEPT !.k = @ + 1].kind = job.kind
    BY <1>2, <1>4, NextSectorIs DEF GoesOn
  <2> QED BY <2>1, <2>2
<1> HIDE DEF i
<1>6. x \in DataSectors
  <2>1. S \in Seq(DataSectors) /\ job.k \in 1 .. Len(S)
    BY <1>1, <1>2, ChainAt
  <2> QED BY <2>1
<1>7. r = Write(d, x, w)
  <2>1. x # VTOC /\ x # Dir
    BY <1>6, Sizes
  <2> HIDE DEF x
  <2> QED BY <2>1, Zenon DEF Write, SectorWrite, x
<1>8. /\ Called(r, f) /\ UNCHANGED jobs
      /\ IF r.error THEN UNCHANGED <<dos, job>>
         ELSE job' = next /\ dos' = (IF next = NoJob THEN Finished ELSE dos)
  <2>1. Send(f, x, w, next)
    BY Zenon DEF WriteSector, i
  <2> HIDE DEF r, next, x, w
  <2> QED BY <1>7, <2>1 DEF Send, d
<1> HIDE DEF r
<1>9. /\ r \in Images /\ HandleInv(r.io)
      /\ IF r.error THEN Leads(d, dos, job, r, dos, job)
         ELSE IF job.kind = "update" THEN Leads(d, dos, job, r, Done(dos, job), NoJob)
         ELSE Leads(d, dos, job, r, dos, i)
  BY <1>3, Zenon DEF SectorSends, r, i
<1>10. Finished = Done(dos, job)
  BY Zenon DEF Finished, Done
<1>11. Leads(d, dos, job, r, dos', job')
  <2>1. CASE r.error
    BY <1>8, <1>9, <2>1
  <2>2. CASE ~r.error /\ job.kind = "update"
    BY <1>8, <1>9, <1>10, <2>2
  <2>3. CASE ~r.error /\ job.kind # "update"
    BY <1>5, <1>8, <1>9, <2>3
  <2> QED BY <2>1, <2>2, <2>3
<1>12. stranded' = stranded
  BY DEF WriteSector
<1>13. job.kind # "erase" /\ job'.kind \in {job.kind, "none"}
  <2>1. AtData(d, dos, job)
    BY <1>1, <1>2, <1>4 DEF DiskInv, Progress
  <2>2. job.kind # "erase"
    BY <2>1 DEF AtData, Outputs
  <2> QED BY <1>5, <1>8, <2>2 DEF NoJob
<1>14. Gone(r, job, stranded') /\ Gone(r, job', stranded')
  BY <1>13 DEF Gone
<1> QED BY <1>8, <1>9, <1>11, <1>12, <1>14, SentInv DEF d

LEMMA WriteVTOCInv ==
    ASSUME DosInv, NEW f \in Nat, WriteVTOC(f)
    PROVE  DosInv'
<1> DEFINE d == ImageFailing(f)
           r == [d EXCEPT !.vtoc = FreeThen(d, dos, job)]
           i == [job EXCEPT !.phase = "close"]
           next == IF job.kind = "erase" THEN NoJob ELSE i
<1>1. /\ d \in Images /\ HandleInv(d.io) /\ d.error = FALSE /\ DiskInv(d, dos, job) /\ d.vtoc = vtoc
      /\ Gone(d, job, stranded)
  BY FailingIs
<1> HIDE DEF d
<1>2. job.phase = "vtoc"
  BY DEF WriteVTOC
<1>3. VTOCSends(d, dos, job)
  BY <1>1, <1>2, VTOCSent
<1>4. job # NoJob /\ Operation(dos, job)
  BY <1>1, <1>2, NoJobIs DEF DiskInv
<1>5. i # NoJob /\ i.phase = "close"
  <2>1. Advanced(dos, job, "close", i)
    BY ONLY <1>4, PhaseIs
  <2> QED BY ONLY <2>1 DEF Advanced
<1> HIDE DEF i
<1>6. FreeAfter = FreeThen(d, dos, job)
  BY <1>1 DEF FreeAfter, FreeThen
<1>7. r = Write(d, VTOC, FreeAfter)
  BY <1>6, Zenon DEF Write
<1>8. /\ Called(r, f) /\ UNCHANGED jobs
      /\ IF r.error THEN UNCHANGED <<dos, job>>
         ELSE job' = next /\ dos' = (IF next = NoJob THEN Finished ELSE dos)
  <2>1. Send(f, VTOC, FreeAfter, next)
    BY Zenon DEF WriteVTOC, i
  <2> HIDE DEF r, next
  <2> QED BY <1>7, <2>1 DEF Send, d
<1>12. r.io = d.io
  BY <1>1 DEF Images
<1> HIDE DEF r
<1>9. /\ r \in Images /\ HandleInv(r.io) /\ ~r.error
      /\ IF job.kind = "erase" THEN Leads(d, dos, job, r, Done(dos, job), NoJob)
         ELSE Leads(d, dos, job, r, dos, i)
  BY <1>3, Zenon DEF VTOCSends, r, i
<1>10. Finished = Done(dos, job)
  BY Zenon DEF Finished, Done
<1>11. Leads(d, dos, job, r, dos', job')
  <2>1. CASE job.kind = "erase"
    BY <1>8, <1>9, <1>10, <2>1
  <2>2. CASE job.kind # "erase"
    BY <1>5, <1>8, <1>9, <2>2
  <2> QED BY <2>1, <2>2
<1>13. stranded' = stranded
  BY DEF WriteVTOC
<1>14. Gone(r, job, stranded') /\ Gone(r, job', stranded')
  <2>1. Gone(r, job, stranded')
    BY <1>1, <1>12, <1>13 DEF Gone
  <2>2. job'.phase # "vtoc"
    BY <1>5, <1>8, <1>9, NoJobIs
  <2> QED BY <2>1, <2>2 DEF Gone
<1> QED BY <1>8, <1>9, <1>11, <1>13, <1>14, SentInv DEF d

LEMMA CloseEntryInv ==
    ASSUME DosInv, NEW f \in Nat, CloseEntry(f)
    PROVE  DosInv'
<1> DEFINE d == ImageFailing(f)
           S == job.file.sectors
           entry == EntryOf("closed", S, Len(S), job.name)
           r == DirWrite(d, [d.dirents EXCEPT ![job.file.slot] = entry])
<1>1. /\ d \in Images /\ HandleInv(d.io) /\ d.error = FALSE /\ DiskInv(d, dos, job)
      /\ d.dirents = dirents
  BY FailingIs
<1> HIDE DEF d
<1>2. job.phase = "close"
  BY DEF CloseEntry
<1>3. CloseSends(d, dos, job)
  BY <1>1, <1>2, CloseSent
<1>4. r = Write(d, Dir, [dirents EXCEPT ![job.file.slot] = entry])
  BY <1>1 DEF Write, Dir, VTOC
<1>5. /\ Called(r, f) /\ UNCHANGED jobs
      /\ IF r.error THEN UNCHANGED <<dos, job>> ELSE job' = NoJob /\ dos' = Finished
  <2>1. Send(f, Dir, [dirents EXCEPT ![job.file.slot] = entry], NoJob)
    BY Zenon DEF CloseEntry
  <2> HIDE DEF r, entry
  <2> QED BY <1>4, <2>1 DEF Send, d
<1> HIDE DEF r
<1>6. r \in Images /\ HandleInv(r.io) /\ ~r.error /\ Leads(d, dos, job, r, Done(dos, job), NoJob)
  BY <1>3, Zenon DEF CloseSends, r
<1>7. Finished = Done(dos, job)
  BY Zenon DEF Finished, Done
<1>8. stranded' = stranded
  BY DEF CloseEntry
<1>9. Gone(r, job, stranded') /\ Gone(r, job', stranded')
  BY <1>2, <1>5, <1>6, NoJobIs DEF Gone
<1> QED BY <1>5, <1>6, <1>7, <1>8, <1>9, SentInv DEF d

LEMMA GuestReadInv ==
    ASSUME DosInv, NEW f \in Nat, NEW x, GuestRead(x, f)
    PROVE  DosInv'
<1> DEFINE d == ImageFailing(f)
           r == Read(d, x)
<1>1. /\ d \in Images /\ HandleInv(d.io) /\ DiskInv(d, dos, job) /\ Gone(d, job, stranded)
  BY FailingIs
<1> HIDE DEF d
<1>2. \A e \in 1 .. Slots : InUse(d.stitched[e].flags) => d.stitched[e].host \in Paths
  <2> SUFFICES ASSUME NEW e \in 1 .. Slots, InUse(d.stitched[e].flags) PROVE d.stitched[e].host \in Paths
    OBVIOUS
  <2>1. CASE e = job.file.slot
    <3>1. job # NoJob
      BY <2>1, NoJobIs
    <3>2. Operation(dos, job) /\ Progress(d, dos, job)
      BY <1>1, <3>1 DEF DiskInv
    <3>3. WellMade(job.file) /\ job.file.host \in Paths /\ job.phase \in {"entry", "data", "vtoc", "close"}
      BY <3>2, FileIs DEF Operation, Jobs
    <3>4. CASE job.phase = "entry"
      <4>1. job.kind # "create"
        BY <2>1, <3>2, <3>4 DEF Progress, AtEntry
      <4>2. d.stitched[job.file.slot].host = job.file.host
        BY <1>1, <3>4, <4>1, FindsStored
      <4> QED BY <2>1, <3>3, <4>2
    <3>5. CASE job.phase = "data"
      BY <2>1, <3>2, <3>3, <3>5 DEF Progress, AtData
    <3>6. CASE job.phase \in {"vtoc", "close"}
      <4>1. Ended(d, job)
        BY <3>2, <3>6 DEF Progress
      <4>2. job.kind # "erase"
        <5>1. [NoFile EXCEPT !.flags = "deleted"].flags = "deleted"
          BY DEF NoFile
        <5> QED BY <2>1, <4>1, <5>1 DEF Ended, InUse
      <4> QED BY <2>1, <3>3, <4>1, <4>2 DEF Ended
    <3> QED BY <3>3, <3>4, <3>5, <3>6
  <2>2. CASE e # job.file.slot
    <3>1. CASE Empty(d, e)
      BY <3>1 DEF Empty
    <3>2. CASE \E n \in DOMAIN dos \ {job.name} : dos[n].slot = e /\ Stored(d, n, dos[n])
      <4>1. PICK n \in DOMAIN dos \ {job.name} : dos[n].slot = e /\ Stored(d, n, dos[n])
        BY <3>2
      <4>2. WellMade(dos[n])
        BY <1>1 DEF DiskInv, Catalogue
      <4> QED BY <4>1, <4>2, FileIs, StoredQuiet
    <3> QED BY <1>1, <2>2, <3>1, <3>2, OtherSlots
  <2> QED BY <2>1, <2>2
<1>3. /\ r \in Images /\ HandleInv(r.io) /\ Same(d, r)
  BY <1>1, <1>2, Reading DEF Same
<1> HIDE DEF r
<1>4. Called(r, f) /\ UNCHANGED <<dos, job, jobs, stranded>>
  BY DEF GuestRead, r, d
<1>5. Leads(d, dos, job, r, dos', job')
  BY <1>1, <1>3, <1>4, SameDisk DEF Leads
<1>6. Gone(r, job, stranded') /\ Gone(r, job', stranded')
  BY <1>1, <1>3, <1>4, SameDisk
<1> QED BY <1>3, <1>4, <1>5, <1>6, SentInv DEF d

-----------------------------------------------------------------------------
(* An operation begins. *)

(* Between two operations every file is at rest. *)
LEMMA AtRest ==
    ASSUME DosInv, job = NoJob
    PROVE  /\ Catalogue(dos) /\ NoName \notin DOMAIN dos
           /\ vtoc = DataSectors \ TakenBy(dos)
           /\ \A n \in DOMAIN dos : Stored(Image, n, dos[n])
           /\ \A e \in 1 .. Slots : (\A n \in DOMAIN dos : dos[n].slot # e) => Empty(Image, e)
           /\ GuestApart => HostsInv(Image, dos, NoJob, stranded)
<1>1. DiskInv(Image, dos, NoJob) /\ (GuestApart => HostsInv(Image, dos, NoJob, stranded))
  BY DEF DosInv
<1>2. NoName \notin DOMAIN dos
  BY <1>1 DEF DiskInv, Catalogue
<1>3. \A n \in DOMAIN dos : Stored(Image, n, dos[n])
  BY <1>1, <1>2, NoJobIs DEF DiskInv
<1>4. \A e \in 1 .. Slots : (\A n \in DOMAIN dos : dos[n].slot # e) => Empty(Image, e)
  BY <1>1, NoJobIs DEF DiskInv
<1>5. vtoc = DataSectors \ TakenBy(dos)
  BY <1>1, NoJobIs, ImageIs DEF DiskInv
<1> QED BY <1>1, <1>2, <1>3, <1>4, <1>5 DEF DiskInv

LEMMA BegunInv ==
    ASSUME DosInv, job = NoJob, NEW j, job' = j, jobs' = jobs + 1,
           UNCHANGED <<io, vtoc, dirents, stitched, dos, faults, stranded>>,
           Operation(dos, j), Progress(Image, dos, j), j # NoJob, j.phase \in {"entry", "data"},
           GuestApart => j.file.host \notin LeftOut
    PROVE  DosInv'
<1>1. Image' = Image /\ dos' = dos /\ io' = io
  BY DEF Image
<1>2. DiskInv(Image, dos, NoJob) /\ (GuestApart => HostsInv(Image, dos, NoJob, stranded))
  BY DEF DosInv
<1>3. DiskInv(Image, dos, j) /\ (GuestApart => HostsInv(Image, dos, j, stranded))
  BY <1>2, BeginInv
<1>4. Image \in Images /\ HandleInv(io) /\ jobs + 1 \in Nat /\ Gone(Image, j, stranded)
  BY DEF DosInv, Gone
<1> QED BY <1>1, <1>3, <1>4 DEF DosInv

LEMMA NameIs ==
    ASSUME NEW n \in Names
    PROVE  n \in DosNames \ {NoName} /\ HostName(n) \in Paths
BY DosAssumption DEF DosNames

(* The lowest free sectors, in order. *)
LEMMA SectorsFrom ==
    ASSUME NEW free, free \subseteq DataSectors, NEW n \in Nat, n <= Cardinality(free)
    PROVE  LET S == Ordered(Lowest(free, n))
           IN  S \in Seq(DataSectors) /\ Distinct(S) /\ Len(S) = n /\ Range(S) \subseteq free
<1> DEFINE T == Lowest(free, n)
           S == Ordered(T)
<1>1. free \subseteq Int /\ IsFiniteSet(free)
  <2>1. IsFiniteSet(DataSectors) /\ DataSectors \subseteq Int
    BY Sizes
  <2>2. IsFiniteSet(free)
    BY <2>1, FS_Subset, Zenon
  <2> QED BY <2>1, <2>2
<1>2. T \subseteq free /\ IsFiniteSet(T) /\ Cardinality(T) = n
  BY <1>1, LowestIs
<1> HIDE DEF T
<1>3. T \subseteq Int
  BY <1>1, <1>2
<1>4. /\ S \in Seq(T) /\ Len(S) = Cardinality(T) /\ Range(S) = T
      /\ \A a, b \in 1 .. Len(S) : S[a] = S[b] => a = b
  BY <1>2, <1>3, OrderedIs
<1> HIDE DEF S
<1>5. S \in Seq(DataSectors)
  BY <1>2, <1>4
<1> QED BY <1>2, <1>4, <1>5 DEF Distinct, S, T

LEMMA NewBytesIs ==
    ASSUME jobs \in Nat, NEW n \in Nat
    PROVE  NewBytes(n) \in Seq(Int) /\ Len(NewBytes(n)) = n
BY DEF NewBytes

LEMMA EntryIs ==
    ASSUME NEW flags \in Flags, NEW S \in Seq(DataSectors), Len(S) > 0, NEW count \in Nat, NEW name \in DosNames
    PROVE  LET entry == EntryOf(flags, S, count, name)
           IN  /\ entry \in Dirents /\ entry.flags = flags /\ entry.count = count /\ entry.name = name
               /\ entry.start = S[1]
<1>1. S[1] \in DataSectors
  OBVIOUS
<1>2. S[1] \in Int
  <2>1. \A x \in DataSectors : x \in Int
    BY Sizes
  <2> QED BY <1>1, <2>1, Zenon
<1> QED BY <1>2 DEF EntryOf, Dirents

(* One lemma for each operation the guest begins. *)
LEMMA CreateFileInv ==
    ASSUME ~MayShareHost, DosInv, NEW name \in Names, NEW length \in Lengths, CreateFile(name, length)
    PROVE  DosInv'
<1> DEFINE n     == SectorsFor(length)
           S     == Ordered(Lowest(vtoc, n))
           e     == Min(FreeSlots)
           bytes == NewBytes(length)
           f     == [slot |-> e, sectors |-> S, bytes |-> bytes, host |-> HostName(name)]
           entry == EntryOf("open", S, 0, name)
           j     == [kind |-> "create", name |-> name, as |-> name, entry |-> entry, phase |-> "entry",
                     k |-> 1, file |-> f]
<1>1. /\ name \notin DOMAIN dos /\ FreeSlots # {} /\ n <= Cardinality(vtoc) /\ HostName(name) \notin HostsOf(dos)
      /\ Begin("create", name, name, "entry", entry, 1, f)
  BY Zenon DEF CreateFile
<1>2. /\ job = NoJob /\ jobs' = jobs + 1 /\ job' = j
      /\ UNCHANGED <<io, vtoc, dirents, stitched, dos, faults, stranded>>
  BY <1>1, Zenon DEF Begin
<1>3. /\ Catalogue(dos) /\ vtoc = DataSectors \ TakenBy(dos)
      /\ \A m \in DOMAIN dos : Stored(Image, m, dos[m])
      /\ \A a \in 1 .. Slots : (\A m \in DOMAIN dos : dos[m].slot # a) => Empty(Image, a)
  BY <1>2, AtRest
<1>4. length \in Nat \ {0} /\ n \in Nat \ {0}
  BY DosAssumption, SectorsForIs
<1> HIDE DEF n
<1>5. S \in Seq(DataSectors) /\ Distinct(S) /\ Len(S) = n /\ Range(S) \subseteq vtoc
  BY <1>1, <1>3, <1>4, SectorsFrom
<1>6. e \in FreeSlots /\ e \in 1 .. Slots /\ ~InUse(dirents[e].flags)
  <2>1. FreeSlots \subseteq Nat
    BY Sizes DEF FreeSlots
  <2>2. e \in FreeSlots
    BY <1>1, <2>1, MinIs
  <2> HIDE DEF e
  <2> QED BY <2>2 DEF FreeSlots
<1>7. bytes \in Seq(Int) /\ Len(bytes) = length
  BY <1>4, NewBytesIs DEF DosInv
<1>8. name \in DosNames \ {NoName} /\ HostName(name) \in Paths
  BY NameIs
<1>9. entry \in Dirents /\ entry.flags = "open" /\ entry.start = S[1] /\ entry.name = name
  <2>1. "open" \in Flags /\ Len(S) > 0
    BY <1>4, <1>5 DEF Flags
  <2> HIDE DEF S
  <2> QED BY <1>5, <1>8, <2>1, EntryIs
<1> HIDE DEF S, e, bytes, entry
<1>10. WellMade(f)
  BY <1>5, <1>6, <1>7, <1>8 DEF WellMade, Files, n
<1>11. \A m \in DOMAIN dos : dos[m].slot # e
  <2> SUFFICES ASSUME NEW m \in DOMAIN dos, dos[m].slot = e PROVE FALSE
    OBVIOUS
  <2>1. Stored(Image, m, dos[m])
    BY <1>3
  <2>2. dirents[e].flags = "closed"
    BY <2>1, ImageIs DEF Stored, EntryOf
  <2> QED BY <1>6, <2>2 DEF InUse
<1>12. \A m \in DOMAIN dos : Apart(f, dos[m])
  <2> SUFFICES ASSUME NEW m \in DOMAIN dos PROVE Apart(f, dos[m])
    OBVIOUS
  <2>1. f.slot # dos[m].slot /\ f.host # dos[m].host
    BY <1>1, <1>11 DEF HostsOf
  <2>2. Range(dos[m].sectors) \subseteq TakenBy(dos)
    BY DEF TakenBy
  <2>3. Range(f.sectors) \cap Range(dos[m].sectors) = {}
    BY <1>3, <1>5, <2>2
  <2> QED BY <2>1, <2>3 DEF Apart
<1>13. Operation(dos, j)
  <2>1. j \in Jobs
    BY <1>8, <1>9, <1>10 DEF Jobs, Outputs, WellMade
  <2> HIDE DEF f
  <2>2. Len(f.bytes) > 0 /\ f.host = HostName(name) /\ f.sectors[1] = S[1]
    BY <1>4, <1>7 DEF f
  <2> QED BY <1>1, <1>9, <1>10, <1>12, <2>1, <2>2 DEF Operation
<1>14. Progress(Image, dos, j)
  <2>1. Empty(Image, e)
    BY <1>3, <1>6, <1>11
  <2>2. AtEntry(Image, dos, j)
    BY <1>6, <2>1, ImageIs DEF AtEntry, Empty
  <2> QED BY <2>2 DEF Progress
<1>15. j # NoJob /\ j.phase \in {"entry", "data"} /\ (GuestApart => j.file.host \notin LeftOut)
  BY NoJobIs DEF GuestApart
<1> HIDE DEF j
<1> QED BY <1>2, <1>13, <1>14, <1>15, BegunInv

(* A file of the guest, between two operations. *)
LEMMA FoundFile ==
    ASSUME DosInv, job = NoJob, NEW name \in DOMAIN dos
    PROVE  LET f == dos[name]
           IN  /\ name \in DosNames \ {NoName} /\ WellMade(f) /\ Stored(Image, name, f)
               /\ \A m \in DOMAIN dos \ {name} : Apart(f, dos[m])
               /\ vtoc \subseteq DataSectors
               /\ \A m \in DOMAIN dos : Range(dos[m].sectors) \cap vtoc = {}
               /\ GuestApart => f.host \notin LeftOut
<1>1. /\ Catalogue(dos) /\ vtoc = DataSectors \ TakenBy(dos) /\ Stored(Image, name, dos[name])
      /\ GuestApart => HostsInv(Image, dos, NoJob, stranded)
  BY AtRest
<1>2. name \in DosNames \ {NoName} /\ WellMade(dos[name]) /\ \A m \in DOMAIN dos \ {name} : Apart(dos[name], dos[m])
  BY <1>1 DEF Catalogue
<1>3. \A m \in DOMAIN dos : Range(dos[m].sectors) \subseteq TakenBy(dos)
  BY DEF TakenBy
<1>4. GuestApart => dos[name].host \notin LeftOut
  BY <1>1 DEF HostsInv, HostsOf
<1> QED BY <1>1, <1>2, <1>3, <1>4

(* It may get other sectors, of its own and the free ones, and other bytes. *)
LEMMA ChangedFile ==
    ASSUME DosInv, job = NoJob, NEW name \in DOMAIN dos, NEW g \in Files,
           g.slot = dos[name].slot, g.host = dos[name].host,
           Distinct(g.sectors), Len(g.sectors) = SectorsFor(Len(g.bytes)),
           Range(g.sectors) \subseteq vtoc \cup Range(dos[name].sectors)
    PROVE  WellMade(g) /\ \A m \in DOMAIN dos \ {name} : Apart(g, dos[m])
<1> DEFINE f == dos[name]
<1>1. /\ \A m \in DOMAIN dos \ {name} : Apart(f, dos[m])
      /\ \A m \in DOMAIN dos : Range(dos[m].sectors) \cap vtoc = {}
  BY FoundFile
<1>2. WellMade(g)
  BY DEF WellMade
<1>3. ASSUME NEW m \in DOMAIN dos \ {name} PROVE Apart(g, dos[m])
  <2>1. Apart(f, dos[m])
    BY <1>1
  <2>2. Range(dos[m].sectors) \cap vtoc = {} /\ Range(f.sectors) \cap Range(dos[m].sectors) = {}
    BY <1>1, <2>1 DEF Apart
  <2>3. Range(g.sectors) \cap Range(dos[m].sectors) = {}
    BY <2>2
  <2> QED BY <2>1, <2>3 DEF Apart
<1> QED BY <1>2, <1>3

LEMMA ReplaceFileInv ==
    ASSUME DosInv, NEW name \in Names, NEW length \in Lengths, NEW opened, ReplaceFile(name, length, opened)
    PROVE  DosInv'
<1> DEFINE o     == dos[name]
           n     == SectorsFor(length)
           free  == vtoc \cup Range(o.sectors)
           S     == Ordered(Lowest(free, n))
           bytes == NewBytes(length)
           f     == [o EXCEPT !.sectors = S, !.bytes = bytes]
           entry == EntryOf("open", S, opened, name)
           j     == [kind |-> "replace", name |-> name, as |-> name, entry |-> entry, phase |-> "entry",
                     k |-> 1, file |-> f]
<1>1. /\ name \in DOMAIN dos /\ n <= Cardinality(free) /\ opened \in {1, Len(o.sectors)}
      /\ Begin("replace", name, name, "entry", entry, 1, f)
  BY Zenon DEF ReplaceFile
<1>2. /\ job = NoJob /\ jobs' = jobs + 1 /\ job' = j
      /\ UNCHANGED <<io, vtoc, dirents, stitched, dos, faults, stranded>>
  BY <1>1, Zenon DEF Begin
<1>3. /\ name \in DosNames \ {NoName} /\ WellMade(o) /\ Stored(Image, name, o)
      /\ vtoc \subseteq DataSectors /\ (GuestApart => o.host \notin LeftOut)
  BY <1>1, <1>2, FoundFile
<1>4. length \in Nat \ {0} /\ n \in Nat \ {0}
  BY DosAssumption, SectorsForIs
<1> HIDE DEF n
<1>5. Len(o.sectors) \in Nat \ {0} /\ free \subseteq DataSectors
  <2>1. o.sectors \in Seq(DataSectors) /\ Len(o.sectors) \in Nat \ {0}
    BY <1>3, FileIs
  <2> HIDE DEF o
  <2> QED BY <1>3, <2>1 DEF Range
<1> HIDE DEF free
<1>6. S \in Seq(DataSectors) /\ Distinct(S) /\ Len(S) = n /\ Range(S) \subseteq free
  BY <1>1, <1>4, <1>5, SectorsFrom
<1>7. bytes \in Seq(Int) /\ Len(bytes) = length
  BY <1>4, NewBytesIs DEF DosInv
<1> HIDE DEF S, bytes
<1>8. /\ WellMade(f) /\ f.slot = o.slot /\ f.host = o.host /\ f.sectors = S /\ f.bytes = bytes
      /\ \A m \in DOMAIN dos \ {name} : Apart(f, dos[m])
  <2>1. o \in Files
    BY <1>3 DEF WellMade
  <2>2. f \in Files /\ f.slot = o.slot /\ f.host = o.host /\ f.sectors = S /\ f.bytes = bytes
    <3> HIDE DEF o
    <3> QED BY <1>6, <1>7, <2>1 DEF Files
  <2> HIDE DEF f
  <2>3. /\ Distinct(f.sectors) /\ Len(f.sectors) = SectorsFor(Len(f.bytes))
        /\ Range(f.sectors) \subseteq vtoc \cup Range(o.sectors)
    BY <1>6, <1>7, <2>2 DEF n, free
  <2> QED BY <1>1, <1>2, <2>2, <2>3, ChangedFile
<1>9. /\ entry \in Dirents /\ entry.flags = "open" /\ entry.start = S[1] /\ entry.name = name
      /\ entry.count = opened
  <2>1. "open" \in Flags /\ Len(S) > 0 /\ opened \in Nat
    BY <1>1, <1>4, <1>5, <1>6 DEF Flags
  <2> QED BY <1>3, <1>6, <2>1, EntryIs
<1> HIDE DEF f, entry
<1>10. Operation(dos, j)
  <2>1. j \in Jobs
    BY <1>3, <1>8, <1>9 DEF Jobs, Outputs, WellMade
  <2>2. Len(f.bytes) > 0 /\ f.sectors[1] = S[1]
    BY <1>4, <1>7, <1>8
  <2> QED BY <1>1, <1>8, <1>9, <2>1, <2>2 DEF Operation
<1>11. Progress(Image, dos, j)
  <2>1. AtEntry(Image, dos, j)
    BY <1>1, <1>3, <1>9 DEF AtEntry
  <2> QED BY <2>1 DEF Progress
<1>12. j # NoJob /\ j.phase \in {"entry", "data"} /\ (GuestApart => j.file.host \notin LeftOut)
  BY <1>3, <1>8, NoJobIs
<1> HIDE DEF j
<1> QED BY <1>2, <1>10, <1>11, <1>12, BegunInv

LEMMA EraseFileInv ==
    ASSUME DosInv, NEW name \in Names, EraseFile(name)
    PROVE  DosInv'
<1> DEFINE f     == dos[name]
           entry == EntryOf("deleted", f.sectors, Len(f.sectors), name)
           j     == [kind |-> "erase", name |-> name, as |-> name, entry |-> entry, phase |-> "entry",
                     k |-> 0, file |-> f]
<1>1. name \in DOMAIN dos /\ Begin("erase", name, name, "entry", entry, 0, f)
  BY Zenon DEF EraseFile
<1>2. /\ job = NoJob /\ jobs' = jobs + 1 /\ job' = j
      /\ UNCHANGED <<io, vtoc, dirents, stitched, dos, faults, stranded>>
  BY <1>1, Zenon DEF Begin
<1>3. /\ name \in DosNames \ {NoName} /\ WellMade(f) /\ Stored(Image, name, f)
      /\ \A m \in DOMAIN dos \ {name} : Apart(f, dos[m])
      /\ GuestApart => f.host \notin LeftOut
  BY <1>1, <1>2, FoundFile
<1>4. entry \in Dirents /\ entry.flags = "deleted" /\ entry.start = f.sectors[1] /\ entry.name = name
  <2>1. f.sectors \in Seq(DataSectors) /\ Len(f.sectors) \in Nat \ {0} /\ "deleted" \in Flags
    BY <1>3, FileIs DEF Flags
  <2>2. Len(f.sectors) > 0
    BY <2>1
  <2> HIDE DEF f
  <2> QED BY <1>3, <2>1, <2>2, EntryIs
<1> HIDE DEF entry
<1>5. Operation(dos, j)
  <2>1. j \in Jobs
    BY <1>3, <1>4 DEF Jobs, Outputs, WellMade
  <2> QED BY <1>1, <1>3, <1>4, <2>1 DEF Operation
<1>6. Progress(Image, dos, j)
  BY <1>3 DEF Progress, AtEntry
<1>7. j # NoJob /\ j.phase \in {"entry", "data"} /\ (GuestApart => j.file.host \notin LeftOut)
  BY <1>3, NoJobIs
<1> HIDE DEF j
<1> QED BY <1>2, <1>5, <1>6, <1>7, BegunInv

LEMMA RenameFileInv ==
    ASSUME DosInv, NEW name \in Names, NEW new \in Names, RenameFile(name, new)
    PROVE  DosInv'
<1> DEFINE f     == dos[name]
           entry == EntryOf("closed", f.sectors, Len(f.sectors), new)
           j     == [kind |-> "rename", name |-> name, as |-> new, entry |-> entry, phase |-> "entry",
                     k |-> 0, file |-> f]
<1>1. /\ name \in DOMAIN dos /\ new \notin DOMAIN dos
      /\ Begin("rename", name, new, "entry", entry, 0, f)
  BY Zenon DEF RenameFile
<1>2. /\ job = NoJob /\ jobs' = jobs + 1 /\ job' = j
      /\ UNCHANGED <<io, vtoc, dirents, stitched, dos, faults, stranded>>
  BY <1>1, Zenon DEF Begin
<1>3. /\ name \in DosNames \ {NoName} /\ WellMade(f) /\ Stored(Image, name, f)
      /\ \A m \in DOMAIN dos \ {name} : Apart(f, dos[m])
      /\ GuestApart => f.host \notin LeftOut
  BY <1>1, <1>2, FoundFile
<1>4. /\ entry \in Dirents /\ entry.flags = "closed" /\ entry.start = f.sectors[1] /\ entry.name = new
      /\ entry.count = Len(f.sectors) /\ new \in DosNames \ {NoName}
  <2>1. f.sectors \in Seq(DataSectors) /\ Len(f.sectors) \in Nat \ {0} /\ "closed" \in Flags
    BY <1>3, FileIs DEF Flags
  <2>2. Len(f.sectors) > 0 /\ new \in DosNames \ {NoName}
    BY <2>1, NameIs
  <2> HIDE DEF f
  <2> QED BY <2>1, <2>2, EntryIs
<1> HIDE DEF entry
<1>5. Operation(dos, j)
  <2>1. j \in Jobs
    BY <1>3, <1>4 DEF Jobs, Outputs, WellMade
  <2> QED BY <1>1, <1>3, <1>4, <2>1 DEF Operation
<1>6. Progress(Image, dos, j)
  BY <1>3, <1>4 DEF Progress, AtEntry
<1>7. j # NoJob /\ j.phase \in {"entry", "data"} /\ (GuestApart => j.file.host \notin LeftOut)
  BY <1>3, NoJobIs
<1> HIDE DEF j
<1> QED BY <1>2, <1>5, <1>6, <1>7, BegunInv

(* Two chains that share no sector, one after the other. *)
LEMMA Joined ==
    ASSUME NEW a \in Seq(DataSectors), NEW b \in Seq(DataSectors), Distinct(a), Distinct(b),
           Range(a) \cap Range(b) = {}
    PROVE  LET s == a \o b
           IN  /\ s \in Seq(DataSectors) /\ Len(s) = Len(a) + Len(b) /\ Distinct(s)
               /\ Range(s) \subseteq Range(a) \cup Range(b)
               /\ SubSeq(s, 1, Len(a)) = a
<1> DEFINE s == a \o b
<1>1. /\ s \in Seq(DataSectors) /\ Len(s) = Len(a) + Len(b) /\ Len(a) \in Nat /\ Len(b) \in Nat
      /\ \A i \in 1 .. Len(a) : s[i] = a[i]
      /\ \A i \in Len(a) + 1 .. Len(a) + Len(b) : s[i] = b[i - Len(a)]
      /\ DOMAIN a = 1 .. Len(a) /\ DOMAIN b = 1 .. Len(b) /\ DOMAIN s = 1 .. Len(s)
  OBVIOUS
<1> HIDE DEF s
<1>2. \A i \in 1 .. Len(s) : \/ i \in 1 .. Len(a) /\ s[i] = a[i]
                             \/ i - Len(a) \in 1 .. Len(b) /\ i > Len(a) /\ s[i] = b[i - Len(a)]
  BY <1>1
<1>3. \A i \in 1 .. Len(a), j \in 1 .. Len(b) : a[i] # b[j]
  BY <1>1 DEF Range
<1>4. ASSUME NEW i \in 1 .. Len(s), NEW j \in 1 .. Len(s), s[i] = s[j] PROVE i = j
  <2>1. CASE i \in 1 .. Len(a) /\ s[i] = a[i]
    <3>1. CASE j \in 1 .. Len(a) /\ s[j] = a[j]
      BY <1>4, <2>1, <3>1 DEF Distinct
    <3>2. CASE j - Len(a) \in 1 .. Len(b) /\ s[j] = b[j - Len(a)]
      BY <1>3, <1>4, <2>1, <3>2
    <3> QED BY <1>2, <3>1, <3>2
  <2>2. CASE i - Len(a) \in 1 .. Len(b) /\ s[i] = b[i - Len(a)]
    <3>1. CASE j \in 1 .. Len(a) /\ s[j] = a[j]
      BY <1>3, <1>4, <2>2, <3>1
    <3>2. CASE j - Len(a) \in 1 .. Len(b) /\ s[j] = b[j - Len(a)]
      <4>1. i - Len(a) = j - Len(a)
        BY <1>4, <2>2, <3>2 DEF Distinct
      <4> QED BY <1>1, <4>1
    <3> QED BY <1>2, <3>1, <3>2
  <2> QED BY <1>2, <2>1, <2>2
<1>5. Range(s) \subseteq Range(a) \cup Range(b)
  <2> SUFFICES ASSUME NEW i \in 1 .. Len(s) PROVE s[i] \in Range(a) \cup Range(b)
    BY <1>1 DEF Range
  <2>1. CASE i \in 1 .. Len(a) /\ s[i] = a[i]
    BY <1>1, <2>1 DEF Range
  <2>2. CASE i - Len(a) \in 1 .. Len(b) /\ s[i] = b[i - Len(a)]
    <3>1. b[i - Len(a)] \in Range(b)
      BY <1>1, <2>2 DEF Range
    <3> QED BY <2>2, <3>1
  <2> QED BY <1>2, <2>1, <2>2
<1>6. SubSeq(s, 1, Len(a)) = a
  <2> DEFINE n == Len(a)
             u == SubSeq(s, 1, n)
  <2>1. n \in 0 .. Len(s)
    BY <1>1
  <2> HIDE DEF n
  <2>2. u \in Seq(DataSectors) /\ Len(u) = n /\ \A i \in 1 .. n : u[i] = s[i]
    BY <1>1, <2>1, Firsts
  <2> HIDE DEF u
  <2>3. Len(u) = Len(a) /\ \A i \in 1 .. Len(u) : u[i] = a[i]
    BY <1>1, <2>2 DEF n
  <2> QED BY <2>2, <2>3, SameSeq DEF u, n
<1>7. Distinct(s)
  BY <1>4 DEF Distinct
<1> QED BY <1>1, <1>5, <1>6, <1>7 DEF s

LEMMA ExtendFileInv ==
    ASSUME DosInv, NEW name \in Names, NEW length \in Lengths, ExtendFile(name, length)
    PROVE  DosInv'
<1> DEFINE o     == dos[name]
           old   == Len(o.sectors)
           more  == SectorsFor(length) - old
           T     == Ordered(Lowest(vtoc, more))
           S     == o.sectors \o T
           bytes == [k \in 1 .. length |-> IF k <= Len(o.bytes) THEN o.bytes[k] ELSE NewBytes(length)[k]]
           f     == [o EXCEPT !.sectors = S, !.bytes = bytes]
           entry == EntryOf("open", S, old, name)
           j     == [kind |-> "append", name |-> name, as |-> name, entry |-> entry, phase |-> "entry",
                     k |-> old, file |-> f]
<1>1. /\ name \in DOMAIN dos /\ length > Len(o.bytes) /\ more <= Cardinality(vtoc)
      /\ Begin("append", name, name, "entry", entry, old, f)
  BY Zenon DEF ExtendFile
<1>2. /\ job = NoJob /\ jobs' = jobs + 1 /\ job' = j
      /\ UNCHANGED <<io, vtoc, dirents, stitched, dos, faults, stranded>>
  BY <1>1, Zenon DEF Begin
<1>3. /\ name \in DosNames \ {NoName} /\ WellMade(o) /\ Stored(Image, name, o)
      /\ vtoc \subseteq DataSectors /\ (GuestApart => o.host \notin LeftOut)
      /\ Range(o.sectors) \cap vtoc = {}
  BY <1>1, <1>2, FoundFile
<1>4. /\ o \in Files /\ o.sectors \in Seq(DataSectors) /\ Distinct(o.sectors) /\ old \in Nat \ {0}
      /\ old = SectorsFor(Len(o.bytes)) /\ o.bytes \in Seq(Int) /\ Len(o.bytes) \in Nat
  BY <1>3, FileIs DEF WellMade
<1> HIDE DEF o
<1>5. length \in Nat \ {0} /\ SectorsFor(length) \in Nat \ {0} /\ more \in Nat
  <2>1. length \in Nat \ {0}
    BY DosAssumption
  <2>2. SectorsFor(length) \in Nat \ {0}
    BY <2>1, SectorsForIs
  <2>3. SectorsFor(Len(o.bytes)) <= SectorsFor(length)
    BY <1>1, <1>4, <2>1, SectorsForGrows
  <2> HIDE DEF old
  <2> QED BY <1>4, <2>1, <2>2, <2>3
<1>6. T \in Seq(DataSectors) /\ Distinct(T) /\ Len(T) = more /\ Range(T) \subseteq vtoc
  <2> HIDE DEF more
  <2> QED BY <1>1, <1>3, <1>5, SectorsFrom
<1> HIDE DEF T
<1>7. /\ S \in Seq(DataSectors) /\ Len(S) = SectorsFor(length) /\ Distinct(S)
      /\ Range(S) \subseteq vtoc \cup Range(o.sectors) /\ SubSeq(S, 1, old) = o.sectors
  <2>1. Range(o.sectors) \cap Range(T) = {}
    BY <1>3, <1>6
  <2>2. /\ S \in Seq(DataSectors) /\ Len(S) = old + Len(T) /\ Distinct(S)
        /\ Range(S) \subseteq Range(o.sectors) \cup Range(T) /\ SubSeq(S, 1, old) = o.sectors
    BY <1>4, <1>6, <2>1, Joined
  <2> HIDE DEF S
  <2>3. Range(S) \subseteq vtoc \cup Range(o.sectors)
    BY <1>6, <2>2
  <2>4. Len(S) = SectorsFor(length)
    <3> HIDE DEF old
    <3> QED BY <1>4, <1>5, <1>6, <2>2
  <2> QED BY <2>2, <2>3, <2>4
<1> HIDE DEF S
<1>8. /\ bytes \in Seq(Int) /\ Len(bytes) = length /\ Begun(o.bytes, bytes, Len(o.bytes))
  <2>1. NewBytes(length) \in Seq(Int) /\ Len(NewBytes(length)) = length
    BY <1>5, NewBytesIs DEF DosInv
  <2>2. \A k \in 1 .. length : (IF k <= Len(o.bytes) THEN o.bytes[k] ELSE NewBytes(length)[k]) \in Int
    <3> HIDE DEF o
    <3> QED BY <1>4, <2>1
  <2>3. bytes \in Seq(Int) /\ Len(bytes) = length
    BY <1>5, <2>2
  <2>4. \A i \in 1 .. Len(o.bytes) : o.bytes[i] = bytes[i]
    BY <1>1, <1>4, <1>5
  <2> HIDE DEF bytes
  <2> QED BY <1>1, <1>4, <1>5, <2>3, <2>4 DEF Begun
<1> HIDE DEF bytes
<1>9. /\ WellMade(f) /\ f.slot = o.slot /\ f.host = o.host /\ f.sectors = S /\ f.bytes = bytes
      /\ \A m \in DOMAIN dos \ {name} : Apart(f, dos[m])
  <2>1. f \in Files /\ f.slot = o.slot /\ f.host = o.host /\ f.sectors = S /\ f.bytes = bytes
    BY <1>4, <1>7, <1>8 DEF Files
  <2> HIDE DEF f
  <2>2. /\ Distinct(f.sectors) /\ Len(f.sectors) = SectorsFor(Len(f.bytes))
        /\ Range(f.sectors) \subseteq vtoc \cup Range(o.sectors)
    BY <1>7, <1>8, <2>1
  <2> QED BY <1>1, <1>2, <2>1, <2>2, ChangedFile DEF o
<1>10. Len(S) > 0 /\ old <= Len(S)
  <2> HIDE DEF old
  <2> QED BY <1>4, <1>5, <1>7 DEF more
<1>11. /\ entry \in Dirents /\ entry.flags = "open" /\ entry.start = S[1] /\ entry.name = name
       /\ entry.count = old
  <2>1. "open" \in Flags
    BY DEF Flags
  <2> HIDE DEF old
  <2> QED BY <1>3, <1>4, <1>7, <1>10, <2>1, EntryIs
<1> HIDE DEF f, entry
<1>12. Operation(dos, j)
  <2>1. j \in Jobs
    BY <1>3, <1>4, <1>9, <1>11 DEF Jobs, Outputs, WellMade
  <2>2. Len(f.bytes) > 0 /\ f.sectors[1] = S[1]
    BY <1>5, <1>8, <1>9
  <2> QED BY <1>1, <1>9, <1>11, <2>1, <2>2 DEF Operation, o
<1>13. Progress(Image, dos, j)
  <2>1. AtEntry(Image, dos, j)
    <3>1. o.sectors = SubSeq(f.sectors, 1, old) /\ Begun(o.bytes, f.bytes, Len(o.bytes)) /\ old <= Len(f.sectors)
      BY <1>7, <1>8, <1>9, <1>10
    <3> QED BY <1>3, <1>11, <3>1 DEF AtEntry, o
  <2> QED BY <2>1 DEF Progress
<1>14. j # NoJob /\ j.phase \in {"entry", "data"} /\ (GuestApart => j.file.host \notin LeftOut)
  BY <1>3, <1>9, NoJobIs
<1> HIDE DEF j
<1> QED BY <1>2, <1>12, <1>13, <1>14, BegunInv

LEMMA UpdateFileInv ==
    ASSUME DosInv, NEW name \in Names, NEW k, UpdateFile(name, k)
    PROVE  DosInv'
<1> DEFINE o     == dos[name]
           at    == (k - 1) * DataSize
           bytes == [i \in 1 .. Len(o.bytes) |-> IF i > at /\ i <= k * DataSize
                                                 THEN NewBytes(Len(o.bytes))[i] ELSE o.bytes[i]]
           f     == [o EXCEPT !.bytes = bytes]
           j     == [kind |-> "update", name |-> name, as |-> name, entry |-> NoEntry, phase |-> "data",
                     k |-> k, file |-> f]
<1>1. /\ name \in DOMAIN dos /\ k \in DOMAIN o.sectors /\ Len(o.bytes) > 0
      /\ Begin("update", name, name, "data", NoEntry, k, f)
  BY Zenon DEF UpdateFile
<1>2. /\ job = NoJob /\ jobs' = jobs + 1 /\ job' = j
      /\ UNCHANGED <<io, vtoc, dirents, stitched, dos, faults, stranded>>
  BY <1>1, Zenon DEF Begin
<1>3. /\ name \in DosNames \ {NoName} /\ WellMade(o) /\ Stored(Image, name, o)
      /\ (GuestApart => o.host \notin LeftOut)
  BY <1>1, <1>2, FoundFile
<1>4. /\ o \in Files /\ o.sectors \in Seq(DataSectors) /\ Distinct(o.sectors)
      /\ Len(o.sectors) = SectorsFor(Len(o.bytes)) /\ o.bytes \in Seq(Int) /\ Len(o.bytes) \in Nat
  BY <1>3, FileIs DEF WellMade
<1> HIDE DEF o
<1>5. k \in 1 .. Len(o.sectors) /\ k \in Nat /\ at \in Nat /\ at <= Len(o.bytes)
  <2>1. k \in 1 .. Len(o.sectors) /\ k \in Nat
    BY <1>1, <1>4
  <2> QED BY <1>4, <2>1, SectorBounds
<1> HIDE DEF at
<1>6. /\ bytes \in Seq(Int) /\ Len(bytes) = Len(o.bytes)
      /\ \A i \in 1 .. Len(bytes) : i <= at \/ i > k * DataSize => o.bytes[i] = bytes[i]
      /\ Begun(o.bytes, bytes, at)
  <2> DEFINE new == NewBytes(Len(o.bytes))
             end == k * DataSize
  <2>1. new \in Seq(Int) /\ Len(new) = Len(o.bytes)
    BY <1>4, NewBytesIs DEF DosInv
  <2>2. end \in Int
    BY <1>5, Sizes
  <2> HIDE DEF new, end
  <2>3. \A i \in 1 .. Len(o.bytes) : (IF i > at /\ i <= end THEN new[i] ELSE o.bytes[i]) \in Int
    BY <1>4, <2>1
  <2>4. bytes = [i \in 1 .. Len(o.bytes) |-> IF i > at /\ i <= end THEN new[i] ELSE o.bytes[i]]
    BY DEF new, end
  <2> HIDE DEF bytes
  <2>5. bytes \in Seq(Int) /\ Len(bytes) = Len(o.bytes)
    BY <1>4, <2>3, <2>4
  <2>6. \A i \in 1 .. Len(bytes) : i <= at \/ i > end => o.bytes[i] = bytes[i]
    BY <1>4, <1>5, <2>2, <2>4, <2>5
  <2>7. Begun(o.bytes, bytes, at)
    BY <1>4, <1>5, <2>5, <2>6 DEF Begun
  <2> QED BY <2>5, <2>6, <2>7 DEF end
<1> HIDE DEF bytes
<1>7. f \in Files /\ f.slot = o.slot /\ f.host = o.host /\ f.sectors = o.sectors /\ f.bytes = bytes
  BY <1>4, <1>6 DEF Files
<1> HIDE DEF f
<1>8. WellMade(f) /\ \A m \in DOMAIN dos \ {name} : Apart(f, dos[m])
  <2>1. /\ Distinct(f.sectors) /\ Len(f.sectors) = SectorsFor(Len(f.bytes))
        /\ Range(f.sectors) \subseteq vtoc \cup Range(o.sectors)
    BY <1>4, <1>6, <1>7
  <2> QED BY <1>1, <1>2, <1>7, <2>1, ChangedFile DEF o
<1>9. NoEntry \in Dirents
  BY DEF NoEntry, Dirents, Flags, DosNames
<1>10. Operation(dos, j)
  <2>1. j \in Jobs
    BY <1>3, <1>5, <1>7, <1>9 DEF Jobs
  <2>2. Len(f.bytes) > 0
    BY <1>1, <1>6, <1>7
  <2> QED BY <1>1, <1>7, <1>8, <2>1, <2>2 DEF Operation, o
<1>11. AtData(Image, dos, j)
  <2>1. /\ Image.stitched[f.slot] = [flags |-> "closed", sectors |-> f.sectors, host |-> f.host]
        /\ Image.dirents[f.slot] = EntryOf("closed", f.sectors, Len(f.sectors), name)
        /\ f.host \in DOMAIN Image.io.files /\ Image.io.files[f.host] = o.bytes
    BY <1>3, <1>7 DEF Stored
  <2>2. Following(f.sectors, dos, j)
    <3>1. k <= Len(f.sectors) /\ f.sectors = dos[name].sectors /\ j.k = k /\ j.file = f /\ j.name = name
      BY <1>5, <1>7 DEF o
    <3> HIDE DEF j
    <3> QED BY <1>1, <1>5, <1>7, <3>1 DEF Following
  <2>3. /\ Begun(o.bytes, f.bytes, (j.k - 1) * DataSize) /\ Len(o.bytes) = Len(f.bytes)
        /\ \A i \in 1 .. Len(f.bytes) : i <= (j.k - 1) * DataSize \/ i > j.k * DataSize => o.bytes[i] = f.bytes[i]
    BY <1>6, <1>7 DEF at
  <2>4. j.kind = "update" /\ j.file = f /\ j.name = name /\ j.kind \in Outputs \cup {"update"}
    OBVIOUS
  <2> HIDE DEF j
  <2> QED BY <2>1, <2>2, <2>3, <2>4 DEF AtData
<1>12. Progress(Image, dos, j)
  BY <1>11 DEF Progress
<1>13. j # NoJob /\ j.phase \in {"entry", "data"} /\ (GuestApart => j.file.host \notin LeftOut)
  BY <1>3, <1>7, NoJobIs
<1> HIDE DEF j
<1> QED BY <1>2, <1>10, <1>12, <1>13, BegunInv

(* Every step of the specification keeps the invariant. *)
LEMMA DosNextInv == ~MayShareHost /\ DosInv /\ [DosNext]_dosVars => DosInv'
<1> SUFFICES ASSUME ~MayShareHost, DosInv, [DosNext]_dosVars PROVE DosInv'
  OBVIOUS
<1>1. ASSUME NEW n \in Names, NEW l \in Lengths, CreateFile(n, l) PROVE DosInv'
  BY <1>1, CreateFileInv
<1>2. ASSUME NEW n \in Names, NEW l \in Lengths, ExtendFile(n, l) PROVE DosInv'
  BY <1>2, ExtendFileInv
<1>3. ASSUME NEW n \in Names, NEW l \in Lengths, NEW opened, ReplaceFile(n, l, opened) PROVE DosInv'
  BY <1>3, ReplaceFileInv
<1>4. ASSUME NEW n \in Names, EraseFile(n) PROVE DosInv'
  BY <1>4, EraseFileInv
<1>5. ASSUME NEW n \in Names, NEW new \in Names, RenameFile(n, new) PROVE DosInv'
  BY <1>5, RenameFileInv
<1>6. ASSUME NEW n \in Names, NEW k, UpdateFile(n, k) PROVE DosInv'
  BY <1>6, UpdateFileInv
<1>7. ASSUME NEW f \in 0 .. 3, WriteEntry(f) \/ WriteSector(f) \/ WriteVTOC(f) \/ CloseEntry(f) PROVE DosInv'
  <2>1. f \in Nat
    OBVIOUS
  <2> QED BY <1>7, <2>1, WriteEntryInv, WriteSectorInv, WriteVTOCInv, CloseEntryInv
<1>8. ASSUME NEW x, NEW f \in 0 .. 1, GuestRead(x, f) PROVE DosInv'
  <2>1. f \in Nat
    OBVIOUS
  <2> QED BY <1>8, <2>1, GuestReadInv
<1>9. CASE UNCHANGED dosVars
  <2>1. Image' = Image /\ io' = io /\ jobs' = jobs /\ dos' = dos /\ job' = job /\ stranded' = stranded
    BY <1>9 DEF dosVars, Image
  <2> QED BY <2>1 DEF DosInv
<1> QED BY <1>1, <1>2, <1>3, <1>4, <1>5, <1>6, <1>7, <1>8, <1>9, Zenon DEF DosNext

-----------------------------------------------------------------------------
(* The properties that follow from the invariant. *)

(* The chain of a slot holds sectors of its file only. *)
LEMMA SlotSectors ==
    ASSUME NEW d \in Images, NEW cat, NEW j, DiskInv(d, cat, j), j # NoJob
    PROVE  Range(d.stitched[j.file.slot].sectors)
           \subseteq Range(j.file.sectors) \cup (IF j.name \in DOMAIN cat THEN Range(cat[j.name].sectors) ELSE {})
<1> DEFINE s == j.file.slot
           C == d.stitched[s].sectors
           S == j.file.sectors
           old == IF j.name \in DOMAIN cat THEN Range(cat[j.name].sectors) ELSE {}
<1>1. Operation(cat, j) /\ Progress(d, cat, j)
  BY DEF DiskInv
<1>2. j.phase \in {"entry", "data", "vtoc", "close"}
  BY <1>1 DEF Operation, Jobs
<1>3. \A t : t = <<>> => Range(t) = {}
  BY DEF Range
<1>4. CASE j.phase = "entry"
  <2>1. CASE j.kind = "create"
    <3>1. C = <<>>
      BY <1>1, <1>4, <2>1 DEF Progress, AtEntry
    <3> QED BY <1>3, <3>1
  <2>2. CASE j.kind # "create"
    <3>1. j.name \in DOMAIN cat /\ C = cat[j.name].sectors
      BY <1>4, <2>2, FindsStored
    <3> QED BY <3>1
  <2> QED BY <2>1, <2>2
<1>5. CASE j.phase = "data"
  <2>1. /\ S \in Seq(DataSectors) /\ j.k \in 1 .. Len(S)
        /\ C = SubSeq(S, 1, j.k) \/ (j.name \in DOMAIN cat /\ C = cat[j.name].sectors)
    BY <1>5, ChainAt
  <2>2. Range(SubSeq(S, 1, j.k)) \subseteq Range(S)
    <3> DEFINE u == SubSeq(S, 1, j.k)
    <3> HIDE DEF S
    <3>1. j.k \in 0 .. Len(S)
      BY <2>1
    <3>2. u \in Seq(DataSectors) /\ Len(u) = j.k /\ \A i \in 1 .. j.k : u[i] = S[i]
      BY <2>1, <3>1, Firsts
    <3> HIDE DEF u
    <3>3. \A i \in DOMAIN u : i \in DOMAIN S /\ u[i] = S[i]
      BY <2>1, <3>2
    <3> QED BY <3>3 DEF Range, u
  <2> QED BY <2>1, <2>2
<1>6. CASE j.phase \in {"vtoc", "close"}
  <2>1. Ended(d, j)
    BY <1>1, <1>6 DEF Progress
  <2>2. CASE j.kind = "erase"
    <3>1. C = <<>>
      BY <2>1, <2>2 DEF Ended, NoFile
    <3> QED BY <1>3, <3>1
  <2>3. CASE j.kind # "erase"
    <3>1. C = S
      BY <2>1, <2>3 DEF Ended
    <3> QED BY <3>1
  <2> QED BY <2>2, <2>3
<1> QED BY <1>2, <1>4, <1>5, <1>6

(* The invariant implies what the runs check. *)
LEMMA ReadsBack == DosInv => DosReadBack
<1> SUFFICES ASSUME DosInv, NEW n \in DOMAIN dos \ {job.name}
             PROVE  LET f == dos[n]
                    IN  /\ dirents[f.slot] = EntryOf("closed", f.sectors, Len(f.sectors), n)
                        /\ \A k \in DOMAIN f.sectors :
                            /\ FilesWith(Image, f.sectors[k]) = {f.slot}
                            /\ ReadSector(Image, f.sectors[k]) =
                                 [bytes |-> SectorBytes(f.bytes, k), next |-> Link(f.sectors, k)]
                        /\ Len(f.sectors) = SectorsFor(Len(f.bytes))
  BY Zenon DEF DosReadBack
<1> DEFINE f == dos[n]
           s == f.slot
<1>1. Image \in Images /\ DiskInv(Image, dos, job)
  BY DEF DosInv
<1>2. Catalogue(dos) /\ Stored(Image, n, f) /\ (job # NoJob => Operation(dos, job))
  BY <1>1 DEF DiskInv
<1>3. WellMade(f) /\ \A m \in DOMAIN dos : n # m => Apart(f, dos[m])
  BY <1>2 DEF Catalogue
<1>4. /\ s \in 1 .. Slots /\ f.sectors \in Seq(DataSectors) /\ Distinct(f.sectors)
      /\ Len(f.sectors) = SectorsFor(Len(f.bytes)) /\ DOMAIN f.sectors = 1 .. Len(f.sectors)
  BY <1>3, FileIs
<1>5. /\ dirents[s] = EntryOf("closed", f.sectors, Len(f.sectors), n)
      /\ Image.stitched[s] = [flags |-> "closed", sectors |-> f.sectors, host |-> f.host]
      /\ Image.io.files[f.host] = f.bytes
  BY <1>2, ImageIs DEF Stored
<1>6. ASSUME NEW e \in 1 .. Slots, e # s, InUse(Image.stitched[e].flags)
      PROVE  Range(f.sectors) \cap Range(Image.stitched[e].sectors) = {}
  <2>1. CASE e = job.file.slot
    <3>1. job # NoJob
      BY <2>1, NoJobIs
    <3>2. Range(Image.stitched[e].sectors)
          \subseteq Range(job.file.sectors) \cup (IF job.name \in DOMAIN dos THEN Range(dos[job.name].sectors) ELSE {})
      BY <1>1, <2>1, <3>1, SlotSectors
    <3>3. Range(f.sectors) \cap Range(job.file.sectors) = {}
      BY <1>2, <3>1 DEF Operation, Apart
    <3>4. job.name \in DOMAIN dos => Range(f.sectors) \cap Range(dos[job.name].sectors) = {}
      BY <1>3 DEF Apart
    <3> QED BY <3>2, <3>3, <3>4
  <2>2. CASE e # job.file.slot
    <3>1. CASE Empty(Image, e)
      BY <1>6, <3>1 DEF Empty
    <3>2. CASE \E m \in DOMAIN dos \ {job.name} : dos[m].slot = e /\ Stored(Image, m, dos[m])
      <4>1. PICK m \in DOMAIN dos \ {job.name} : dos[m].slot = e /\ Stored(Image, m, dos[m])
        BY <3>2
      <4>2. Image.stitched[e].sectors = dos[m].sectors
        BY <4>1 DEF Stored
      <4>3. n # m
        BY <1>6, <4>1
      <4> QED BY <1>3, <4>2, <4>3 DEF Apart
    <3> QED BY <1>1, <2>2, <3>1, <3>2, OtherSlots
  <2> QED BY <2>1, <2>2
<1>7. ASSUME NEW k \in DOMAIN f.sectors
      PROVE  /\ FilesWith(Image, f.sectors[k]) = {s}
             /\ ReadSector(Image, f.sectors[k]) = [bytes |-> SectorBytes(f.bytes, k), next |-> Link(f.sectors, k)]
  <2> DEFINE x == f.sectors[k]
  <2>1. x \in Range(f.sectors) /\ InUse(Image.stitched[s].flags) /\ Image.stitched[s].sectors = f.sectors
    BY <1>5 DEF Range, InUse
  <2> HIDE DEF x, s, f
  <2>2. \A e \in 1 .. Slots : InUse(Image.stitched[e].flags) /\ x \in Range(Image.stitched[e].sectors) <=> e = s
    BY <1>4, <1>6, <2>1
  <2>3. FilesWith(Image, x) = {s}
    BY <1>4, <2>2 DEF FilesWith
  <2>4. Min(FilesWith(Image, x)) = s /\ Place(Image.stitched[s].sectors, x) = k
    <3>1. /\ s \in 1 .. Slots /\ Distinct(Image.stitched[s].sectors) /\ k \in DOMAIN Image.stitched[s].sectors
          /\ Image.stitched[s].sectors[k] = x
      BY <1>4, <2>1 DEF x
    <3> QED BY <1>1, <2>3, <3>1, TheFile
  <2>5. ReadSector(Image, x) = [bytes |-> SectorBytes(f.bytes, k), next |-> Link(f.sectors, k)]
    <3>1. Image.stitched[s].host = f.host
      BY <1>5
    <3> QED BY <1>5, <2>1, <2>4, <3>1, Zenon DEF ReadSector
  <2> QED BY <2>3, <2>5 DEF x
<1> QED BY <1>4, <1>5, <1>7

LEMMA Accounted == DosInv => SectorsAccounted
<1> SUFFICES ASSUME DosInv, job = NoJob
             PROVE  /\ \A a, b \in 1 .. Slots :
                          a # b /\ InUse(stitched[a].flags) /\ InUse(stitched[b].flags) =>
                          Range(stitched[a].sectors) \cap Range(stitched[b].sectors) = {}
                    /\ DataSectors \ vtoc = UNION {Range(stitched[e].sectors) : e \in 1 .. Slots}
                    /\ \A e \in 1 .. Slots :
                          dirents[e].flags = stitched[e].flags
                          /\ (InUse(dirents[e].flags) => dirents[e].count = Len(stitched[e].sectors))
  BY Zenon DEF SectorsAccounted
<1>1. /\ Catalogue(dos) /\ vtoc = DataSectors \ TakenBy(dos)
      /\ \A n \in DOMAIN dos : Stored(Image, n, dos[n])
      /\ \A e \in 1 .. Slots : (\A n \in DOMAIN dos : dos[n].slot # e) => Empty(Image, e)
  BY AtRest
<1>2. \A n \in DOMAIN dos : WellMade(dos[n])
  BY <1>1 DEF Catalogue
<1>3. \A n \in DOMAIN dos : /\ dos[n].slot \in 1 .. Slots /\ Range(dos[n].sectors) \subseteq DataSectors
                            /\ stitched[dos[n].slot].sectors = dos[n].sectors
                            /\ stitched[dos[n].slot].flags = "closed"
                            /\ dirents[dos[n].slot].flags = "closed"
                            /\ dirents[dos[n].slot].count = Len(dos[n].sectors)
  <2> SUFFICES ASSUME NEW n \in DOMAIN dos
               PROVE  /\ dos[n].slot \in 1 .. Slots /\ Range(dos[n].sectors) \subseteq DataSectors
                      /\ stitched[dos[n].slot].sectors = dos[n].sectors
                      /\ stitched[dos[n].slot].flags = "closed"
                      /\ dirents[dos[n].slot].flags = "closed"
                      /\ dirents[dos[n].slot].count = Len(dos[n].sectors)
    OBVIOUS
  <2>1. dos[n].slot \in 1 .. Slots /\ Range(dos[n].sectors) \subseteq DataSectors
    BY <1>2, FileIs DEF Range
  <2>2. Stored(Image, n, dos[n])
    BY <1>1
  <2> DEFINE s == dos[n].slot
             c == dos[n].sectors
  <2>3. /\ dirents[s] = [flags |-> "closed", count |-> Len(c), start |-> c[1], name |-> n]
        /\ stitched[s] = [flags |-> "closed", sectors |-> c, host |-> dos[n].host]
    BY <2>2, ImageIs, Zenon DEF Stored, EntryOf
  <2> HIDE DEF s, c
  <2>4. stitched[s].sectors = c /\ stitched[s].flags = "closed" /\ dirents[s].flags = "closed"
        /\ dirents[s].count = Len(c)
    BY <2>3
  <2> QED BY <2>1, <2>4 DEF s, c
<1>4. \A e \in 1 .. Slots : \/ \E n \in DOMAIN dos : dos[n].slot = e
                            \/ /\ ~InUse(stitched[e].flags) /\ Range(stitched[e].sectors) = {}
                               /\ dirents[e].flags = stitched[e].flags
  BY <1>1, ImageIs DEF Empty, Range
<1>5. ASSUME NEW a \in 1 .. Slots, NEW b \in 1 .. Slots, a # b, InUse(stitched[a].flags), InUse(stitched[b].flags)
      PROVE  Range(stitched[a].sectors) \cap Range(stitched[b].sectors) = {}
  <2>1. PICK n \in DOMAIN dos : dos[n].slot = a
    BY <1>4, <1>5
  <2>2. PICK m \in DOMAIN dos : dos[m].slot = b
    BY <1>4, <1>5
  <2>3. Apart(dos[n], dos[m])
    BY <1>1, <1>5, <2>1, <2>2 DEF Catalogue
  <2> QED BY <1>3, <2>1, <2>2, <2>3 DEF Apart
<1>6. DataSectors \ vtoc = TakenBy(dos)
  <2>1. TakenBy(dos) \subseteq DataSectors
    BY <1>3 DEF TakenBy
  <2> QED BY <1>1, <2>1
<1>7. TakenBy(dos) = UNION {Range(stitched[e].sectors) : e \in 1 .. Slots}
  <2>1. ASSUME NEW x \in TakenBy(dos) PROVE x \in UNION {Range(stitched[e].sectors) : e \in 1 .. Slots}
    <3>1. PICK n \in DOMAIN dos : x \in Range(dos[n].sectors)
      BY DEF TakenBy
    <3>2. dos[n].slot \in 1 .. Slots /\ x \in Range(stitched[dos[n].slot].sectors)
      BY <1>3, <3>1
    <3> QED BY <3>2
  <2>2. ASSUME NEW e \in 1 .. Slots, NEW x \in Range(stitched[e].sectors) PROVE x \in TakenBy(dos)
    <3>1. PICK n \in DOMAIN dos : dos[n].slot = e
      BY <1>4
    <3> QED BY <1>3, <3>1 DEF TakenBy
  <2> QED BY <2>1, <2>2
<1>8. \A e \in 1 .. Slots : /\ dirents[e].flags = stitched[e].flags
                            /\ InUse(dirents[e].flags) => dirents[e].count = Len(stitched[e].sectors)
  BY <1>3, <1>4
<1> QED BY <1>5, <1>6, <1>7, <1>8

LEMMA Coherent == DosInv /\ GuestApart => DosCoherent
<1> SUFFICES ASSUME DosInv, GuestApart, job = NoJob
             PROVE  /\ DOMAIN io.files = HostsOf(dos) \cup LeftOut \cup stranded
                    /\ \A n \in DOMAIN dos : io.files[dos[n].host] = dos[n].bytes
  BY DEF DosCoherent
<1>1. (\A n \in DOMAIN dos : Stored(Image, n, dos[n])) /\ HostsInv(Image, dos, NoJob, stranded)
  BY AtRest
<1>2. DOMAIN io.files = HostsOf(dos) \cup LeftOut \cup stranded
  BY <1>1, ImageIs DEF HostsInv
<1>3. \A n \in DOMAIN dos : io.files[dos[n].host] = dos[n].bytes
  BY <1>1, ImageIs DEF Stored
<1> QED BY <1>2, <1>3

-----------------------------------------------------------------------------
(* The mount: names. *)

(* A name that a host file keeps is no other one's. *)
LEMMA DirectIs ==
    ASSUME NEW i \in DOMAIN HostDir, NEW j \in DOMAIN HostDir, Direct(i) = Direct(j), Direct(i) # NoName
    PROVE  i = j
<1>1. Direct(i) = HostDir[i].direct /\ Direct(j) = HostDir[j].direct
  BY DEF Direct
<1>2. i \in Int /\ j \in Int /\ i >= 1 /\ j >= 1
  BY DosAssumption
<1>3. ~(i < j)
  <2>1. i < j => i \in 1 .. j - 1
    BY <1>2
  <2> QED BY <1>1, <2>1, Zenon DEF Direct
<1>4. ~(j < i)
  <2>1. j < i => j \in 1 .. i - 1
    BY <1>2
  <2> QED BY <1>1, <2>1, Zenon DEF Direct
<1> QED BY <1>2, <1>3, <1>4

(* An alias: the letters of its group, and a digit that is free in it. *)
With(g, k)  == [base |-> <<g.base, k>>, ext |-> g.ext]
Digits(g)   == {k \in 1 .. LastAlias : \A j \in DOMAIN HostDir : Direct(j) # With(g, k)}
Sharing(i)  == {j \in 1 .. i : HostDir[j].group = HostDir[i].group /\ Direct(j) = NoName}

LEMMA AliasIs ==
    ASSUME NEW i \in DOMAIN HostDir, Direct(i) = NoName
    PROVE  Alias(i) = IF Cardinality(Sharing(i)) > Cardinality(Digits(HostDir[i].group)) THEN NoName
                      ELSE With(HostDir[i].group, Ordered(Digits(HostDir[i].group))[Cardinality(Sharing(i))])
BY Zenon DEF Alias, With, Digits, Sharing

(* Two host files of a group that need an alias have different places in    *)
(* it.                                                                      *)
LEMMA SharingIs ==
    ASSUME NEW i \in DOMAIN HostDir, Direct(i) = NoName
    PROVE  /\ IsFiniteSet(Sharing(i)) /\ Cardinality(Sharing(i)) \in Nat /\ Cardinality(Sharing(i)) >= 1
           /\ \A j \in DOMAIN HostDir :
                 j < i /\ HostDir[j].group = HostDir[i].group
                 => Cardinality(Sharing(j)) # Cardinality(Sharing(i))
<1>1. i \in Nat /\ i >= 1
  BY DosAssumption
<1>2. IsFiniteSet(1 .. i) /\ Sharing(i) \in SUBSET (1 .. i)
  BY <1>1, FS_Interval DEF Sharing
<1>3. IsFiniteSet(Sharing(i)) /\ Cardinality(Sharing(i)) \in Nat
  BY <1>2, FS_Subset, FS_CardinalityType
<1>4. i \in Sharing(i)
  BY <1>1 DEF Sharing
<1>5. Cardinality(Sharing(i)) # 0
  BY <1>3, <1>4, FS_EmptySet
<1>6. ASSUME NEW j \in DOMAIN HostDir, j < i, HostDir[j].group = HostDir[i].group
      PROVE  Cardinality(Sharing(j)) # Cardinality(Sharing(i))
  <2>1. j \in Nat
    BY DosAssumption
  <2>2. Sharing(j) \in SUBSET Sharing(i) /\ i \notin Sharing(j)
    BY <1>1, <1>6, <2>1 DEF Sharing
  <2> QED BY <1>3, <1>4, <2>2, FS_Subset
<1> QED BY <1>3, <1>5, <1>6

(* The free digits of a group, in order. *)
LEMMA DigitsAre ==
    ASSUME NEW g
    PROVE  /\ Digits(g) \subseteq 1 .. LastAlias /\ Cardinality(Digits(g)) \in Nat
           /\ Len(Ordered(Digits(g))) = Cardinality(Digits(g))
           /\ \A k \in 1 .. Cardinality(Digits(g)) : Ordered(Digits(g))[k] \in Digits(g)
           /\ \A a, b \in 1 .. Cardinality(Digits(g)) :
                 Ordered(Digits(g))[a] = Ordered(Digits(g))[b] => a = b
<1> DEFINE D == Digits(g)
<1>1. LastAlias \in Nat
  BY DosAssumption
<1>2. IsFiniteSet(1 .. LastAlias) /\ D \in SUBSET (1 .. LastAlias)
  BY <1>1, FS_Interval DEF Digits
<1> HIDE DEF D
<1>3. IsFiniteSet(D) /\ D \subseteq Int
  <2>1. IsFiniteSet(D)
    BY <1>2, FS_Subset
  <2>2. D \subseteq Int
    BY <1>1, <1>2
  <2> QED BY <2>1, <2>2
<1>4. /\ Ordered(D) \in Seq(D) /\ Len(Ordered(D)) = Cardinality(D)
      /\ \A a, b \in 1 .. Len(Ordered(D)) : Ordered(D)[a] = Ordered(D)[b] => a = b
  BY <1>3, OrderedIs
<1>5. Cardinality(D) \in Nat
  BY <1>3, FS_CardinalityType
<1> QED BY <1>2, <1>4, <1>5 DEF D

(* A host file that gets an alias gets its group's digit at its place. *)
LEMMA AliasOf ==
    ASSUME NEW i \in DOMAIN HostDir, Direct(i) = NoName, AtariName(i) # NoName
    PROVE  LET g == HostDir[i].group
               p == Cardinality(Sharing(i))
           IN  /\ p \in 1 .. Cardinality(Digits(g)) /\ Ordered(Digits(g))[p] \in Digits(g)
               /\ AtariName(i) = With(g, Ordered(Digits(g))[p])
<1> DEFINE g == HostDir[i].group
           p == Cardinality(Sharing(i))
<1>1. AtariName(i) = IF p > Cardinality(Digits(g)) THEN NoName ELSE With(g, Ordered(Digits(g))[p])
  BY AliasIs DEF AtariName
<1>2. p \in Nat /\ p >= 1
  BY SharingIs
<1> HIDE DEF p, g
<1>3. Cardinality(Digits(g)) \in Nat /\ \A k \in 1 .. Cardinality(Digits(g)) : Ordered(Digits(g))[k] \in Digits(g)
  BY DigitsAre
<1>4. p \in 1 .. Cardinality(Digits(g))
  BY <1>1, <1>2, <1>3
<1> QED BY <1>1, <1>3, <1>4 DEF p, g

(* An alias shows its group and its digit. *)
LEMMA WithIs ==
    ASSUME NEW i \in DOMAIN HostDir, NEW j \in DOMAIN HostDir, NEW a, NEW b,
           With(HostDir[i].group, a) = With(HostDir[j].group, b)
    PROVE  HostDir[i].group = HostDir[j].group /\ a = b
<1> DEFINE g == HostDir[i].group
           h == HostDir[j].group
<1>1. g = [base |-> g.base, ext |-> g.ext] /\ h = [base |-> h.base, ext |-> h.ext]
  <2>1. \A m \in DOMAIN HostDir :
            HostDir[m].group = [base |-> HostDir[m].group.base, ext |-> HostDir[m].group.ext]
    BY DosAssumption
  <2> QED BY <2>1, Zenon
<1> HIDE DEF g, h
<1>2. With(g, a) = With(h, b)
  BY DEF g, h
<1>3. g.ext = h.ext
  BY <1>2, With(g, a).ext = g.ext, With(h, b).ext = h.ext DEF With
<1>4. <<g.base, a>> = <<h.base, b>>
  BY <1>2, With(g, a).base = <<g.base, a>>, With(h, b).base = <<h.base, b>> DEF With
<1>5. g.base = h.base /\ a = b
  BY <1>4
<1> QED BY <1>1, <1>3, <1>5 DEF g, h

(* No two host files get the same name. *)
LEMMA AtariNames ==
    ASSUME NEW i \in DOMAIN HostDir, NEW j \in DOMAIN HostDir, AtariName(i) = AtariName(j), AtariName(i) # NoName
    PROVE  i = j
<1>1. ASSUME NEW a \in DOMAIN HostDir, NEW b \in DOMAIN HostDir, AtariName(a) = AtariName(b), AtariName(a) # NoName,
             Direct(a) # NoName, Direct(b) = NoName
      PROVE  FALSE
  <2> DEFINE g == HostDir[b].group
             k == Ordered(Digits(g))[Cardinality(Sharing(b))]
  <2>1. k \in Digits(g) /\ AtariName(b) = With(g, k)
    BY <1>1, AliasOf
  <2>2. AtariName(a) = Direct(a)
    BY <1>1 DEF AtariName
  <2> HIDE DEF k, g
  <2> QED BY <1>1, <2>1, <2>2 DEF Digits
<1>2. CASE Direct(i) # NoName /\ Direct(j) # NoName
  BY <1>2, DirectIs DEF AtariName
<1>3. CASE Direct(i) = NoName /\ Direct(j) = NoName
  <2> DEFINE p(m) == Cardinality(Sharing(m))
             D(m) == Digits(HostDir[m].group)
             k(m) == Ordered(D(m))[p(m)]
  <2>1. /\ p(i) \in 1 .. Cardinality(D(i)) /\ AtariName(i) = With(HostDir[i].group, k(i))
        /\ p(j) \in 1 .. Cardinality(D(j)) /\ AtariName(j) = With(HostDir[j].group, k(j))
    BY <1>3, AliasOf
  <2>2. HostDir[i].group = HostDir[j].group /\ k(i) = k(j)
    <3> HIDE DEF k
    <3>1. With(HostDir[i].group, k(i)) = With(HostDir[j].group, k(j))
      BY <2>1
    <3>2. \A a, b : With(HostDir[i].group, a) = With(HostDir[j].group, b)
                   => HostDir[i].group = HostDir[j].group /\ a = b
      BY WithIs
    <3> QED BY <3>1, <3>2, Zenon
  <2>3. p(i) = p(j)
    <3>1. D(i) = D(j)
      BY <2>2
    <3>2. \A a, b \in 1 .. Cardinality(D(i)) : Ordered(D(i))[a] = Ordered(D(i))[b] => a = b
      BY DigitsAre
    <3> HIDE DEF D, p
    <3> QED BY <2>1, <2>2, <3>1, <3>2
  <2>4. ~(i < j) /\ ~(j < i)
    BY <1>3, <2>2, <2>3, SharingIs
  <2> QED BY <2>4, DosAssumption
<1> QED BY <1>1, <1>2, <1>3

-----------------------------------------------------------------------------
(* The mount: the disk. *)

(* The storage before its first call. *)
LEMMA StorageInv ==
    ASSUME NEW files \in Folders
    PROVE  HandleInv(Storage(files)) /\ Storage(files).files = files
<1> DEFINE s == Storage(files)
<1>1. /\ s = [files |-> files, fds |-> <<>>, cache |-> <<>>, active |-> NoHandle,
              cached |-> FALSE, fails |-> 0, ok |-> TRUE]
      /\ s.files = files /\ s.fds = <<>> /\ s.cache = <<>> /\ s.active = NoHandle /\ s.cached = FALSE
  BY DEF Storage
<1> HIDE DEF s
<1>2. DOMAIN s.fds = {} /\ s.fds \in Fds
  <2>1. s.fds = [x \in {} |-> x]
    BY <1>1
  <2>2. s.fds \in [{} -> Paths] /\ {} \in SUBSET Handles
    BY <2>1
  <2> QED BY <2>1, <2>2 DEF Fds
<1>3. s.cache \in Seq(Entries) /\ DOMAIN s.cache = {} /\ Len(s.cache) = 0
  BY <1>1
<1>4. s \in Storages
  BY <1>1, <1>2, <1>3 DEF Storages
<1>5. CacheHandles(s) = {}
  BY <1>3 DEF CacheHandles
<1>6. HandleInv(s)
  <2>1. Kept(s)
    BY <1>1, <1>2, <1>5 DEF Kept
  <2>2. Matching(s)
    BY <1>1, <1>2, <1>3 DEF Matching
  <2>3. Len(s.cache) <= CacheSize
    BY <1>3, HandleAssumption
  <2> QED BY <1>4, <2>1, <2>2, <2>3, Zenon DEF HandleInv
<1> QED BY <1>1, <1>6 DEF s

HostNames == {HostDir[i].host : i \in DOMAIN HostDir}

LEMMA HostDirIs ==
    /\ Len(HostDir) \in Nat /\ DOMAIN HostDir = 1 .. Len(HostDir)
    /\ \A i \in DOMAIN HostDir : i \in Int /\ HostDir[i].length \in Nat
    /\ \A i \in DOMAIN HostDir : HostDir[i].host \in Paths \ {NoName}
    /\ \A i, j \in DOMAIN HostDir : HostDir[i].host = HostDir[j].host => i = j
<1>1. Len(HostDir) \in Nat /\ DOMAIN HostDir = 1 .. Len(HostDir)
  BY DosAssumption
<1>2. \A i \in DOMAIN HostDir : i \in Int
  BY <1>1
<1>3. ASSUME NEW i \in DOMAIN HostDir
      PROVE  HostDir[i].host \in Paths \ {NoName} /\ HostDir[i].length \in Nat
  <2>1. \A m \in DOMAIN HostDir :
            /\ HostDir[m].host \in Paths \ {NoName} /\ HostDir[m].length \in Nat
            /\ HostDir[m].group = [base |-> HostDir[m].group.base, ext |-> HostDir[m].group.ext]
    BY DosAssumption
  <2> QED BY <2>1, Zenon
<1>5. \A i, j \in DOMAIN HostDir : HostDir[i].host = HostDir[j].host => i = j
  BY DosAssumption, Zenon
<1> QED BY <1>1, <1>2, <1>3, <1>5

(* The files of the host directory, before the mount. *)
LEMMA HostFilesAre ==
    /\ DOMAIN HostFiles = HostNames /\ HostFiles \in Folders
    /\ \A i \in DOMAIN HostDir :
          /\ HostDir[i].host \in Paths /\ HostDir[i].host # NoName
          /\ HostFiles[HostDir[i].host] \in Seq(Int)
          /\ Len(HostFiles[HostDir[i].host]) = HostDir[i].length
<1>1. /\ \A i \in DOMAIN HostDir : HostDir[i].host \in Paths \ {NoName} /\ HostDir[i].length \in Nat
      /\ \A i, j \in DOMAIN HostDir : HostDir[i].host = HostDir[j].host => i = j
      /\ \A i \in DOMAIN HostDir : i \in Int
  BY HostDirIs
<1>2. ASSUME NEW i \in DOMAIN HostDir
      PROVE  HostBytes(i) \in Seq(Int) /\ Len(HostBytes(i)) = HostDir[i].length
  <2> DEFINE n == HostDir[i].length
  <2>1. n \in Nat /\ i \in Int
    BY <1>1
  <2>2. HostBytes(i) = [k \in 1 .. n |-> -100 * i - k]
    BY DEF HostBytes
  <2> HIDE DEF n
  <2>3. \A k \in 1 .. n : -100 * i - k \in Int
    BY <2>1
  <2> QED BY <2>1, <2>2, <2>3 DEF n
<1>3. {f.host : f \in Range(HostDir)} = HostNames
  BY DEF Range, HostNames
<1>4. DOMAIN HostFiles = HostNames
  BY <1>3 DEF HostFiles
<1>5. ASSUME NEW i \in DOMAIN HostDir
      PROVE  HostDir[i].host \in HostNames /\ HostFiles[HostDir[i].host] = HostBytes(i)
  <2>1. HostDir[i].host \in HostNames
    BY DEF HostNames
  <2>2. (CHOOSE j \in DOMAIN HostDir : HostDir[j].host = HostDir[i].host) = i
    BY <1>1
  <2> QED BY <1>3, <2>1, <2>2 DEF HostFiles
<1>6. HostFiles \in Folders
  <2>1. \A h \in HostNames : HostFiles[h] \in Seq(Int)
    BY <1>2, <1>5 DEF HostNames
  <2>2. HostNames \in SUBSET Paths
    BY <1>1 DEF HostNames
  <2>3. HostFiles = [h \in HostNames |-> HostFiles[h]]
    BY <1>4 DEF HostFiles
  <2>4. HostFiles \in [HostNames -> Seq(Int)]
    BY <2>1, <2>3
  <2> QED BY <2>2, <2>4 DEF Folders
<1> QED BY <1>1, <1>2, <1>4, <1>5, <1>6

(* The first of a set in order is its least. *)
LEMMA FirstOf ==
    ASSUME NEW S, S \subseteq Nat, IsFiniteSet(S), S # {}
    PROVE  Ordered(S)[1] = Min(S)
<1> DEFINE m == Min(S)
<1>1. m \in S /\ \A y \in S : m <= y
  BY MinIs
<1> HIDE DEF m
<1>2. Rank(S, m) = 1
  <2>1. \A y \in S : y <= m <=> y = m
    <3>1. \A y \in S : y \in Int
      OBVIOUS
    <3> QED BY <1>1, <3>1
  <2>2. {y \in S : y <= m} = {m}
    BY <1>1, <2>1
  <2> QED BY <2>2, FS_Singleton DEF Rank
<1>3. /\ Cardinality(S) \in Nat /\ \A x \in S : Rank(S, x) \in 1 .. Cardinality(S)
      /\ \A x, y \in S : Rank(S, x) = Rank(S, y) => x = y
  <2>1. S \subseteq Int
    OBVIOUS
  <2> QED BY <2>1, Ranks
<1>4. 1 \in 1 .. Cardinality(S)
  BY <1>1, <1>2, <1>3
<1>5. Ordered(S)[1] = CHOOSE x \in S : Rank(S, x) = 1
  BY <1>4 DEF Ordered, Rank
<1> QED BY <1>1, <1>2, <1>3, <1>5 DEF m

(* The sectors a host file gets at the mount. *)
LEMMA Allocated ==
    ASSUME NEW free, free \subseteq DataSectors, NEW n \in Nat \ {0}, n <= Cardinality(free)
    PROVE  LET T == Lowest(free, n)
               S == Ordered(T)
           IN  /\ S \in Seq(DataSectors) /\ Distinct(S) /\ Len(S) = n
               /\ Range(S) = T /\ T \subseteq free /\ S[1] = Min(T)
<1> DEFINE T == Lowest(free, n)
           S == Ordered(T)
<1>1. free \subseteq Nat /\ IsFiniteSet(free)
  <2>1. IsFiniteSet(DataSectors) /\ DataSectors \subseteq Nat
    BY Sizes
  <2>2. IsFiniteSet(free)
    BY <2>1, FS_Subset, Zenon
  <2> QED BY <2>1, <2>2
<1>2. T \subseteq free /\ IsFiniteSet(T) /\ Cardinality(T) = n
  <2>1. free \subseteq Int
    BY <1>1
  <2> QED BY <1>1, <2>1, LowestIs
<1>3. S \in Seq(DataSectors) /\ Distinct(S) /\ Len(S) = n
  BY SectorsFrom
<1> HIDE DEF T
<1>4. T \subseteq Nat /\ T # {}
  BY <1>1, <1>2, FS_EmptySet
<1>5. Range(S) = T
  <2>1. T \subseteq Int
    BY <1>4
  <2> QED BY <1>2, <2>1, OrderedIs
<1>6. S[1] = Min(T)
  BY <1>2, <1>4, FirstOf
<1> QED BY <1>2, <1>3, <1>5, <1>6 DEF T

(* Slot e holds the k-th host file. *)
Given(d, e, k) ==
    LET c == d.stitched[e].sectors
    IN  /\ AtariName(k) # NoName
        /\ d.dirents[e] = EntryOf("closed", c, Len(c), AtariName(k))
        /\ d.stitched[e] = [flags |-> "closed", sectors |-> c, host |-> HostDir[k].host]
        /\ Distinct(c) /\ Len(c) = SectorsFor(HostDir[k].length)
Unused(d, e) == d.dirents[e] = NoEntry /\ d.stitched[e] = NoFile
Allotted(d) == UNION {Range(d.stitched[e].sectors) : e \in 1 .. Slots}

(* The image after the first i host files. *)
StitchInv(d, i) ==
    /\ d \in Images /\ d.io = Storage(HostFiles)
    /\ d.vtoc = DataSectors \ Allotted(d)
    /\ \A e \in 1 .. Slots : Unused(d, e) \/ \E k \in 1 .. i : Given(d, e, k)
    /\ \A a, b \in 1 .. Slots :
          a # b => /\ Range(d.stitched[a].sectors) \cap Range(d.stitched[b].sectors) = {}
                   /\ ~Unused(d, a) /\ ~Unused(d, b) => d.stitched[a].host # d.stitched[b].host

LEMMA BlankInv == StitchInv(Blank, 0)
<1>1. /\ Blank.io = Storage(HostFiles) /\ Blank.vtoc = DataSectors /\ Blank.error = FALSE
      /\ Blank.dirents = [e \in 1 .. Slots |-> NoEntry] /\ Blank.stitched = [e \in 1 .. Slots |-> NoFile]
      /\ Blank = [io |-> Blank.io, vtoc |-> Blank.vtoc, error |-> Blank.error,
                  dirents |-> Blank.dirents, stitched |-> Blank.stitched]
  BY DEF Blank
<1>2. Blank.io \in Storages
  BY <1>1, StorageInv, HostFilesAre DEF HandleInv
<1>3. NoEntry \in Dirents /\ NoFile \in Chains
  <2>1. NoName \in DosNames
    BY DEF DosNames
  <2>2. <<>> \in Seq(DataSectors)
    OBVIOUS
  <2> QED BY <2>1, <2>2 DEF NoEntry, NoFile, Dirents, Chains, Flags
<1>4. Blank.dirents \in [1 .. Slots -> Dirents] /\ Blank.stitched \in [1 .. Slots -> Chains]
  BY <1>1, <1>3
<1>5. Blank \in Images
  BY <1>1, <1>2, <1>4 DEF Images
<1>6. \A e \in 1 .. Slots : Unused(Blank, e) /\ Blank.stitched[e].sectors = <<>>
  BY <1>1 DEF Unused, NoFile
<1>7. \A e \in 1 .. Slots : Range(Blank.stitched[e].sectors) = {}
  BY <1>6 DEF Range
<1>8. Allotted(Blank) = {}
  BY <1>7 DEF Allotted
<1> QED BY <1>1, <1>5, <1>6, <1>7, <1>8 DEF StitchInv

(* One host file more: it gets a slot and sectors that no file has, or is   *)
(* left out.                                                                *)
LEMMA StitchFileInv ==
    ASSUME NEW i \in DOMAIN HostDir, NEW d, StitchInv(d, i - 1)
    PROVE  StitchInv(StitchFile(d, i), i)
<1> DEFINE f == HostDir[i]
           n == SectorsFor(f.length)
           free == {e \in 1 .. Slots : d.dirents[e].flags = "unused"}
           s == Min(free)
           T == Lowest(d.vtoc, n)
           c == Ordered(T)
           entry == [flags |-> "closed", count |-> n, start |-> Min(T), name |-> AtariName(i)]
           file == [flags |-> "closed", sectors |-> c, host |-> f.host]
           r == [d EXCEPT !.vtoc = @ \ T, !.dirents[s] = entry, !.stitched[s] = file]
<1>1. /\ d \in Images /\ d.io = Storage(HostFiles) /\ d.vtoc = DataSectors \ Allotted(d)
      /\ \A e \in 1 .. Slots : Unused(d, e) \/ \E k \in 1 .. i - 1 : Given(d, e, k)
      /\ \A a, b \in 1 .. Slots :
            a # b => /\ Range(d.stitched[a].sectors) \cap Range(d.stitched[b].sectors) = {}
                     /\ ~Unused(d, a) /\ ~Unused(d, b) => d.stitched[a].host # d.stitched[b].host
  BY DEF StitchInv
<1>2. i \in Nat /\ i >= 1 /\ (\A k \in 1 .. i : k \in DOMAIN HostDir)
      /\ (\A k \in 1 .. i - 1 : k \in 1 .. i /\ k # i) /\ i \in 1 .. i
  BY DosAssumption
<1>3. f.length \in Nat /\ f.host \in Paths /\ (\A k \in 1 .. i - 1 : HostDir[k].host # f.host)
  BY <1>2, HostDirIs
<1>4. CASE AtariName(i) = NoName \/ free = {} \/ n > Cardinality(d.vtoc)
  <2>1. StitchFile(d, i) = d
    BY <1>4, Zenon DEF StitchFile
  <2>2. \A e \in 1 .. Slots : Unused(d, e) \/ \E k \in 1 .. i : Given(d, e, k)
    BY <1>1, <1>2
  <2> QED BY <1>1, <2>1, <2>2, Zenon DEF StitchInv
<1>5. CASE ~(AtariName(i) = NoName \/ free = {} \/ n > Cardinality(d.vtoc))
  <2>1. StitchFile(d, i) = r
    BY <1>5, Zenon DEF StitchFile
  <2>2. s \in 1 .. Slots /\ d.dirents[s].flags = "unused"
    <3>1. free \subseteq Nat /\ free # {}
      BY <1>5
    <3>2. s \in free
      <4> HIDE DEF free
      <4> QED BY <3>1, MinIs
    <3> QED BY <3>2
  <2>3. Unused(d, s)
    <3>1. ASSUME NEW k, Given(d, s, k)
          PROVE  d.dirents[s].flags = "closed"
      <4> HIDE DEF s
      <4> QED BY ONLY <3>1 DEF Given, EntryOf
    <3> QED BY <1>1, <2>2, <3>1
  <2>4. n \in Nat \ {0}
    BY <1>3, SectorsForIs
  <2>5. /\ c \in Seq(DataSectors) /\ Distinct(c) /\ Len(c) = n
        /\ Range(c) = T /\ T \subseteq d.vtoc /\ c[1] = Min(T)
    <3> HIDE DEF n
    <3>1. d.vtoc \subseteq DataSectors
      BY <1>1
    <3>2. n <= Cardinality(d.vtoc)
      <4>1. IsFiniteSet(d.vtoc)
        BY <3>1, Sizes, FS_Subset, Zenon
      <4>2. Cardinality(d.vtoc) \in Nat
        BY <4>1, FS_CardinalityType
      <4> QED BY <1>5, <2>4, <4>2
    <3> QED BY <2>4, <3>1, <3>2, Allocated
  <2>6. AtariName(i) # NoName /\ AtariName(i) \in DosNames
    BY <1>5 DEF DosNames
  <2> HIDE DEF s, T, c, n, f
  <2>7. entry \in Dirents /\ file \in Chains
    <3>1. Min(T) \in Int
      <4>1. 1 \in 1 .. Len(c)
        BY <2>4, <2>5
      <4>2. c[1] \in DataSectors
        BY <2>5, <4>1
      <4>3. \A x \in DataSectors : x \in Int
        BY Sizes
      <4> QED BY <2>5, <4>2, <4>3, Zenon
    <3> QED BY <1>3, <2>4, <2>5, <2>6, <3>1 DEF Dirents, Chains, Flags
  <2>8. entry = EntryOf("closed", c, Len(c), AtariName(i))
    BY <2>5 DEF EntryOf
  <2> HIDE DEF entry
  <2>9. /\ r.io = d.io /\ r.error = d.error /\ r.vtoc = d.vtoc \ T
        /\ r.dirents = [d.dirents EXCEPT ![s] = entry] /\ r.stitched = [d.stitched EXCEPT ![s] = file]
        /\ r = [io |-> r.io, vtoc |-> r.vtoc, error |-> r.error, dirents |-> r.dirents, stitched |-> r.stitched]
    <3> HIDE DEF file
    <3> DEFINE v == d.vtoc \ T
               a == [d EXCEPT !.vtoc = v]
               b == [a EXCEPT !.dirents[s] = entry]
    <3>1. /\ a.io = d.io /\ a.error = d.error /\ a.vtoc = v /\ a.dirents = d.dirents /\ a.stitched = d.stitched
          /\ a = [io |-> a.io, vtoc |-> a.vtoc, error |-> a.error, dirents |-> a.dirents, stitched |-> a.stitched]
      <4> HIDE DEF v
      <4> QED BY <1>1 DEF Images
    <3> HIDE DEF a
    <3>2. /\ b.io = d.io /\ b.error = d.error /\ b.vtoc = v /\ b.stitched = d.stitched
          /\ b.dirents = [d.dirents EXCEPT ![s] = entry]
          /\ b = [io |-> b.io, vtoc |-> b.vtoc, error |-> b.error, dirents |-> b.dirents, stitched |-> b.stitched]
      <4> HIDE DEF v
      <4> QED BY <3>1
    <3>3. r = [b EXCEPT !.stitched[s] = file]
      BY Zenon DEF a, v
    <3> HIDE DEF b, v, r
    <3>4. /\ r.io = d.io /\ r.error = d.error /\ r.vtoc = v /\ r.dirents = b.dirents
          /\ r.stitched = [d.stitched EXCEPT ![s] = file]
          /\ r = [io |-> r.io, vtoc |-> r.vtoc, error |-> r.error, dirents |-> r.dirents, stitched |-> r.stitched]
      BY <3>2, <3>3
    <3> QED BY <3>2, <3>4 DEF v
  <2> HIDE DEF r
  <2>10. r \in Images
    <3> HIDE DEF file
    <3>1. /\ d.io \in Storages /\ d.vtoc \in SUBSET DataSectors /\ d.error \in BOOLEAN
          /\ d.dirents \in [1 .. Slots -> Dirents] /\ d.stitched \in [1 .. Slots -> Chains]
      BY <1>1 DEF Images
    <3>2. r.dirents \in [1 .. Slots -> Dirents] /\ r.stitched \in [1 .. Slots -> Chains]
      BY <2>7, <2>9, <3>1
    <3> QED BY <2>9, <3>1, <3>2 DEF Images
  <2>11. /\ r.dirents[s] = entry /\ r.stitched[s] = file
         /\ \A e \in 1 .. Slots \ {s} : r.dirents[e] = d.dirents[e] /\ r.stitched[e] = d.stitched[e]
    <3> HIDE DEF file
    <3>1. DOMAIN d.dirents = 1 .. Slots /\ DOMAIN d.stitched = 1 .. Slots
      BY <1>1 DEF Images
    <3> QED BY <2>2, <2>9, <3>1
  <2>12. Given(r, s, i) /\ r.stitched[s].sectors = c /\ r.stitched[s].host = f.host
    BY <2>5, <2>6, <2>8, <2>11 DEF Given, f, n
  <2>13. \A e \in 1 .. Slots \ {s} : (Unused(r, e) <=> Unused(d, e)) /\ \A k : Given(d, e, k) => Given(r, e, k)
    BY <2>11 DEF Unused, Given
  <2>14. \A e \in 1 .. Slots : Unused(r, e) \/ \E k \in 1 .. i : Given(r, e, k)
    BY <1>1, <1>2, <2>12, <2>13
  <2>15. d.stitched[s].sectors = <<>> /\ Range(d.stitched[s].sectors) = {}
    BY <2>3 DEF Unused, NoFile, Range
  <2>16. Allotted(r) = Allotted(d) \cup T
    <3>1. ASSUME NEW x PROVE x \in Allotted(r) <=> x \in Allotted(d) \cup T
      <4>1. x \in Allotted(r) <=> \E e \in 1 .. Slots : x \in Range(r.stitched[e].sectors)
        BY DEF Allotted
      <4>2. x \in Allotted(d) <=> \E e \in 1 .. Slots : x \in Range(d.stitched[e].sectors)
        BY DEF Allotted
      <4> QED BY <2>2, <2>5, <2>11, <2>12, <2>15, <4>1, <4>2
    <3> QED BY <3>1
  <2>17. r.vtoc = DataSectors \ Allotted(r)
    BY <1>1, <2>9, <2>16
  <2>18. ASSUME NEW e \in 1 .. Slots \ {s}
         PROVE  Range(r.stitched[e].sectors) \cap Range(c) = {} /\ (~Unused(r, e) => r.stitched[e].host # f.host)
    <3>1. Range(r.stitched[e].sectors) \subseteq Allotted(d)
      BY <2>11 DEF Allotted
    <3>2. T \cap Allotted(d) = {}
      BY <1>1, <2>5
    <3>3. ASSUME NEW k \in 1 .. i - 1, Given(d, e, k) PROVE r.stitched[e].host # f.host
      <4>1. d.stitched[e].host = HostDir[k].host
        BY <3>3 DEF Given
      <4> QED BY <1>3, <2>11, <4>1
    <3> QED BY <1>1, <2>5, <2>13, <3>1, <3>2, <3>3
  <2>19. ASSUME NEW a \in 1 .. Slots, NEW b \in 1 .. Slots, a # b
         PROVE  /\ Range(r.stitched[a].sectors) \cap Range(r.stitched[b].sectors) = {}
                /\ ~Unused(r, a) /\ ~Unused(r, b) => r.stitched[a].host # r.stitched[b].host
    <3>1. CASE a = s
      BY <2>12, <2>18, <2>19, <3>1
    <3>2. CASE b = s
      BY <2>12, <2>18, <2>19, <3>2
    <3>3. CASE a # s /\ b # s
      BY <1>1, <2>11, <2>13, <2>19, <3>3
    <3> QED BY <3>1, <3>2, <3>3
  <2>20. StitchInv(r, i)
    BY <1>1, <2>9, <2>10, <2>14, <2>17, <2>19 DEF StitchInv
  <2> QED BY <2>1, <2>20 DEF r, f, s, c, n, T, entry
<1> QED BY <1>4, <1>5

(* Stitching is what its definition says: a function that is given for the  *)
(* first m host files extends to one more.                                  *)
LEMMA StitchingIs ==
    /\ Stitching[0] = Blank
    /\ \A i \in 1 .. Len(HostDir) : Stitching[i] = StitchFile(Stitching[i - 1], i)
<1> DEFINE N == Len(HostDir)
           Begins(g, m) == \A i \in 0 .. m : g[i] = IF i = 0 THEN Blank ELSE StitchFile(g[i - 1], i)
           P(g) == g = [i \in 0 .. N |-> IF i = 0 THEN Blank ELSE StitchFile(g[i - 1], i)]
           T == {m \in 0 .. N : \E g : Begins(g, m)}
<1>1. N \in Nat
  BY HostDirIs
<1> HIDE DEF N
<1>2. 0 \in T
  <2> DEFINE g == [i \in 0 .. 0 |-> Blank]
  <2>1. \A i \in 0 .. 0 : i = 0
    OBVIOUS
  <2>2. \A i \in 0 .. 0 : g[i] = Blank
    OBVIOUS
  <2> HIDE DEF g
  <2>3. Begins(g, 0)
    BY <2>1, <2>2
  <2> QED BY <1>1, <2>3
<1>3. ASSUME NEW m \in 1 .. N, m - 1 \in T PROVE m \in T
  <2>1. PICK g : Begins(g, m - 1)
    BY <1>3
  <2>2. m \in 0 .. N /\ m - 1 \in 0 .. m - 1 /\ m # 0
    BY <1>1
  <2> DEFINE h == [i \in 0 .. m |-> IF i = m THEN StitchFile(g[m - 1], m) ELSE g[i]]
  <2>3. \A i \in 0 .. m - 1 : i \in 0 .. m /\ i # m /\ (i # 0 => i - 1 \in 0 .. m - 1)
    BY <1>1
  <2>4. \A i \in 0 .. m : i = m \/ i \in 0 .. m - 1
    BY <1>1
  <2>5. (\A i \in 0 .. m - 1 : h[i] = g[i]) /\ h[m] = StitchFile(g[m - 1], m)
    BY <1>1, <2>3
  <2> HIDE DEF h
  <2>6. ASSUME NEW i \in 0 .. m
        PROVE  h[i] = IF i = 0 THEN Blank ELSE StitchFile(h[i - 1], i)
    <3>1. CASE i = m
      BY <2>2, <2>5, <3>1
    <3>2. CASE i \in 0 .. m - 1
      <4>1. h[i] = g[i] /\ (i # 0 => h[i - 1] = g[i - 1])
        BY <2>3, <2>5, <3>2
      <4>2. g[i] = IF i = 0 THEN Blank ELSE StitchFile(g[i - 1], i)
        BY <2>1, <3>2
      <4> QED BY <4>1, <4>2
    <3> QED BY <2>4, <3>1, <3>2
  <2>7. Begins(h, m)
    BY <2>6
  <2> QED BY <2>2, <2>7
<1>4. 0 .. N \subseteq T
  <2> HIDE DEF T
  <2> QED BY <1>1, <1>2, <1>3, Upto
<1>5. PICK g : Begins(g, N)
  <2>1. N \in 0 .. N
    BY <1>1
  <2> QED BY <1>4, <2>1
<1> DEFINE h == [i \in 0 .. N |-> g[i]]
<1>6. P(h)
  <2>1. \A i \in 0 .. N : i # 0 => i - 1 \in 0 .. N
    BY <1>1
  <2>2. \A i \in 0 .. N : h[i] = g[i]
    OBVIOUS
  <2>3. \A i \in 0 .. N : g[i] = IF i = 0 THEN Blank ELSE StitchFile(h[i - 1], i)
    <3> HIDE DEF h
    <3> QED BY <1>5, <2>1, <2>2
  <2>4. [i \in 0 .. N |-> g[i]] = [i \in 0 .. N |-> IF i = 0 THEN Blank ELSE StitchFile(h[i - 1], i)]
    <3> HIDE DEF h
    <3> QED BY <2>3, Zenon
  <2> QED BY <2>4
<1>7. Stitching = CHOOSE f : P(f)
  BY DEF Stitching, N
<1>8. P(Stitching)
  <2> HIDE DEF P, h
  <2> QED BY <1>6, <1>7, Zenon
<1>9. \A i \in 0 .. N : Stitching[i] = IF i = 0 THEN Blank ELSE StitchFile(Stitching[i - 1], i)
  BY <1>8
<1>10. 0 \in 0 .. N /\ \A i \in 1 .. N : i \in 0 .. N /\ i # 0
  BY <1>1
<1> QED BY <1>9, <1>10 DEF N

(* So after all of them. *)
LEMMA MountInv == StitchInv(Mount, Len(HostDir))
<1> DEFINE N == Len(HostDir)
           T == {m \in 0 .. N : StitchInv(Stitching[m], m)}
<1>1. N \in Nat /\ DOMAIN HostDir = 1 .. N
  BY HostDirIs
<1>2. 0 \in T
  BY <1>1, BlankInv, StitchingIs
<1>3. ASSUME NEW m \in 1 .. N, m - 1 \in T PROVE m \in T
  <2>1. m \in 0 .. N /\ m \in DOMAIN HostDir
    BY <1>1
  <2>2. StitchInv(Stitching[m - 1], m - 1)
    BY <1>3
  <2>3. Stitching[m] = StitchFile(Stitching[m - 1], m)
    BY StitchingIs
  <2>4. StitchInv(StitchFile(Stitching[m - 1], m), m)
    BY <2>1, <2>2, StitchFileInv, Zenon
  <2> QED BY <2>1, <2>3, <2>4
<1>4. 0 .. N \subseteq T
  <2> HIDE DEF T, N
  <2> QED BY <1>1, <1>2, <1>3, Upto
<1>5. N \in 0 .. N
  BY <1>1
<1>6. StitchInv(Stitching[N], N)
  BY <1>4, <1>5
<1> QED BY <1>6 DEF Mount

(* The mounted disk, and the guest's view of it, satisfy the invariant. *)
LEMMA DosInitInv == DosInit => DosInv
<1> SUFFICES ASSUME DosInit PROVE DosInv
  OBVIOUS
<1> DEFINE d == Mount
           N == Len(HostDir)
           U == {e \in 1 .. Slots : ~Unused(d, e)}
           name(e) == d.dirents[e].name
           At(e) == [slot |-> e, sectors |-> d.stitched[e].sectors,
                     bytes |-> HostFiles[d.stitched[e].host], host |-> d.stitched[e].host]
           S == {d.dirents[e].name : e \in {e \in 1 .. Slots : InUse(d.dirents[e].flags)}}
<1>1. /\ io = d.io /\ vtoc = d.vtoc /\ dirents = d.dirents /\ stitched = d.stitched
      /\ dos = [n \in S |-> At(CHOOSE e \in 1 .. Slots : name(e) = n)]
      /\ job = NoJob /\ jobs = 0
  BY Zenon DEF DosInit
<1>2. /\ d \in Images /\ d.io = Storage(HostFiles)
      /\ d.vtoc = DataSectors \ Allotted(d)
      /\ \A e \in 1 .. Slots : Unused(d, e) \/ \E k \in 1 .. N : Given(d, e, k)
      /\ \A a, b \in 1 .. Slots :
            a # b => /\ Range(d.stitched[a].sectors) \cap Range(d.stitched[b].sectors) = {}
                     /\ ~Unused(d, a) /\ ~Unused(d, b) => d.stitched[a].host # d.stitched[b].host
  BY MountInv DEF StitchInv
<1> HIDE DEF d
<1>3. HostFiles \in Folders /\ DOMAIN HostFiles = HostNames /\ HandleInv(io) /\ io.files = HostFiles
  BY <1>1, <1>2, HostFilesAre, StorageInv
<1>4. \A e \in 1 .. Slots : Unused(d, e) => /\ d.dirents[e].flags = "unused" /\ name(e) = NoName
                                            /\ d.stitched[e].flags = "unused" /\ d.stitched[e].sectors = <<>>
                                            /\ d.stitched[e].host = NoName
  BY DEF Unused, NoEntry, NoFile
<1>5. ASSUME NEW e \in U
      PROVE  \E k \in DOMAIN HostDir :
                /\ name(e) = AtariName(k) /\ AtariName(k) # NoName
                /\ d.dirents[e] = EntryOf("closed", At(e).sectors, Len(At(e).sectors), name(e))
                /\ d.dirents[e].flags = "closed"
                /\ d.stitched[e] = [flags |-> "closed", sectors |-> At(e).sectors, host |-> At(e).host]
                /\ At(e).host = HostDir[k].host /\ WellMade(At(e))
  <2>1. PICK k \in 1 .. N : Given(d, e, k)
    BY <1>2
  <2>2. k \in DOMAIN HostDir
    BY HostDirIs
  <2> DEFINE c == d.stitched[e].sectors
             h == d.stitched[e].host
  <2>3. /\ AtariName(k) # NoName /\ d.dirents[e] = EntryOf("closed", c, Len(c), AtariName(k))
        /\ d.stitched[e] = [flags |-> "closed", sectors |-> c, host |-> HostDir[k].host]
        /\ Distinct(c) /\ Len(c) = SectorsFor(HostDir[k].length)
    BY <2>1 DEF Given
  <2>4. h = HostDir[k].host
    <3> HIDE DEF c
    <3> QED BY <2>3
  <2>5. name(e) = AtariName(k) /\ d.dirents[e].flags = "closed"
    <3> HIDE DEF c
    <3> QED BY <2>3 DEF EntryOf
  <2>6. c \in Seq(DataSectors) /\ e \in 1 .. Slots
    BY <1>2 DEF Images, Chains
  <2>7. h \in Paths /\ HostFiles[h] \in Seq(Int) /\ Len(HostFiles[h]) = HostDir[k].length
    BY <2>2, <2>4, HostFilesAre
  <2>8. At(e).slot = e /\ At(e).sectors = c /\ At(e).bytes = HostFiles[h] /\ At(e).host = h
    OBVIOUS
  <2>9. WellMade(At(e))
    <3>1. At(e) \in Files
      <4> HIDE DEF c, h
      <4> QED BY <2>6, <2>7 DEF Files, c, h
    <3> HIDE DEF At, c, h
    <3> QED BY <2>3, <2>7, <2>8, <3>1 DEF WellMade
  <2> HIDE DEF At, c, h
  <2>10. d.dirents[e] = EntryOf("closed", c, Len(c), name(e))
         /\ d.stitched[e] = [flags |-> "closed", sectors |-> c, host |-> h]
    BY <2>3, <2>4, <2>5
  <2> QED BY <2>2, <2>3, <2>4, <2>5, <2>8, <2>9, <2>10
<1>6. ASSUME NEW a \in U, NEW b \in 1 .. Slots, name(a) = name(b) PROVE a = b
  <2>1. b \in U
    <3>1. name(a) # NoName
      BY <1>5, Zenon
    <3>2. ~Unused(d, b)
      BY <1>4, <1>6, <3>1
    <3> QED BY <3>2
  <2>2. PICK k \in DOMAIN HostDir : name(a) = AtariName(k) /\ AtariName(k) # NoName /\ At(a).host = HostDir[k].host
    BY <1>5, Zenon
  <2>3. PICK l \in DOMAIN HostDir : name(b) = AtariName(l) /\ AtariName(l) # NoName /\ At(b).host = HostDir[l].host
    BY <1>5, <2>1, Zenon
  <2>4. k = l
    BY <1>6, <2>2, <2>3, AtariNames
  <2> QED BY <1>2, <2>1, <2>2, <2>3, <2>4
<1>7. \A e \in U : name(e) \in DOMAIN dos /\ dos[name(e)] = At(e)
  <2> TAKE e \in U
  <2>1. name(e) \in S
    BY <1>5 DEF InUse
  <2>2. (CHOOSE f \in 1 .. Slots : name(f) = name(e)) = e
    BY <1>6
  <2> HIDE DEF At, name, S
  <2> QED BY <1>1, <2>1, <2>2
<1>8. \A n \in DOMAIN dos : \E e \in U : n = name(e) /\ dos[n] = At(e)
  <2> TAKE n \in DOMAIN dos
  <2>1. n \in S
    BY <1>1
  <2>2. PICK e \in 1 .. Slots : InUse(d.dirents[e].flags) /\ n = name(e)
    BY <2>1
  <2>3. e \in U
    BY <1>4, <2>2 DEF InUse
  <2> QED BY <1>7, <2>2, <2>3
<1> DEFINE slot(n) == dos[n].slot
<1>9. \A e : At(e).slot = e /\ At(e).sectors = d.stitched[e].sectors /\ At(e).host = d.stitched[e].host
             /\ At(e).bytes = HostFiles[d.stitched[e].host]
  OBVIOUS
<1> HIDE DEF At, name, U
<1>10. \A e \in U : e \in 1 .. Slots /\ ~Unused(d, e) /\ WellMade(At(e))
                    /\ At(e).host \in HostNames /\ name(e) \in DosNames /\ name(e) # NoName
  <2> TAKE e \in U
  <2>1. PICK k \in DOMAIN HostDir : /\ name(e) = AtariName(k) /\ AtariName(k) # NoName
                                    /\ At(e).host = HostDir[k].host /\ WellMade(At(e))
    BY <1>5, Zenon
  <2>2. At(e).host \in HostNames /\ name(e) \in DosNames
    BY <2>1 DEF HostNames, DosNames
  <2> QED BY <2>1, <2>2 DEF U
<1>11. Catalogue(dos)
  <2>1. dos = [n \in DOMAIN dos |-> dos[n]]
    BY <1>1
  <2>2. DOMAIN dos \subseteq DosNames \ {NoName}
    BY <1>8, <1>10
  <2>3. \A n \in DOMAIN dos : WellMade(dos[n])
    BY <1>8, <1>10
  <2>4. ASSUME NEW n \in DOMAIN dos, NEW m \in DOMAIN dos, n # m PROVE Apart(dos[n], dos[m])
    <3>1. PICK a \in U : n = name(a) /\ dos[n] = At(a)
      BY <1>8
    <3>2. PICK b \in U : m = name(b) /\ dos[m] = At(b)
      BY <1>8
    <3>3. a # b
      BY <2>4, <3>1, <3>2
    <3>4. /\ Range(d.stitched[a].sectors) \cap Range(d.stitched[b].sectors) = {}
          /\ d.stitched[a].host # d.stitched[b].host
      BY <1>2, <1>10, <3>3
    <3>5. /\ dos[n].slot = a /\ dos[n].sectors = d.stitched[a].sectors /\ dos[n].host = d.stitched[a].host
          /\ dos[m].slot = b /\ dos[m].sectors = d.stitched[b].sectors /\ dos[m].host = d.stitched[b].host
      BY <1>9, <3>1, <3>2
    <3> QED BY <3>3, <3>4, <3>5 DEF Apart
  <2> QED BY <2>1, <2>2, <2>3, <2>4 DEF Catalogue
<1>12. \A n \in DOMAIN dos : Stored(Image, n, dos[n])
  <2> TAKE n \in DOMAIN dos
  <2>1. PICK e \in U : n = name(e) /\ dos[n] = At(e)
    BY <1>8
  <2>2. /\ d.dirents[e] = EntryOf("closed", At(e).sectors, Len(At(e).sectors), name(e))
        /\ d.stitched[e] = [flags |-> "closed", sectors |-> At(e).sectors, host |-> At(e).host]
    BY <1>5, Zenon
  <2>3. At(e).host \in DOMAIN io.files /\ io.files[At(e).host] = At(e).bytes
    BY <1>3, <1>9, <1>10
  <2>4. /\ Image.dirents[dos[n].slot] = d.dirents[e] /\ Image.stitched[dos[n].slot] = d.stitched[e]
        /\ Image.io = io
    BY <1>1, <1>9, <2>1, ImageIs
  <2> QED BY <2>1, <2>2, <2>3, <2>4, Zenon DEF Stored
<1>13. ASSUME NEW e \in 1 .. Slots, \A n \in DOMAIN dos : dos[n].slot # e PROVE Empty(Image, e) /\ e \notin U
  <2>1. e \notin U
    BY <1>7, <1>9, <1>13
  <2>2. Unused(d, e)
    BY <2>1 DEF U
  <2> QED BY <1>1, <1>4, <2>1, <2>2, ImageIs DEF Empty, InUse
<1>14. TakenBy(dos) = Allotted(d)
  <2>1. ASSUME NEW x \in TakenBy(dos) PROVE x \in Allotted(d)
    <3>1. PICK n \in DOMAIN dos : x \in Range(dos[n].sectors)
      BY DEF TakenBy
    <3>2. PICK e \in U : dos[n] = At(e)
      BY <1>8
    <3> QED BY <1>9, <1>10, <3>1, <3>2 DEF Allotted
  <2>2. ASSUME NEW x \in Allotted(d) PROVE x \in TakenBy(dos)
    <3>1. PICK e \in 1 .. Slots : x \in Range(d.stitched[e].sectors)
      BY DEF Allotted
    <3>2. e \in U
      <4>1. d.stitched[e].sectors # <<>>
        BY <3>1 DEF Range
      <4> QED BY <1>4, <4>1 DEF U
    <3> QED BY <1>7, <1>9, <3>1, <3>2 DEF TakenBy
  <2> QED BY <2>1, <2>2
<1>15. DiskInv(Image, dos, NoJob)
  <2>1. NoJob.phase # "close" /\ NoJob.name = NoName /\ NoJob.file.slot = 0
    BY NoJobIs
  <2>2. Image.vtoc = DataSectors \ TakenBy(dos)
    BY <1>1, <1>2, <1>14, ImageIs
  <2> QED BY <1>11, <1>12, <1>13, <2>1, <2>2 DEF DiskInv
<1>16. HostsInv(Image, dos, NoJob, stranded) /\ Gone(Image, NoJob, stranded)
  <2> DEFINE H == {d.stitched[e].host : e \in 1 .. Slots}
  <2>1. LeftOut = HostNames \ H
    BY Zenon DEF LeftOut, HostNames, d
  <2>2. HostsOf(dos) = {d.stitched[e].host : e \in U}
    <3>1. \A n \in DOMAIN dos : \E e \in U : dos[n].host = d.stitched[e].host
      BY <1>8, <1>9
    <3>2. \A e \in U : \E n \in DOMAIN dos : dos[n].host = d.stitched[e].host
      BY <1>7, <1>9
    <3> QED BY <3>1, <3>2 DEF HostsOf
  <2>3. \A e \in U : d.stitched[e].host \in HostNames /\ e \in 1 .. Slots
    BY <1>9, <1>10
  <2>4. \A e \in 1 .. Slots : e \in U \/ d.stitched[e].host = NoName
    BY <1>4 DEF U
  <2>5. NoName \notin HostNames
    BY HostFilesAre DEF HostNames
  <2>6. LeftOut \cap HostsOf(dos) = {} /\ HostNames = HostsOf(dos) \cup LeftOut
    BY <2>1, <2>2, <2>3, <2>4, <2>5
  <2>7. stranded = {}
    BY DEF DosInit
  <2> QED BY <1>3, <2>6, <2>7, NoJobIs, ImageIs DEF HostsInv, Gone
<1>17. Image \in Images
  <2>1. /\ d.vtoc \in SUBSET DataSectors /\ d.dirents \in [1 .. Slots -> Dirents]
        /\ d.stitched \in [1 .. Slots -> Chains] /\ io \in Storages
    BY <1>2, <1>3 DEF Images, HandleInv
  <2> QED BY <1>1, <2>1 DEF Image, Images
<1> QED BY <1>1, <1>3, <1>15, <1>16, <1>17 DEF DosInv

-----------------------------------------------------------------------------
(* The image keeps its invariant, whatever the host directory holds, what   *)
(* the guest does to its files and which open, create, write, truncate or   *)
(* remove fails: for a guest no two files of which have one host name.      *)
THEOREM DosInvAlways ==
    ASSUME ~MayShareHost
    PROVE  DosSpec => []DosInv
<1> QED BY DosInitInv, DosNextInv, PTL DEF DosSpec

(* Behind a disk image, too, no handle of the storage is lost or closed     *)
(* while it is cached or active (diskStitch.h:253-292).                     *)
THEOREM DosHandlesInOrderAlways ==
    ASSUME ~MayShareHost
    PROVE  DosSpec => []HandlesInOrder
<1>1. DosInv => HandlesInOrder
  BY DEF DosInv, HandleInv, HandlesInOrder
<1> QED BY <1>1, DosInvAlways, PTL

(* A file that no operation is about reads back along its links as the      *)
(* bytes last written to it (read, write of diskStitch.h).                  *)
THEOREM DosReadBackAlways ==
    ASSUME ~MayShareHost
    PROVE  DosSpec => []DosReadBack
<1> QED BY DosInvAlways, ReadsBack, PTL

(* Between two operations every sector is free or of one file, and the      *)
(* chain the image follows is the file's (stitchFile, write).               *)
THEOREM SectorsAccountedAlways ==
    ASSUME ~MayShareHost
    PROVE  DosSpec => []SectorsAccounted
<1> QED BY DosInvAlways, Accounted, PTL

(* Between two operations the host directory holds the guest's files, byte  *)
(* for byte, each under the host name it was mounted or created with, those *)
(* that were left out at the mount, and the erased ones whose remove failed *)
(* and no others: for a guest whose files never take the host name of one   *)
(* that was left out, or of one another.                                    *)
THEOREM DosCoherentAlways ==
    ASSUME ~MayShareHost, GuestApart
    PROVE  DosSpec => []DosCoherent
<1>1. DosInv => DosCoherent
  BY Coherent
<1> QED BY <1>1, DosInvAlways, PTL
=============================================================================
