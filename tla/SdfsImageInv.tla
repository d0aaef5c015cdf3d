---------------------------- MODULE SdfsImageInv ----------------------------
(***************************************************************************)
(* The inductive invariant of SdfsImage: what the image keeps of the       *)
(* guest's files between two operations, and how far it has come in the    *)
(* middle of one.  OneOwner follows from its Layout.  Then the bytes: what *)
(* the overlay and the host files hold of each file, and how much of it    *)
(* can still change (BytesHold), from which Coherent, WholeFiles, ReadBack *)
(* and what a refused write leaves follow.  SdfsImageProofs proves both    *)
(* for every value of the constants.                                       *)
(***************************************************************************)
EXTENDS SdfsImage

(* The names a file can have in the image, and on the host; its sectors. *)
AllNames == Names \cup {Inventory[i].name : i \in DOMAIN Inventory}
Paths    == AllNames \cup {Inventory[i].hostName : i \in DOMAIN Inventory}
Sectors  == 2 .. LastSector

(* The guest and storage the invariant is for.  An overwrite is not longer *)
(* than the file (docs/STITCH_SDFS.md: the code cannot tell a longer one   *)
(* from a damaged file; run sdfs_grow); a map sector is not linked to      *)
(* while the image has its old content (SdfsHeadFirst.cfg); unlink and     *)
(* rename do not fail; and no host file has the Atari name of another one. *)
SdfsGuest ==
    /\ ~MayGrow /\ ~HeadFirst /\ FaultKinds \cap {"remove", "rename"} = {}
    /\ \A i \in DOMAIN Inventory : Inventory[i].hostName \in AllNames => Inventory[i].hostName = Inventory[i].name

(* The storage for which the bytes are proved.  A replacement cuts the old *)
(* file before it opens it again, and leaves it empty if that fails        *)
(* (diskStitchImageSDFS.h:411-412): a guest that overwrites files has a    *)
(* storage whose open does not fail.                                       *)
SdfsStorage == "open" \in FaultKinds => "replace" \notin Kinds

(* A sequence without repeats; the guest's files and the image's records   *)
(* of them.                                                                *)
Distinct(s) == \A a, b \in 1 .. Len(s) : s[a] = s[b] => a = b
Files    == [slot : 1 .. Slots, maps : Seq(Sectors), data : Seq(Sectors), bytes : Seq(Int), host : Paths]
FileRecs == [hostName : Paths, name : AllNames, length : Nat, dataSectors : Seq(Sectors), mapSectors : Seq(Sectors)]

(* A file has as many sectors as its length needs, none of them twice. *)
Sound(f) ==
    /\ f \in Files /\ Len(f.bytes) > 0
    /\ Len(f.data) = SectorsFor(Len(f.bytes)) /\ Len(f.maps) = MapsFor(Len(f.data))
    /\ Distinct(f.maps) /\ Distinct(f.data) /\ Elems(f.maps) \cap Elems(f.data) = {}
Apart(f, g) == f.slot # g.slot /\ f.host # g.host /\ SectorsOf(f) \cap SectorsOf(g) = {}

(* The guest's files: each sound, and no two with a slot, host file or     *)
(* sector in common.                                                       *)
Catalogue(cat) ==
    /\ cat = [n \in DOMAIN cat |-> cat[n]] /\ DOMAIN cat \subseteq AllNames
    /\ \A n \in DOMAIN cat : Sound(cat[n]) /\ (cat[n].host = n \/ cat[n].host \notin AllNames)
    /\ \A n, m \in DOMAIN cat : n # m => Apart(cat[n], cat[m])

(* The image's record of a file, and its directory entry closed and open. *)
Record(n, f)  == [hostName |-> f.host, name |-> n, length |-> Len(f.bytes), dataSectors |-> f.data,
                  mapSectors |-> f.maps]
EntryOf(n, f) == [status |-> "active", map |-> f.maps[1], length |-> Len(f.bytes), name |-> n]
Opened(n, f)  == [status |-> "open", map |-> f.maps[1], length |-> 0, name |-> n]

(* The parts of the image have their types. *)
Image(d) ==
    /\ d = [files |-> d.files, allocated |-> d.allocated, metadata |-> d.metadata, dataRefs |-> d.dataRefs,
            directory |-> d.directory, pendingSectorWrites |-> d.pendingSectorWrites,
            pendingCreates |-> d.pendingCreates, pendingAppends |-> d.pendingAppends,
            pendingReplacements |-> d.pendingReplacements, io |-> d.io, error |-> d.error]
    /\ d.io = [host |-> d.io.host, fault |-> d.io.fault, ok |-> d.io.ok]
    /\ d.files \in Seq(FileRecs) /\ DOMAIN d.directory = 1 .. Slots
    /\ DOMAIN d.pendingSectorWrites \subseteq Sectors
    /\ d.io.fault \in Nat /\ d.io.ok \in BOOLEAN /\ d.error \in BOOLEAN

Live(d, i) == d.files[i].length > 0

(* The image's files are those of the catalogue, besides the records of    *)
(* deleted ones; metadata, dataRefs and allocated know their sectors, and  *)
(* the host has their files.                                               *)
Layout(d, cat) ==
    /\ \A i \in DOMAIN d.files :
        \/ d.files[i].length = 0 /\ d.files[i].dataSectors = <<>> /\ d.files[i].mapSectors = <<>>
        \/ d.files[i].name \in DOMAIN cat /\ d.files[i] = Record(d.files[i].name, cat[d.files[i].name])
    /\ \A n \in DOMAIN cat : \E i \in DOMAIN d.files : d.files[i] = Record(n, cat[n])
    /\ \A i, j \in DOMAIN d.files : Live(d, i) /\ Live(d, j) /\ d.files[i].name = d.files[j].name => i = j
    /\ DOMAIN d.dataRefs = UNION {Elems(cat[n].data) : n \in DOMAIN cat}
    /\ DOMAIN d.metadata = UNION {Elems(cat[n].maps) : n \in DOMAIN cat}
    /\ d.allocated = DOMAIN d.dataRefs \cup DOMAIN d.metadata
    /\ \A i \in DOMAIN d.files : \A k \in 1 .. Len(d.files[i].dataSectors) :
            d.dataRefs[d.files[i].dataSectors[k]] = [file |-> i, at |-> k]
    /\ DOMAIN d.io.host = {cat[n].host : n \in DOMAIN cat}

(* What the guest reads from a map sector, and that the maps of a file     *)
(* list its sectors.                                                       *)
Value(d, x) == IF x \in DOMAIN d.pendingSectorWrites THEN d.pendingSectorWrites[x] ELSE d.metadata[x]
Reads(d, f) ==
    \A i \in 1 .. Len(f.maps) :
        /\ f.maps[i] \in DOMAIN d.metadata \cup DOMAIN d.pendingSectorWrites
        /\ Value(d, f.maps[i]) = MapImage(f.maps, f.data, i)

(* Nothing is pending; a file that is at rest; a directory entry without a *)
(* file.                                                                   *)
NoPending(d) == DOMAIN d.pendingCreates = {} /\ DOMAIN d.pendingAppends = {} /\ DOMAIN d.pendingReplacements = {}
AtRest(d, cat, n) == d.directory[cat[n].slot] = EntryOf(n, cat[n]) /\ Reads(d, cat[n])
Vacant(d, i) == d.directory[i].status \in {"free", "deleted"}

(* The guest's operations. *)
Ops == [kind : Whole \cup {"append", "erase", "rename", "update"}, name : AllNames, as : AllNames,
        file : Files, phase : {"open", "empty", "rest"}, todo : SUBSET (1 .. LastSector), stale : BOOLEAN]

(* s is the beginning of f, sector by sector; what an operation's maps     *)
(* begin with.                                                             *)
Begins(s, f) ==
    /\ Len(s.maps) <= Len(f.maps) /\ Len(s.data) <= Len(f.data)
    /\ \A i \in 1 .. Len(s.maps) : s.maps[i] = f.maps[i]
    /\ \A k \in 1 .. Len(s.data) : s.data[k] = f.data[k]
Start(cat, o) ==
    IF o.kind = "append" THEN cat[o.name] ELSE [maps |-> <<o.file.maps[1]>>, data |-> <<>>]

(* The operation o of a guest whose files are cat; todo may have become    *)
(* empty.                                                                  *)
Plan(cat, o) ==
    LET f == o.file
        old == cat[o.name]
    IN  /\ o \in Ops /\ Sound(f) /\ o.todo \subseteq {Dir} \cup SectorsOf(f)
        /\ \A n \in DOMAIN cat \ {o.name} : Apart(f, cat[n])
        /\ IF o.kind = "create" THEN o.name \notin DOMAIN cat /\ f.host = o.name
           ELSE o.name \in DOMAIN cat /\ old.slot = f.slot
        /\ IF o.kind = "rename" THEN o.as \notin DOMAIN cat /\ f.host = o.as /\ f = [old EXCEPT !.host = o.as]
           ELSE o.as = o.name /\ (o.kind # "create" => f.host = old.host)
        /\ o.kind = "append" => /\ Begins(old, f) /\ Len(old.bytes) < Len(f.bytes)
                                /\ \A i \in 1 .. Len(old.maps) - 1 : f.maps[i] \notin o.todo
        /\ o.kind = "replace" => Begins(f, old) /\ Len(f.bytes) <= Len(old.bytes)
        /\ o.kind = "erase" => f = old
        /\ o.kind = "update" => f.maps = old.maps /\ f.data = old.data /\ Len(f.bytes) = Len(old.bytes)
        /\ o.kind \in {"erase", "rename"} => o.todo \subseteq {Dir}
        /\ o.kind = "update" => Dir \notin o.todo /\ o.todo \subseteq Elems(f.data)
        /\ o.kind \notin Whole => o.phase = "rest"
        /\ o.phase = "open" => o.todo \subseteq {Dir}
        /\ o.phase = "empty" => o.todo \subseteq {f.maps[1]}

(* The guest's files once the operation is done. *)
After(cat, o) ==
    CASE o.kind = "erase" -> Without(cat, {o.name})
      [] o.kind = "rename" -> Put(Without(cat, {o.name}), o.as, o.file)
      [] OTHER -> Put(cat, o.name, o.file)

(* The chain of f is there up to its i-th map sector, of which the image   *)
(* has nothing; one of those that the file s has not.                      *)
Missing(d, f, i) ==
    /\ f.maps[i] \notin DOMAIN d.metadata \cup DOMAIN d.pendingSectorWrites
    /\ \A k \in 1 .. i - 1 :
        /\ f.maps[k] \in DOMAIN d.metadata \cup DOMAIN d.pendingSectorWrites
        /\ Value(d, f.maps[k]) = MapImage(f.maps, f.data, k)
Gap(d, s, f) == \E i \in Len(s.maps) + 1 .. Len(f.maps) : Missing(d, f, i)

(* The maps of an operation's file list what it started from, or all of it *)
(* (up to a map sector that is not there yet), and the sectors that are    *)
(* written already are in the overlay.                                     *)
Linked(d, s, f, todo) ==
    /\ \/ Reads(d, s) /\ (Len(s.data) < Len(f.data) => f.maps[Len(s.maps)] \in todo)
       \/ Reads(d, f)
       \/ Gap(d, s, f)
    /\ \A i \in Len(s.maps) + 1 .. Len(f.maps) : f.maps[i] \notin todo =>
            /\ f.maps[i] \in DOMAIN d.pendingSectorWrites
            /\ d.pendingSectorWrites[f.maps[i]] = MapImage(f.maps, f.data, i)
    /\ \A k \in Len(s.data) + 1 .. Len(f.data) : f.data[k] \notin todo =>
            f.data[k] \in DOMAIN d.pendingSectorWrites

(* What is pending, by map sector. *)
Only(d, creates, appends, replacements) ==
    /\ DOMAIN d.pendingCreates = creates /\ DOMAIN d.pendingAppends = appends
    /\ DOMAIN d.pendingReplacements = replacements

(* A create: its entry is open, then closed and the create pending. *)
Creating(d, o) ==
    LET f == o.file
        m == f.maps[1]
        final == EntryOf(o.name, f)
    IN  /\ o.phase = "open" => NoPending(d) /\ Vacant(d, f.slot)
        /\ o.phase = "empty" => NoPending(d) /\ d.directory[f.slot] = Opened(o.name, f)
        /\ o.phase = "rest" =>
                \/ NoPending(d) /\ d.directory[f.slot] = Opened(o.name, f) /\ Dir \in o.todo
                \/ /\ Only(d, {m}, {}, {}) /\ d.directory[f.slot] = final
                   /\ d.pendingCreates[m] = [name |-> o.name, length |-> Len(f.bytes)]
PendingAppend(old, o, i, b) ==
    [file |-> i, name |-> old.host, oldLength |-> Len(old.bytes), newLength |-> Len(o.file.bytes),
     oldData |-> old.data, oldMaps |-> old.maps, hasData |-> b]

(* An append: its entry still has the old length, or the append is         *)
(* pending.                                                                *)
Appending(d, old, o) ==
    LET f == o.file
        m == f.maps[1]
    IN  /\ \/ NoPending(d) /\ d.directory[f.slot] = EntryOf(o.name, old) /\ Dir \in o.todo
           \/ /\ Only(d, {}, {m}, {}) /\ d.directory[f.slot] = EntryOf(o.name, f)
              /\ \E i \in DOMAIN d.files, b \in BOOLEAN :
                    d.files[i] = Record(o.name, old) /\ d.pendingAppends[m] = PendingAppend(old, o, i, b)
        /\ Len(old.bytes) % SectorSize # 0 /\ old.data[Len(old.data)] \notin o.todo =>
                old.data[Len(old.data)] \in DOMAIN d.pendingSectorWrites

(* A replacement: pending from the open entry on. *)
Replacing(d, old, o) ==
    LET f == o.file
        m == f.maps[1]
        begun == /\ Only(d, {}, {}, {m})
                 /\ \E i \in DOMAIN d.files : d.files[i] = Record(o.name, old)
                        /\ d.pendingReplacements[m] = [file |-> i, name |-> old.host]
    IN  /\ o.phase = "open" => NoPending(d) /\ d.directory[f.slot] = EntryOf(o.name, old) /\ Reads(d, old)
        /\ o.phase = "empty" => begun /\ d.directory[f.slot] = Opened(o.name, f)
        /\ o.phase = "rest" =>
             /\ begun
             /\ \/ d.directory[f.slot] = EntryOf(o.name, f)
                \/ d.directory[f.slot] = Opened(o.name, f) /\ Dir \in o.todo
Outputs == Whole \cup {"append"}

(* The operation is not committed yet: the image has the files of before. *)
Underway(d, cat, o) ==
    /\ Layout(d, cat)
    /\ CASE o.kind = "create" -> Creating(d, o)
         [] o.kind = "append" -> Appending(d, cat[o.name], o)
         [] o.kind = "replace" -> Replacing(d, cat[o.name], o)
         [] OTHER -> NoPending(d) /\ AtRest(d, cat, o.name)
    /\ o.kind \in Outputs /\ o.phase = "rest" => Linked(d, Start(cat, o), o.file, o.todo)

(* It is committed, though the guest has sectors left to write. *)
Committed(d, cat, o) ==
    /\ o.kind \in Outputs /\ o.phase = "rest" /\ NoPending(d)
    /\ Layout(d, After(cat, o)) /\ AtRest(d, After(cat, o), o.name)

(* Around the file of the operation everything is at rest. *)
Around(d, cat, o) ==
    /\ \A n \in DOMAIN cat \ {o.name} : AtRest(d, cat, n)
    /\ \A i \in 1 .. Slots : \/ Vacant(d, i) \/ i = o.file.slot
                             \/ \E n \in DOMAIN cat : cat[n].slot = i

(* The image while an operation is under way, and between two operations.  *)
Going(d, cat, o) ==
    /\ Catalogue(cat) /\ Image(d) /\ Plan(cat, o) /\ Around(d, cat, o)
    /\ Underway(d, cat, o) \/ Committed(d, cat, o)
Resting(d, cat) ==
    /\ Catalogue(cat) /\ Image(d) /\ Layout(d, cat) /\ NoPending(d)
    /\ \A n \in DOMAIN cat : AtRest(d, cat, n)
    /\ \A i \in 1 .. Slots : Vacant(d, i) \/ \E n \in DOMAIN cat : cat[n].slot = i

(* The inductive invariant: between two calls of write() no call has       *)
(* failed, and the image is at rest or in the middle of one operation.     *)
SdfsInv ==
    /\ disk.error = FALSE /\ disk.io.fault = 0 /\ disk.io.ok = TRUE /\ ops \in Nat
    /\ \/ op = NoOp /\ Resting(disk, sdx)
       \/ op # NoOp /\ op.todo # {} /\ Going(disk, sdx, op)

-----------------------------------------------------------------------------
(* The bytes. *)

(* What a data sector holds, the place of the j-th byte of a file in its   *)
(* sector, and the bytes of one sector of a file.                          *)
Blocks  == [1 .. SectorSize -> Int]
Cell(j) == ((j - 1) % SectorSize) + 1
Matches(c, bytes, k) == \A j \in 1 .. Len(bytes) : SectorsFor(j) = k => c[Cell(j)] = bytes[j]

(* The overlay of a file's data sectors is what the file has there, and so *)
(* is its host file, but for the sectors T.                                *)
Clean(d, f, T) ==
    \A k \in 1 .. Len(f.data) : f.data[k] \in DOMAIN d.pendingSectorWrites /\ f.data[k] \notin T =>
        d.pendingSectorWrites[f.data[k]] = Block(f.bytes, k)
Stored(d, f, T) ==
    /\ d.io.host[f.host] \in Seq(Int) /\ Len(d.io.host[f.host]) = Len(f.bytes)
    /\ \A j \in 1 .. Len(f.bytes) : f.data[SectorsFor(j)] \notin T => d.io.host[f.host][j] = f.bytes[j]

(* The overlay keeps the bytes of a file: a block of a longer file that    *)
(* begins with them is as good.                                            *)
Intact(d, f) ==
    \A k \in 1 .. Len(f.data) : f.data[k] \in DOMAIN d.pendingSectorWrites =>
        Matches(d.pendingSectorWrites[f.data[k]], f.bytes, k)

(* The data sectors whose bytes are unknown until the operation has        *)
(* written them: of an update, and of an operation that claims sectors     *)
(* which an earlier one left in the overlay.                               *)
Unsure(o) ==
    IF ~o.stale /\ o.kind # "update" THEN {} ELSE IF o.phase = "rest" THEN o.todo ELSE Elems(o.file.data)

(* An overlay is the image of a map sector of M, or the bytes of a block. *)
MapsIn(cat) == UNION {Elems(cat[n].maps) : n \in DOMAIN cat}
Typed(d, M) == \A x \in DOMAIN d.pendingSectorWrites : x \in M \/ d.pendingSectorWrites[x] \in Blocks

(* The files that the operation is not about. *)
Others(d, cat, n) == \A m \in DOMAIN cat \ {n} : Clean(d, cat[m], {}) /\ Stored(d, cat[m], {})

(* Before the commit: the old file is on the host, the overlay has only    *)
(* what the operation wrote.  An update writes through.                    *)
Early(d, cat, o) ==
    /\ Typed(d, MapsIn(cat) \cup Elems(o.file.maps))
    /\ o.kind \in Outputs => Clean(d, o.file, Unsure(o))
    /\ o.kind \in {"append", "replace", "erase", "rename"} => Stored(d, cat[o.name], {})
    /\ o.kind = "append" => Intact(d, cat[o.name])
    /\ o.kind \in {"erase", "rename"} => Clean(d, cat[o.name], {})
    /\ o.kind = "update" => Clean(d, o.file, Unsure(o)) /\ Stored(d, o.file, Unsure(o))

(* After it: the new file is on the host. *)
Late(d, cat, o) ==
    Typed(d, MapsIn(After(cat, o))) /\ Clean(d, o.file, Unsure(o)) /\ Stored(d, o.file, Unsure(o))
Doing(d, cat, o) == (Underway(d, cat, o) /\ Early(d, cat, o)) \/ (Committed(d, cat, o) /\ Late(d, cat, o))

(* The host directory is a function of its names. *)
Tidy(io) == io.host = [h \in DOMAIN io.host |-> io.host[h]]

(* The bytes in the middle of an operation, and between two.  An append    *)
(* keeps the bytes that are there.                                         *)
Bytes(d, cat, o) == Tidy(d.io) /\ Others(d, cat, o.name) /\ Doing(d, cat, o)
Rested(d, cat) ==
    Typed(d, MapsIn(cat)) /\ \A n \in DOMAIN cat : Clean(d, cat[n], {}) /\ Stored(d, cat[n], {})
Prefixed(cat, o) == o.kind = "append" => \A j \in 1 .. Len(cat[o.name].bytes) : o.file.bytes[j] = cat[o.name].bytes[j]

(* The inductive invariant of the bytes, on top of SdfsInv. *)
BytesHold ==
    /\ sdfsFaults \in Nat
    /\ op = NoOp => sdfsResult = "ok" /\ Tidy(disk.io) /\ Rested(disk, sdx)
    /\ op # NoOp => op.kind \in Kinds /\ Prefixed(sdx, op) /\ Bytes(disk, sdx, op)
=============================================================================
