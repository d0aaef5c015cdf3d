----------------------------- MODULE SdfsImage -----------------------------
(***************************************************************************)
(* A SpartaDOS disk made up from the files of a host directory, and the    *)
(* sector writes of the 6502 turned back into operations on those files    *)
(* (main/diskStitchImageSDFS.h, DiskStitchImageSDFS, as the firmware       *)
(* builds it: writePocEnabled).                                            *)
(*                                                                         *)
(* mount() lays the files out over the sectors.  A write is kept as an     *)
(* overlay (pendingSectorWrites); what the changed directory entries and   *)
(* map sectors claim is turned into a file once every sector claimed is    *)
(* there: a create, an append or a replacement stays pending until then.   *)
(* One call of write() is one step: its storage calls are made in the      *)
(* order of the code, and one of them may fail.                            *)
(*                                                                         *)
(* The 6502's side is SpartaDOS X, known here only by the sector writes    *)
(* that docs/STITCH_SDFS.md and csim/dstitch/test_sdfs.cpp describe: one   *)
(* operation at a time, its sectors in any order the guards below allow,   *)
(* and a write that was refused is sent again.                             *)
(*                                                                         *)
(* The directory is one sector with room for Slots entries, and a sector   *)
(* holds SectorSize bytes.  Boot sector and free-space bitmap, which the   *)
(* code keeps for the 6502 and never reads, their writes, and a guest that *)
(* abandons an operation are left out.                                     *)
(***************************************************************************)
EXTENDS Integers, Sequences, FiniteSetsExt

CONSTANTS
    SectorSize,     \* sdfsSectorSize: bytes in a sector
    MapEntries,     \* data sectors a map sector can list
    LastSector,     \* sectors 2 .. LastSector are for data and maps
    Slots,          \* entries of the directory
    Names,          \* the Atari names of the guest's files
    Inventory,      \* the host files at mount, in the order of their names
    Lengths,        \* lengths the guest writes
    Kinds,          \* the operations of the guest
    MayGrow,        \* an overwrite may be longer than the file it replaces
    HeadFirst,      \* a map sector may link to one whose old content is still there
    FaultKinds,     \* storage calls that can fail
    MaxOps,         \* bound: operations of the guest
    MaxFaults       \* bound: failing storage calls

Dir == 1            \* rootDirectorySectors

VARIABLES
    disk,           \* the image and its host directory
    sdx,            \* the guest's files: name -> [slot, maps, data, bytes, host]
    op,             \* the guest's operation: its file, and the sectors left to write
    ops,            \* operations started
    sdfsFaults,     \* storage calls that failed
    sdfsResult      \* of the last write: "ok" or "error"

sdfsVars == <<disk, sdx, op, ops, sdfsFaults, sdfsResult>>

Blank == [status |-> "free", map |-> 0, length |-> 0, name |-> "none"]

SectorsFor(n) == (n + SectorSize - 1) \div SectorSize
MapsFor(n)    == (n + MapEntries - 1) \div MapEntries

Elems(s)      == {s[i] : i \in DOMAIN s}
Place(s, x)   == CHOOSE i \in DOMAIN s : s[i] = x
Ascending(S)  == [k \in 1 .. Cardinality(S) |-> CHOOSE x \in S : Cardinality({y \in S : y <= x}) = k]
Put(f, x, v)  == [y \in DOMAIN f \cup {x} |-> IF y = x THEN v ELSE f[y]]
Without(f, S) == [x \in DOMAIN f \ S |-> f[x]]
Merge(f, g)   == [x \in DOMAIN f \cup DOMAIN g |-> IF x \in DOMAIN f THEN f[x] ELSE g[x]]

(* The i-th map sector of a chain, and the k-th data sector of a file: the *)
(* last one is filled up with zeros.                                       *)
MapImage(maps, data, i) ==
    [next |-> IF i < Len(maps) THEN maps[i + 1] ELSE 0,
     prev |-> IF i > 1 THEN maps[i - 1] ELSE 0,
     data |-> SubSeq(data, (i - 1) * MapEntries + 1, Min({i * MapEntries, Len(data)}))]
EmptyMap == [next |-> 0, prev |-> 0, data |-> <<>>]
Block(bytes, k) ==
    [i \in 1 .. SectorSize |-> IF (k - 1) * SectorSize + i <= Len(bytes)
                               THEN bytes[(k - 1) * SectorSize + i] ELSE 0]

-----------------------------------------------------------------------------
(* Mounting: initialize, with an empty directory as the host's.            *)

(* allocateFile: data sectors, then map sectors, from the first free on.   *)
Search[i \in 1 .. Len(Inventory) + 1] ==
    IF i = 1 THEN Dir + 1
    ELSE LET n == SectorsFor(Inventory[i - 1].length)
         IN  Search[i - 1] + n + MapsFor(n)

AllocateFile(i) ==
    LET n == SectorsFor(Inventory[i].length)
    IN  [hostName |-> Inventory[i].hostName, name |-> Inventory[i].name, length |-> Inventory[i].length,
         dataSectors |-> [k \in 1 .. n |-> Search[i] + k - 1],
         mapSectors |-> [k \in 1 .. MapsFor(n) |-> Search[i] + n + k - 1]]

(* initialize refuses a directory whose files do not fit;                  *)
(* assignAtariFilenames gives each file a name of its own.                 *)
ASSUME SdfsAssumption ==
    /\ SectorSize \in Nat \ {0} /\ MapEntries \in Nat \ {0}
    /\ LastSector \in Nat /\ Slots \in Nat \ {0}
    /\ Len(Inventory) \in 0 .. Slots /\ DOMAIN Inventory = 1 .. Len(Inventory)
    /\ \A i \in DOMAIN Inventory : Inventory[i].length \in Nat \ {0}
    /\ \A i, j \in DOMAIN Inventory :
            Inventory[i].hostName = Inventory[j].hostName \/ Inventory[i].name = Inventory[j].name => i = j
    /\ Search[Len(Inventory) + 1] <= LastSector + 1
    /\ Lengths \subseteq Nat \ {0}
    /\ FaultKinds \subseteq {"open", "pread", "pwrite", "truncate", "remove", "rename"}

Contents(i) == [k \in 1 .. Inventory[i].length |-> -100 * i - k]

(* The image; error belongs to the write under way, and so do fault, the   *)
(* storage call that fails, and ok, the result of the last one.            *)
Mount ==
    LET files    == [i \in DOMAIN Inventory |-> AllocateFile(i)]
        data     == UNION {Elems(files[i].dataSectors) : i \in DOMAIN files}
        maps     == UNION {Elems(files[i].mapSectors) : i \in DOMAIN files}
        owner(x) == CHOOSE i \in DOMAIN files :
                        x \in Elems(files[i].dataSectors) \cup Elems(files[i].mapSectors)
    IN  [files |-> files, allocated |-> data \cup maps,
         metadata |-> [m \in maps |-> LET f == files[owner(m)]
                                      IN  MapImage(f.mapSectors, f.dataSectors, Place(f.mapSectors, m))],
         dataRefs |-> [x \in data |-> [file |-> owner(x), at |-> Place(files[owner(x)].dataSectors, x)]],
         directory |-> [i \in 1 .. Slots |->
                IF i \in DOMAIN files
                THEN [status |-> "active", map |-> files[i].mapSectors[1], length |-> files[i].length,
                      name |-> files[i].name]
                ELSE Blank],
         pendingSectorWrites |-> <<>>, pendingCreates |-> <<>>, pendingAppends |-> <<>>,
         pendingReplacements |-> <<>>,
         io |-> [host |-> [h \in {files[i].hostName : i \in DOMAIN files} |->
                                Contents(CHOOSE i \in DOMAIN files : files[i].hostName = h)],
                 fault |-> 0, ok |-> TRUE],
         error |-> FALSE]

-----------------------------------------------------------------------------
(* The storage (StorageInterface).  A write that fails has stored all but  *)
(* the last byte.                                                          *)

Call(io, kind, works) ==
    [io EXCEPT !.ok    = works /\ ~(kind \in FaultKinds /\ io.fault = 1),
               !.fault = IF kind \in FaultKinds /\ @ > 0 THEN @ - 1 ELSE @]

Over(old, bytes, at) ==
    SubSeq(old, 1, at) \o bytes \o SubSeq(old, at + Len(bytes) + 1, Len(old))

Open(io, h)    == Call(io, "open", h \in DOMAIN io.host)
OpenNew(io, h) == LET c == Call(io, "open", h \notin DOMAIN io.host)
                  IN  IF c.ok THEN [c EXCEPT !.host = Put(@, h, <<>>)] ELSE c
Pwrite(io, h, bytes, at) ==
    LET c == Call(io, "pwrite", TRUE)
    IN  [c EXCEPT !.host[h] = Over(@, IF c.ok THEN bytes ELSE SubSeq(bytes, 1, Len(bytes) - 1), at)]
Truncate(io, h, n) ==
    LET c == Call(io, "truncate", h \in DOMAIN io.host)
    IN  IF c.ok THEN [c EXCEPT !.host[h] = SubSeq(@, 1, n)] ELSE c
(* Faulty: remove as StorageInterface has it by default, which does nothing. *)
UnlinkNothing(io, h) == Call(io, "remove", TRUE)

Unlink(io, h) ==
    LET c == Call(io, "remove", h \in DOMAIN io.host)
    IN  IF c.ok THEN [c EXCEPT !.host = Without(@, {h})] ELSE c
RenameTo(io, h, g) ==
    LET c == Call(io, "rename", h \in DOMAIN io.host /\ g \notin DOMAIN io.host)
    IN  IF c.ok THEN [c EXCEPT !.host = Put(Without(@, {h}), g, io.host[h])] ELSE c

(* The host call of io has failed, or the code refuses without one. *)
Failed(d, io) == [d EXCEPT !.io = io, !.error = TRUE]
Fail(d)       == Failed(d, d.io)

-----------------------------------------------------------------------------
(* Reading. *)

(* read: the overlay, then the image's own sectors, then the host file     *)
(* (<<>>: a host file that is too short is an error).                      *)
ReadSector(d, x) ==
    CASE x \in DOMAIN d.pendingSectorWrites -> d.pendingSectorWrites[x]
      [] x \notin DOMAIN d.pendingSectorWrites /\ x \in DOMAIN d.metadata -> d.metadata[x]
      [] x \notin DOMAIN d.pendingSectorWrites \cup DOMAIN d.metadata /\ x \in DOMAIN d.dataRefs ->
            LET f     == d.files[d.dataRefs[x].file]
                bytes == d.io.host[f.hostName]
                k     == d.dataRefs[x].at
                upto  == Min({k * SectorSize, f.length})
            IN  IF Len(bytes) < upto THEN <<>> ELSE Block(SubSeq(bytes, 1, upto), k)
      [] OTHER -> [i \in 1 .. SectorSize |-> 0]

(* The storage calls of a read. *)
Access(d, x) ==
    IF x \notin DOMAIN d.dataRefs \/ x \in DOMAIN d.pendingSectorWrites THEN d.io
    ELSE LET o == Open(d.io, d.files[d.dataRefs[x].file].hostName)
         IN  IF o.ok THEN Call(o, "pread", ReadSector(d, x) # <<>>) ELSE o

(* Faulty: a chain whose next sector is not there yet contradicts itself.  *)
FollowImpatient(d, known, c) ==
    IF c.current = 0 \/ c.status # "read" THEN c
    ELSE IF c.current \in Elems(c.maps)
            \/ (Len(c.maps) >= known /\ c.current \notin DOMAIN d.metadata \cup DOMAIN d.pendingSectorWrites)
         THEN [c EXCEPT !.status = "bad"]
    ELSE LET image == ReadSector(d, c.current)
         IN  IF c.maps # <<>> /\ image.prev # c.maps[Len(c.maps)] THEN [c EXCEPT !.status = "bad"]
             ELSE [c EXCEPT !.maps = Append(@, c.current), !.listed = @ \o image.data,
                            !.current = image.next]

(* readMapChain: status "bad" for a chain that contradicts itself,         *)
(* "incomplete" for one whose next sector was not written yet.             *)
Follow(d, known, c) ==
    IF c.current = 0 \/ c.status # "read" THEN c
    ELSE IF c.current \in Elems(c.maps) THEN [c EXCEPT !.status = "bad"]
    ELSE IF Len(c.maps) >= known /\ c.current \notin DOMAIN d.metadata \cup DOMAIN d.pendingSectorWrites
         THEN [c EXCEPT !.status = "incomplete"]
    ELSE LET image == ReadSector(d, c.current)
         IN  IF c.maps # <<>> /\ image.prev # c.maps[Len(c.maps)] THEN [c EXCEPT !.status = "bad"]
             ELSE [c EXCEPT !.maps = Append(@, c.current), !.listed = @ \o image.data,
                            !.current = image.next]

ReadMapChain(d, first, known) ==
    LET chain[k \in 0 .. LastSector] ==
            IF k = 0 THEN [maps |-> <<>>, listed |-> <<>>, current |-> first, status |-> "read"]
            ELSE Follow(d, known, chain[k - 1])
    IN  chain[LastSector]

(* finalizedDirectoryEntry: {} or the length of the active entry. *)
FinalizedEntry(d, map, name) ==
    LET found == {i \in 1 .. Slots : /\ d.directory[i].status = "active"
                                     /\ d.directory[i].map = map /\ d.directory[i].name = name}
    IN  IF found = {} THEN {} ELSE {d.directory[Min(found)].length}

FilesAt(d, map, name) ==
    {i \in DOMAIN d.files : /\ d.files[i].mapSectors # <<>> /\ d.files[i].mapSectors[1] = map
                            /\ d.files[i].name = name}

(* Faulty: the name of a deleted file stays taken. *)
IsKnownName(d, name) == \E i \in DOMAIN d.files : d.files[i].name = name

IsInventoriedName(d, name) == \E i \in DOMAIN d.files : d.files[i].length > 0 /\ d.files[i].name = name

(* After a commit: overlays of the image's own sectors become the sectors. *)
Settle(d) ==
    LET own == DOMAIN d.metadata \cap DOMAIN d.pendingSectorWrites
    IN  [d EXCEPT !.metadata = [m \in DOMAIN @ |-> IF m \in own THEN d.pendingSectorWrites[m] ELSE @[m]],
                  !.pendingSectorWrites = Without(@, own)]

-----------------------------------------------------------------------------
(* A change of a directory entry. *)

(* commitRenamedDirectoryEntries *)
CommitRename(d, before, after) ==
    LET at   == FilesAt(d, before.map, before.name)
        i    == Min(at)
        h    == d.files[i].hostName
        done == IF h = after.name THEN [d.io EXCEPT !.ok = TRUE] ELSE RenameTo(d.io, h, after.name)
    IN  IF \/ before.status # "active" \/ after.status # "active" \/ before.name = after.name
           \/ before.map # after.map \/ before.length # after.length \/ at = {} THEN d
        ELSE IF \E k \in DOMAIN d.files \ {i} : d.files[k].length > 0 /\ d.files[k].name = after.name
             THEN Fail(d)
        ELSE IF ~done.ok THEN Failed(d, done)
        ELSE [d EXCEPT !.io = done,
                       !.files[i] = [@ EXCEPT !.hostName = after.name, !.name = after.name],
                       !.pendingReplacements = Without(@, {before.map})]

(* beginPendingReplacement: an active entry opened for writing. *)
BeginReplacement(d, before, after) ==
    LET at == FilesAt(d, before.map, before.name)
    IN  IF before.status # "active" \/ after.status # "open" \/ at = {} THEN d
        ELSE [d EXCEPT !.pendingReplacements =
                Put(@, before.map, [file |-> Min(at), name |-> d.files[Min(at)].hostName])]

(* stageHypothesisFromDirectoryUpdate: a changed active entry is a file to *)
(* create or, if its map is known and its length grew, one to extend.      *)
(* hasData: dataSectors, which holds the directory sector at least, is not *)
(* empty.                                                                  *)
StageHypothesis(d, before, after) ==
    LET at   == FilesAt(d, after.map, after.name)
        i    == Min(at)
        f    == d.files[i]
    IN  IF before = after \/ after.status # "active" THEN d
        ELSE IF at # {} THEN
             IF after.length <= f.length \/ after.map \in DOMAIN d.pendingAppends THEN d
             ELSE IF f.dataSectors = <<>> THEN Fail(d)
             ELSE [d EXCEPT !.pendingAppends =
                    Put(@, after.map, [file |-> i, name |-> f.hostName, oldLength |-> f.length,
                                       newLength |-> after.length, oldData |-> f.dataSectors,
                                       oldMaps |-> f.mapSectors, hasData |-> TRUE])]
        ELSE IF \/ after.length = 0 \/ IsInventoriedName(d, after.name)
                \/ after.map \notin DOMAIN d.pendingSectorWrites
                \/ after.map \in DOMAIN d.pendingCreates THEN d
        ELSE [d EXCEPT !.pendingCreates = Put(@, after.map, [name |-> after.name, length |-> after.length])]

(* commitDeletedDirectoryEntries *)
CommitDelete(d, before, after) ==
    LET at == {i \in FilesAt(d, before.map, before.name) : d.files[i].length > 0}
        f  == d.files[Min(at)]
        io == Unlink(d.io, f.hostName)
    IN  IF before.status # "active" \/ after.status # "deleted" \/ at = {} THEN d
        ELSE IF ~io.ok THEN Failed(d, io)
        ELSE Settle([d EXCEPT !.io = io, !.allocated = @ \ (Elems(f.dataSectors) \cup Elems(f.mapSectors)),
                !.dataRefs = Without(@, Elems(f.dataSectors)),
                !.metadata = Without(@, Elems(f.mapSectors)),
                !.pendingSectorWrites = Without(@, Elems(f.mapSectors)),
                !.files[Min(at)] = [@ EXCEPT !.length = 0, !.dataSectors = <<>>, !.mapSectors = <<>>]])

-----------------------------------------------------------------------------
(* Commits.  Each returns the image unchanged while sectors are missing.   *)

(* Faulty: the sectors are written from the start of the file on. *)
PwriteFromStart(io, overlay, h, sectors, length, from) ==
    LET stored[k \in 0 .. Len(sectors)] ==
            LET at == (k - 1) * SectorSize
            IN  IF k = 0 THEN [io EXCEPT !.ok = TRUE]
                ELSE IF ~stored[k - 1].ok THEN stored[k - 1]
                ELSE Pwrite(stored[k - 1], h,
                            SubSeq(overlay[sectors[k]], 1, Min({length - at, SectorSize})), at)
    IN  stored[Len(sectors)]

(* The host calls that write pending sectors to a file, from one of its    *)
(* sectors on, up to the first that fails.                                 *)
PwriteSectors(io, overlay, h, sectors, length, from) ==
    LET stored[k \in 0 .. Len(sectors)] ==
            LET at == (from + k - 1) * SectorSize
            IN  IF k = 0 THEN [io EXCEPT !.ok = TRUE]
                ELSE IF ~stored[k - 1].ok THEN stored[k - 1]
                ELSE Pwrite(stored[k - 1], h,
                            SubSeq(overlay[sectors[k]], 1, Min({length - at, SectorSize})), at)
    IN  stored[Len(sectors)]

(* Faulty: files counted from one where they are counted from zero. *)
ClaimNext(d, i, length, maps, data) ==
    [d EXCEPT !.allocated = @ \cup Elems(data) \cup Elems(maps),
              !.dataRefs  = Merge([x \in Elems(data) |-> [file |-> i + 1, at |-> Place(data, x)]], @),
              !.metadata  = Merge([m \in Elems(maps) |-> ReadSector(d, m)], @),
              !.files[i]  = [@ EXCEPT !.length = length, !.dataSectors = data, !.mapSectors = maps]]

(* The sectors a file has after its commit. *)
Claim(d, i, length, maps, data) ==
    [d EXCEPT !.allocated = @ \cup Elems(data) \cup Elems(maps),
              !.dataRefs  = Merge([x \in Elems(data) |-> [file |-> i, at |-> Place(data, x)]], @),
              !.metadata  = Merge([m \in Elems(maps) |-> ReadSector(d, m)], @),
              !.files[i]  = [@ EXCEPT !.length = length, !.dataSectors = data, !.mapSectors = maps]]

Forget(d, S) == [d EXCEPT !.pendingSectorWrites = Without(@, S)]

(* commitPendingCreate; afterwards the pending create is dropped.          *)
CommitCreate(d, map) ==
    LET p     == d.pendingCreates[map]
        entry == FinalizedEntry(d, map, p.name)
        chain == ReadMapChain(d, map, 0)
        n     == SectorsFor(p.length)
        new   == OpenNew(d.io, p.name)
        full  == PwriteSectors(new, d.pendingSectorWrites, p.name, chain.listed, p.length, 0)
        file  == [hostName |-> p.name, name |-> p.name, length |-> p.length,
                  dataSectors |-> <<>>, mapSectors |-> <<>>]
        done  == Claim([d EXCEPT !.io = full, !.files = Append(@, file)], Len(d.files) + 1,
                       p.length, chain.maps, chain.listed)
    IN  IF entry = {} THEN d
        ELSE IF entry # {p.length} \/ IsInventoriedName(d, p.name) \/ chain.status = "bad" THEN Fail(d)
        ELSE IF chain.status = "incomplete" \/ Len(chain.listed) < n THEN d
        ELSE IF Len(chain.listed) # n \/ Len(chain.maps) > n + 1 THEN Fail(d)
        ELSE IF Cardinality((Elems(chain.listed) \cap DOMAIN d.pendingSectorWrites) \ Elems(chain.maps)) < n
             THEN d
        ELSE IF ~new.ok THEN Failed(d, new)
        ELSE IF ~full.ok THEN Failed(d, Unlink(full, p.name))
        ELSE [Forget(Settle(done), Elems(chain.maps) \cup Elems(chain.listed))
                EXCEPT !.pendingCreates = Without(@, {map})]

(* commitPendingAppend *)
CommitAppend(d0, map) ==
    LET p       == d0.pendingAppends[map]
        f       == d0.files[p.file]
        chain   == ReadMapChain(d0, map, Len(p.oldMaps))
        n       == SectorsFor(p.newLength)
        newMaps == SubSeq(chain.maps, Len(p.oldMaps) + 1, Len(chain.maps))
        newData == SubSeq(chain.listed, Len(p.oldData) + 1, Len(chain.listed))
        d       == [d0 EXCEPT !.pendingAppends[map].hasData = newData # <<>>]
        entry   == FinalizedEntry(d, map, f.name)
        tail    == IF p.oldLength % SectorSize = 0 THEN <<>> ELSE <<p.oldData[Len(p.oldData)]>>
        from    == p.oldLength \div SectorSize
        opened  == Open(d.io, f.hostName)
        full    == PwriteSectors(opened, d.pendingSectorWrites, f.hostName, tail \o newData, p.newLength, from)
    IN  IF \/ f.hostName # p.name \/ f.length # p.oldLength
           \/ f.mapSectors # p.oldMaps \/ f.dataSectors # p.oldData \/ chain.status = "bad" THEN Fail(d0)
        ELSE IF chain.status = "incomplete" \/ Len(chain.listed) < n THEN d0
        ELSE IF \/ SubSeq(chain.maps, 1, Len(p.oldMaps)) # p.oldMaps
                \/ SubSeq(chain.listed, 1, Len(p.oldData)) # p.oldData
                \/ Len(chain.listed) # n \/ Elems(newData) \cap Elems(chain.maps) # {}
                \/ Cardinality(Elems(newData)) # Len(newData) THEN Fail(d0)
        ELSE IF ~(Elems(newData) \subseteq DOMAIN d.pendingSectorWrites) THEN d0
        ELSE IF entry = {} THEN d
        ELSE IF entry # {p.newLength} THEN Fail(d)
        ELSE IF ~(Elems(tail) \subseteq DOMAIN d.pendingSectorWrites) THEN d
        ELSE IF newData # <<>> /\ (Elems(newMaps) \cup Elems(newData)) \cap d.allocated # {} THEN Fail(d)
        ELSE IF ~opened.ok THEN Failed(d, opened)
        ELSE IF ~full.ok THEN Failed(d, Truncate(full, f.hostName, p.oldLength))
        ELSE [Forget(Settle(Claim([d EXCEPT !.io = full], p.file, p.newLength, chain.maps, chain.listed)),
                     Elems(chain.maps) \cup Elems(newData) \cup Elems(tail))
                EXCEPT !.pendingAppends = Without(@, {map})]

(* commitPendingReplacement *)
CommitReplacement(d, map) ==
    LET p      == d.pendingReplacements[map]
        f      == d.files[p.file]
        h      == f.hostName
        entry  == FinalizedEntry(d, map, f.name)
        length == CHOOSE l \in entry : TRUE
        n      == SectorsFor(length)
        chain  == ReadMapChain(d, map, Len(f.mapSectors))
        claims == Elems(chain.listed) \cup Elems(chain.maps)
        bytes  == [j \in 1 .. length |->
                    d.pendingSectorWrites[chain.listed[SectorsFor(j)]][((j - 1) % SectorSize) + 1]]
        old    == Open(d.io, h)
        read   == Call(old, "pread", TRUE)
        cut    == Truncate(read, h, 0)
        new    == Open(cut, h)
        full   == Pwrite(new, h, bytes, 0)
        again  == Open(Truncate(full, h, 0), h)
        lostData == Elems(f.dataSectors) \ Elems(chain.listed)
        lostMaps == Elems(f.mapSectors) \ Elems(chain.maps)
    IN  IF h # p.name \/ f.mapSectors = <<>> \/ f.mapSectors[1] # map THEN Fail(d)
        ELSE IF entry = {} THEN d
        ELSE IF chain.status = "bad" THEN Fail(d)
        ELSE IF chain.status = "incomplete" \/ Len(chain.listed) < n THEN d
        ELSE IF Len(chain.listed) # n THEN Fail(d)
        ELSE IF ~(Elems(chain.listed) \subseteq DOMAIN d.pendingSectorWrites) THEN d
        ELSE IF \E x \in claims \cap DOMAIN d.dataRefs : d.dataRefs[x].file # p.file THEN d
        ELSE IF ~old.ok THEN Failed(d, old)
        ELSE IF ~read.ok THEN Failed(d, read)
        ELSE IF ~cut.ok THEN Failed(d, cut)
        ELSE IF ~new.ok THEN Failed(d, new)
        ELSE IF ~full.ok THEN Failed(d, IF again.ok THEN Pwrite(again, h, read.host[h], 0)
                                        ELSE Truncate(full, h, 0))
        ELSE [Forget(Claim([d EXCEPT !.io = full, !.allocated = @ \ (lostData \cup lostMaps),
                                     !.dataRefs = Without(@, lostData),
                                     !.metadata = Without(@, lostMaps)],
                           p.file, length, chain.maps, chain.listed), lostData \cup lostMaps \cup claims)
                EXCEPT !.pendingReplacements = Without(@, {map})]

-----------------------------------------------------------------------------
(* write *)

(* Faulty: also while the file is being replaced. *)
WriteThroughAlways(d, x) ==
    LET r      == d.dataRefs[x]
        f      == d.files[r.file]
        at     == (r.at - 1) * SectorSize
        opened == Open(d.io, f.hostName)
        full   == Pwrite(opened, f.hostName,
                         SubSeq(d.pendingSectorWrites[x], 1, Min({f.length - at, SectorSize})), at)
    IN  IF x \notin DOMAIN d.dataRefs THEN d
        ELSE IF at >= f.length THEN Fail(d)
        ELSE IF ~opened.ok THEN Failed(d, opened)
        ELSE IF ~full.ok THEN Failed(d, full)
        ELSE [d EXCEPT !.io = full]

(* A write to a data sector of a file goes through to the host, unless the *)
(* file is being replaced.                                                 *)
WriteThrough(d, x) ==
    LET r      == d.dataRefs[x]
        f      == d.files[r.file]
        at     == (r.at - 1) * SectorSize
        opened == Open(d.io, f.hostName)
        full   == Pwrite(opened, f.hostName,
                         SubSeq(d.pendingSectorWrites[x], 1, Min({f.length - at, SectorSize})), at)
    IN  IF x \notin DOMAIN d.dataRefs
           \/ \E m \in DOMAIN d.pendingReplacements : d.pendingReplacements[m].file = r.file THEN d
        ELSE IF at >= f.length THEN Fail(d)
        ELSE IF ~opened.ok THEN Failed(d, opened)
        ELSE IF ~full.ok THEN Failed(d, full)
        ELSE [d EXCEPT !.io = full]

(* The commits of one kind, in the order of the maps, until one of them    *)
(* returns an error.                                                       *)
Commit(kind, d, map) ==
    CASE kind = "create" -> CommitCreate(d, map)
      [] kind = "append" -> CommitAppend(d, map)
      [] kind = "replace" -> CommitReplacement(d, map)
CommitEach(kind, d, S) ==
    LET done[k \in 0 .. Cardinality(S)] ==
            IF k = 0 THEN d
            ELSE IF done[k - 1].error THEN done[k - 1]
            ELSE Commit(kind, done[k - 1], Ascending(S)[k])
    IN  done[Cardinality(S)]

(* A pass over the entries of the directory. *)
Change(kind, d, before, after) ==
    CASE kind = "rename" -> CommitRename(d, before, after)
      [] kind = "open" -> BeginReplacement(d, before, after)
      [] kind = "stage" -> StageHypothesis(d, before, after)
      [] kind = "delete" -> CommitDelete(d, before, after)
Pass(kind, d, before, after) ==
    LET done[i \in 0 .. Slots] ==
            IF i = 0 THEN d
            ELSE IF done[i - 1].error THEN done[i - 1]
            ELSE Change(kind, done[i - 1], before[i], after[i])
    IN  done[Slots]

Waiting(d)       == {m \in DOMAIN d.pendingAppends : ~d.pendingAppends[m].hasData}
ExtendWaiting(d) == CommitEach("append", d, Waiting(d))

(* A write of the directory: renames, replacements begun, hypotheses,      *)
(* deletions, and the appends that only had to wait for their tail.        *)
DirectoryWrite(d, before, after) ==
    LET renamed == Pass("rename", d, before, after)
        opened  == Pass("open", renamed, before, after)
        staged  == Pass("stage", opened, before, after)
        deleted == Pass("delete", staged, before, after)
    IN  ExtendWaiting(deleted)

CreateAll(d)  == CommitEach("create", d, DOMAIN d.pendingCreates)
ExtendAll(d)  == CommitEach("append", d, DOMAIN d.pendingAppends)
ReplaceAll(d) == CommitEach("replace", d, DOMAIN d.pendingReplacements)
Commits(d)    == ReplaceAll(ExtendAll(CreateAll(d)))

(* The write is staged, its storage call made and what it completes is     *)
(* committed, up to the first error.                                       *)
Stage(d, x, content) ==
    IF ~d.io.ok THEN Fail(d)
    ELSE IF x = Dir THEN DirectoryWrite([d EXCEPT !.directory = content], d.directory, content)
    ELSE WriteThrough([d EXCEPT !.pendingSectorWrites = Put(@, x, content)], x)

Complete(d) == IF d.error THEN d ELSE Commits(d)

(* write(): the whole call, the f-th of its storage calls failing. *)
Write(d, x, content, f) ==
    LET begun  == [d EXCEPT !.io.fault = f, !.io.ok = TRUE, !.error = FALSE]
    IN  Complete(Stage([begun EXCEPT !.io = Access(begun, x)], x, content))

-----------------------------------------------------------------------------
(* The guest. *)

NoOp == [kind |-> "none", name |-> "none", as |-> "none", file |-> <<>>, phase |-> "none",
         todo |-> {}, stale |-> FALSE]

SectorsOf(f) == Elems(f.maps) \cup Elems(f.data)
InUse    == UNION {SectorsOf(sdx[n]) : n \in DOMAIN sdx}
Free     == Ascending((2 .. LastSector) \ InUse)
FreeSlot == Min({i \in 1 .. Slots : disk.directory[i].status \in {"free", "deleted"}})

NewBytes(n) == [k \in 1 .. n |-> 10 * (ops + 1) + k]

(* An operation opens the directory entry and empties the first map        *)
(* sector, if it writes the whole file; then come its sectors, in any      *)
(* order.  A map sector may come before those it links to                  *)
(* (test_sdfs.cpp:648), as long as the image has nothing in their place:   *)
(* the old map sectors of a file that is overwritten, and those that an    *)
(* update of an earlier file left in the overlay, are written before they  *)
(* are linked to, unless HeadFirst.                                        *)
Whole == {"create", "replace"}

Begin(kind, name, as, file, sectors) ==
    /\ op = NoOp /\ ops < MaxOps /\ kind \in Kinds
    /\ ops' = ops + 1
    /\ op' = [kind |-> kind, name |-> name, as |-> as, file |-> file,
              phase |-> IF kind \in Whole THEN "open" ELSE "rest",
              todo |-> IF kind \in Whole THEN {Dir} ELSE sectors,
              stale |-> sectors \cap DOMAIN disk.pendingSectorWrites # {}]
    /\ UNCHANGED <<disk, sdx, sdfsFaults, sdfsResult>>

(* A new file. *)
CreateFile(name, length) ==
    LET n    == SectorsFor(length)
        m    == MapsFor(n)
        file == [slot |-> FreeSlot, maps |-> SubSeq(Free, 1, m), data |-> SubSeq(Free, m + 1, m + n),
                 bytes |-> NewBytes(length), host |-> name]
    IN  /\ name \notin DOMAIN sdx /\ Len(Free) >= m + n
        /\ Cardinality(DOMAIN sdx) < Slots
        /\ Begin("create", name, name, file, {Dir} \cup SectorsOf(file))

(* A longer file: the last sector, if it has room, is written again with   *)
(* its bytes kept, and so is the last map sector if there is new data.     *)
ExtendFile(name, length) ==
    LET f    == sdx[name]
        old  == Len(f.bytes)
        n    == SectorsFor(length) - Len(f.data)
        m    == MapsFor(SectorsFor(length)) - Len(f.maps)
        file == [f EXCEPT !.maps = @ \o SubSeq(Free, 1, m), !.data = @ \o SubSeq(Free, m + 1, m + n),
                          !.bytes = @ \o [k \in 1 .. length - old |-> NewBytes(length)[old + k]]]
        fresh == {file.data[k] : k \in Len(f.data) + 1 .. Len(f.data) + n}
    IN  /\ name \in DOMAIN sdx /\ length > old /\ Len(Free) >= m + n
        /\ Begin("append", name, name, file,
                 {Dir} \cup fresh
                 \cup (IF n > 0 THEN {file.maps[i] : i \in Len(f.maps) .. Len(f.maps) + m} ELSE {})
                 \cup (IF old % SectorSize # 0 THEN {f.data[Len(f.data)]} ELSE {}))

(* Overwriting: the sectors of the old file come first in the new one.     *)
ReplaceFile(name, length) ==
    LET f     == sdx[name]
        n     == SectorsFor(length)
        m     == MapsFor(n)
        fresh == n - Len(f.data) + m - Len(f.maps)
        file  == [f EXCEPT !.maps = SubSeq(@ \o SubSeq(Free, 1, m - Len(f.maps)), 1, m),
                           !.data = SubSeq(@ \o SubSeq(Free, m - Len(f.maps) + 1, fresh), 1, n),
                           !.bytes = NewBytes(length)]
    IN  /\ name \in DOMAIN sdx /\ (MayGrow \/ length <= Len(f.bytes)) /\ fresh <= Len(Free)
        /\ Begin("replace", name, name, file, {Dir} \cup SectorsOf(file))

EraseFile(name) ==
    /\ name \in DOMAIN sdx
    /\ Begin("erase", name, name, sdx[name], {Dir})

RenameFile(name, new) ==
    /\ name \in DOMAIN sdx /\ new \notin DOMAIN sdx
    /\ Begin("rename", name, new, [sdx[name] EXCEPT !.host = new], {Dir})

(* A sector of a file rewritten in place. *)
UpdateFile(name, k) ==
    LET f     == sdx[name]
        fresh == [i \in 1 .. Len(f.bytes) |-> IF SectorsFor(i) = k THEN NewBytes(Len(f.bytes))[i] ELSE f.bytes[i]]
    IN  /\ name \in DOMAIN sdx /\ k \in DOMAIN f.data
        /\ Begin("update", name, name, [f EXCEPT !.bytes = fresh], {f.data[k]})

(* The sector that is written, by what it belongs to. *)
Entry == [status |-> CASE op.phase = "open" -> "open" [] op.kind = "erase" -> "deleted" [] OTHER -> "active",
          map    |-> op.file.maps[1],
          length |-> IF op.phase = "open" THEN 0 ELSE Len(op.file.bytes),
          name   |-> op.as]
Content(x) ==
    IF x = Dir THEN [disk.directory EXCEPT ![op.file.slot] = Entry]
    ELSE IF x \notin Elems(op.file.maps) THEN Block(op.file.bytes, Place(op.file.data, x))
    ELSE IF op.phase = "empty" THEN EmptyMap
    ELSE MapImage(op.file.maps, op.file.data, Place(op.file.maps, x))

(* The guest's files after the operation. *)
Done ==
    CASE op.kind = "erase" -> Without(sdx, {op.name})
      [] op.kind = "rename" -> Put(Without(sdx, {op.name}), op.as, op.file)
      [] OTHER -> Put(sdx, op.name, op.file)

(* Nothing is in the place of the map sectors that x links to and that are *)
(* still to be written.                                                    *)
InOrder(d, o, x) ==
    \A i \in DOMAIN o.file.maps : x = o.file.maps[i] =>
        \A j \in i + 1 .. Len(o.file.maps) : o.file.maps[j] \in o.todo =>
            o.file.maps[j] \notin DOMAIN d.metadata \cup DOMAIN d.pendingSectorWrites

(* The guest sends a write.  One that is refused stays to be sent again.   *)
Sent(x, f, after) ==
    LET todo == op.todo \ {x}
    IN  /\ x \in op.todo
        /\ HeadFirst \/ InOrder(disk, op, x)
        /\ f \in 0 .. 4 /\ (f > 0 => sdfsFaults < MaxFaults /\ after.io.fault = 0)
        /\ sdfsFaults' = sdfsFaults + (IF f > 0 THEN 1 ELSE 0)
        /\ disk' = [after EXCEPT !.io.fault = 0, !.io.ok = TRUE, !.error = FALSE]
        /\ sdfsResult' = IF after.error THEN "error" ELSE "ok"
        /\ CASE after.error -> UNCHANGED <<op, sdx>>
             [] ~after.error /\ todo # {} -> op' = [op EXCEPT !.todo = todo] /\ UNCHANGED sdx
             [] ~after.error /\ todo = {} /\ op.phase = "open" ->
                    op' = [op EXCEPT !.phase = "empty", !.todo = {op.file.maps[1]}] /\ UNCHANGED sdx
             [] ~after.error /\ todo = {} /\ op.phase = "empty" ->
                    op' = [op EXCEPT !.phase = "rest", !.todo = {Dir} \cup SectorsOf(op.file)]
                    /\ UNCHANGED sdx
             [] ~after.error /\ todo = {} /\ op.phase = "rest" -> op' = NoOp /\ sdx' = Done
        /\ UNCHANGED ops
GuestWrite(x, f) == Sent(x, f, Write(disk, x, Content(x), f))

SdfsInit ==
    /\ disk = Mount
    /\ sdx = [n \in {Inventory[i].name : i \in DOMAIN Inventory} |->
                LET i == CHOOSE i \in DOMAIN Inventory : Inventory[i].name = n
                    f == AllocateFile(i)
                IN  [slot |-> i, maps |-> f.mapSectors, data |-> f.dataSectors,
                     bytes |-> Contents(i), host |-> f.hostName]]
    /\ op = NoOp /\ ops = 0 /\ sdfsFaults = 0 /\ sdfsResult = "ok"

SdfsNext ==
    \/ \E n \in Names, l \in Lengths :
            CreateFile(n, l) \/ ExtendFile(n, l) \/ ReplaceFile(n, l)
    \/ \E n \in Names : EraseFile(n) \/ (\E k \in 1 .. LastSector : UpdateFile(n, k))
    \/ \E n, m \in Names : RenameFile(n, m)
    \/ \E f \in 0 .. 4 : \E x \in op.todo : GuestWrite(x, f)

SdfsSpec == SdfsInit /\ [][SdfsNext]_sdfsVars

-----------------------------------------------------------------------------
HostFiles(cat) == [h \in {cat[n].host : n \in DOMAIN cat} |->
                    cat[CHOOSE n \in DOMAIN cat : cat[n].host = h].bytes]

(* Between two operations of the guest nothing is pending and the host     *)
(* directory holds the guest's files and no others, byte for byte, in any  *)
(* order the guest sends the sectors and whichever storage call failed     *)
(* (docs/STITCH_SDFS.md:190-199, keeping the views coherent).              *)
Coherent ==
    op = NoOp =>
        /\ disk.io.host = HostFiles(sdx)
        /\ DOMAIN disk.pendingCreates = {} /\ DOMAIN disk.pendingAppends = {}
        /\ DOMAIN disk.pendingReplacements = {}

(* While an operation is under way the host files are those from before it *)
(* or those from after it: no file is seen half made.  A sector that an    *)
(* earlier in-place update left in the overlay is taken for the payload    *)
(* the commit waits for: operations that claim one are excepted            *)
(* (diskStitchImageSDFS.h:532-545, 362-371).                               *)
WholeFiles ==
    op # NoOp /\ ~op.stale /\ op.kind # "update" =>
        disk.io.host \in {HostFiles(sdx), HostFiles(Done)}

(* No sector belongs to two files, and the four tables of ownership        *)
(* (dataRefs, allocated, metadata and the files' own lists) agree          *)
(* (lines 431-462, 572-586, 889-905, 1210-1230 of diskStitchImageSDFS.h).  *)
OneOwner ==
    /\ disk.allocated \subseteq 2 .. LastSector
    /\ \A i, j \in DOMAIN disk.files :
        i # j => (Elems(disk.files[i].dataSectors) \cup Elems(disk.files[i].mapSectors))
                    \cap (Elems(disk.files[j].dataSectors) \cup Elems(disk.files[j].mapSectors)) = {}
    /\ DOMAIN disk.dataRefs = UNION {Elems(disk.files[i].dataSectors) : i \in DOMAIN disk.files}
    /\ DOMAIN disk.metadata = UNION {Elems(disk.files[i].mapSectors) : i \in DOMAIN disk.files}
    /\ disk.allocated = DOMAIN disk.dataRefs \cup DOMAIN disk.metadata
    /\ \A x \in DOMAIN disk.dataRefs :
        /\ disk.dataRefs[x].file \in DOMAIN disk.files
        /\ disk.files[disk.dataRefs[x].file].dataSectors[disk.dataRefs[x].at] = x

(* A file that no operation is about reads back, through its directory     *)
(* entry and map chain, as the bytes last written to it (read, line 1261). *)
ReadBack ==
    \A n \in DOMAIN sdx \ {op.name} :
        LET f     == sdx[n]
            chain == ReadMapChain(disk, f.maps[1], 0)
        IN  /\ disk.directory[f.slot] = [status |-> "active", map |-> f.maps[1],
                                         length |-> Len(f.bytes), name |-> n]
            /\ chain.status = "read" /\ chain.maps = f.maps /\ chain.listed = f.data
            /\ \A k \in DOMAIN f.data : ReadSector(disk, f.data[k]) = Block(f.bytes, k)

(* A write is refused only when a storage call failed: no history and no   *)
(* order of the guest's sectors leads to a hypothesis that contradicts     *)
(* itself (the returns of -EROFS); what is not there yet is waited for     *)
(* (docs/STITCH_SDFS.md:257-259, 268-272).  The order is free but for one  *)
(* rule, without which this is false (HeadFirst, SdfsHeadFirst.cfg): a     *)
(* map sector is sent after those it links to of which the image still has *)
(* an old content, from an earlier file or from the file overwritten.      *)
RefusedByStorageOnly == [][sdfsResult' = "error" => sdfsFaults' > sdfsFaults]_sdfsVars

(* A write that is refused leaves the host files as they were, but for the *)
(* bytes of an in-place update: a partial create is removed, a partial     *)
(* append cut, a failed replacement undone (lines 549-552, 884-886,        *)
(* 415-423).                                                               *)
RefusedLeavesHost ==
    [][sdfsResult' = "error" /\ op.kind # "update" /\ ~op.stale => disk'.io.host = disk.io.host]_sdfsVars
=============================================================================
