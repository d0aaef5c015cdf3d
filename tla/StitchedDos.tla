---------------------------- MODULE StitchedDos ----------------------------
(***************************************************************************)
(* A DOS 2 disk made up from the files of a host directory                 *)
(* (main/diskStitch.h, DiskStitchImage), over the storage of HandleCache.  *)
(* DOS 2 keeps no map: a data sector ends with the number of its file, of  *)
(* the next sector and of its bytes.  The image learns the sectors of a    *)
(* file that is written from these links, as they come.                    *)
(*                                                                         *)
(* One read() or write() is one step: its storage calls are made in the    *)
(* order of the code, and one of them may fail.                            *)
(*                                                                         *)
(* The 6502's side is DOS 2, known here by the comments of write() and the *)
(* copies and appends of csim/dstitch/autoexec.bat: it opens the directory *)
(* entry for output, writes the data sectors along the chain, the VTOC and *)
(* the closed entry.  An append rewrites the last sector, which links to   *)
(* the first new one, before the new ones.  A write that was refused is    *)
(* sent again.                                                             *)
(*                                                                         *)
(* A name is [base, ext], a base <<letters, digit>> with digit 0 for none; *)
(* a sector holds DataSize bytes and the links, and the directory is one   *)
(* sector of Slots entries.                                                *)
(***************************************************************************)
EXTENDS HandleCache, FiniteSetsExt

CONSTANTS
    DataSize,       \* sectorDataSize()
    DataSectors,    \* the sectors for data
    Slots,          \* numDirent
    HostDir,        \* the host files, [host, direct, group, length], in order
    LastAlias,      \* the highest digit of an alias: 9
    Names,          \* the guest's names
    Lengths,        \* lengths the guest writes
    Kinds,          \* the operations of the guest
    MayShareHost,   \* the guest may name two files that have one host name
    MaxOps,         \* bound: operations of the guest
    MaxFaults       \* bound: failing storage calls

VTOC == 360
Dir  == 361         \* to 368

VARIABLES
    vtoc,           \* the free sectors
    dirents,        \* dirSectors: [flags, count, start, name]
    stitched,       \* stitchedFiles: [flags, sectors, host]
    dos,            \* the guest's files: name -> [slot, sectors, bytes, host]
    job,            \* the guest's operation, and the write it is at
    jobs,           \* operations started
    faults,         \* storage calls that failed
    stranded        \* host files of erased files, whose remove failed: history

dosVars == <<io, vtoc, dirents, stitched, dos, job, jobs, faults, stranded>>

(* Flags: "closed" is dos2 + inUse, "open" openForOutput as well. *)
NoName  == [base |-> <<"", 0>>, ext |-> ""]
NoEntry == [flags |-> "unused", count |-> 0, start |-> 0, name |-> NoName]
NoFile  == [flags |-> "unused", sectors |-> <<>>, host |-> NoName]
InUse(flags) == flags \in {"open", "closed"}

(* getFilename and the constructor of host names: without the extension. *)
HostName(name) == [name EXCEPT !.ext = ""]

ASSUME DosAssumption ==
    /\ DataSize \in Nat \ {0} /\ DataSectors \subseteq 4 .. 719 \ (VTOC .. 368) /\ Slots \in Nat \ {0}
    /\ {"read", "write"} \subseteq Modes
    /\ Len(HostDir) \in Nat /\ DOMAIN HostDir = 1 .. Len(HostDir)
    /\ \A i \in DOMAIN HostDir :
            /\ HostDir[i].host \in Paths \ {NoName} /\ HostDir[i].length \in Nat
            /\ HostDir[i].group = [base |-> HostDir[i].group.base, ext |-> HostDir[i].group.ext]
    /\ \A i, j \in DOMAIN HostDir : HostDir[i].host = HostDir[j].host => i = j
    /\ \A n \in Names : n # NoName /\ HostName(n) \in Paths
    /\ LastAlias \in Nat /\ Lengths \subseteq Nat \ {0} /\ MayShareHost \in BOOLEAN

(* The sectors of n bytes, the bytes of the k-th, its place, and its link. *)
SectorsFor(n)         == Max({(n + DataSize - 1) \div DataSize, 1})
SectorBytes(bytes, k) == SubSeq(bytes, (k - 1) * DataSize + 1, Min({k * DataSize, Len(bytes)}))
Place(sectors, x)     == CHOOSE k \in DOMAIN sectors : sectors[k] = x
Link(sectors, k)      == IF k < Len(sectors) THEN sectors[k + 1] ELSE 0

(* The n lowest members of a set, and a set in order. *)
Lowest(S, n) == {x \in S : Cardinality({y \in S : y <= x}) <= n}
Ordered(S)   == [k \in 1 .. Cardinality(S) |-> CHOOSE x \in S : Cardinality({y \in S : y <= x}) = k]
Put(f, x, v) == [y \in DOMAIN f \cup {x} |-> IF y = x THEN v ELSE f[y]]
Drop(f, x)   == [y \in DOMAIN f \ {x} |-> f[y]]

-----------------------------------------------------------------------------
(* assignAtariFilenames: a host name that fits 8.3 keeps its name unless   *)
(* an earlier one has it; the others of a group of letters get, one after  *)
(* the other, the digits that make no name of the first kind.              *)
Direct(i) ==
    IF \E j \in 1 .. i - 1 : HostDir[j].direct = HostDir[i].direct THEN NoName ELSE HostDir[i].direct

Alias(i) ==
    LET g       == HostDir[i].group
        with(k) == [base |-> <<g.base, k>>, ext |-> g.ext]
        digits  == {k \in 1 .. LastAlias : \A j \in DOMAIN HostDir : Direct(j) # with(k)}
        place   == Cardinality({j \in 1 .. i : HostDir[j].group = g /\ Direct(j) = NoName})
    IN  IF place > Cardinality(digits) THEN NoName ELSE with(Ordered(digits)[place])

AtariName(i) == IF Direct(i) = NoName THEN Alias(i) ELSE Direct(i)

(* Faulty: the sectors stay free. *)
StitchFileKeepingVtoc(d, i) ==
    LET f    == HostDir[i]
        n    == SectorsFor(f.length)
        free == {e \in 1 .. Slots : d.dirents[e].flags = "unused"}
        e    == Min(free)
        S    == Lowest(d.vtoc, n)
    IN  IF AtariName(i) = NoName \/ free = {} \/ n > Cardinality(d.vtoc) THEN d
        ELSE [d EXCEPT !.dirents[e] = [flags |-> "closed", count |-> n, start |-> Min(S),
                                       name |-> AtariName(i)],
                       !.stitched[e] = [flags |-> "closed", sectors |-> Ordered(S), host |-> f.host]]

(* stitchDir, stitchFile: the sectors of a file are the lowest free ones;  *)
(* a file without a name, an entry or the sectors is left out.             *)
StitchFile(d, i) ==
    LET f    == HostDir[i]
        n    == SectorsFor(f.length)
        free == {e \in 1 .. Slots : d.dirents[e].flags = "unused"}
        e    == Min(free)
        S    == Lowest(d.vtoc, n)
    IN  IF AtariName(i) = NoName \/ free = {} \/ n > Cardinality(d.vtoc) THEN d
        ELSE [d EXCEPT !.vtoc = @ \ S,
                       !.dirents[e] = [flags |-> "closed", count |-> n, start |-> Min(S),
                                       name |-> AtariName(i)],
                       !.stitched[e] = [flags |-> "closed", sectors |-> Ordered(S), host |-> f.host]]

HostBytes(i) == [k \in 1 .. HostDir[i].length |-> -100 * i - k]
HostFiles    == [h \in {f.host : f \in Range(HostDir)} |->
                    HostBytes(CHOOSE i \in DOMAIN HostDir : HostDir[i].host = h)]
Blank ==
    [io |-> Storage(HostFiles), vtoc |-> DataSectors, error |-> FALSE,
     dirents |-> [e \in 1 .. Slots |-> NoEntry], stitched |-> [e \in 1 .. Slots |-> NoFile]]

(* The image after the first i host files. *)
Stitching[i \in 0 .. Len(HostDir)] == IF i = 0 THEN Blank ELSE StitchFile(Stitching[i - 1], i)
Mount == Stitching[Len(HostDir)]

-----------------------------------------------------------------------------
(* findFileBySector: {} or the first file in use that has the sector. *)
FilesWith(d, x) ==
    {e \in 1 .. Slots : InUse(d.stitched[e].flags) /\ x \in Range(d.stitched[e].sectors)}

(* io->open; the storage gives the lowest free handle. *)
OpenAt(s, path, mode, create) ==
    OpenFile(s, path, mode, create, IF Room(s) = {} THEN NoHandle ELSE Min(Room(s)))

Fail(d) == [d EXCEPT !.error = TRUE]

(* read of a data sector: the bytes of the host file at its place, and the *)
(* links.                                                                  *)
ReadSector(d, x) ==
    LET f     == d.stitched[Min(FilesWith(d, x))]
        k     == Place(f.sectors, x)
        bytes == d.io.files[f.host]
    IN  [bytes |-> SectorBytes(bytes, k), next |-> Link(f.sectors, k)]

Read(d, x) ==
    IF FilesWith(d, x) = {} THEN d
    ELSE LET s == OpenAt(d.io, d.stitched[Min(FilesWith(d, x))].host, "read", FALSE)
         IN  IF s.ok THEN [d EXCEPT !.io = CloseFile(s)] ELSE Fail([d EXCEPT !.io = s])

(* A host file created for a new entry. *)
Created(d, name) ==
    LET s == OpenAt(d.io, HostName(name), "write", TRUE)
    IN  IF s.ok THEN [d EXCEPT !.io = CloseFile(s)] ELSE Fail([d EXCEPT !.io = s])

(* Faulty: the start of a file that has sectors is not looked at. *)
MovedIfEmpty(f, entry) == f.sectors = <<>>

(* startChanged *)
Moved(f, entry) == f.sectors = <<>> \/ entry.start # f.sectors[1]

(* write of the directory, entry by entry: a file is removed, created, cut *)
(* or moved to another start.  The result of the remove is not looked at.  *)
Entry(d, e) ==
    LET entry == d.dirents[e]
        f     == d.stitched[e]
        both  == InUse(entry.flags) /\ InUse(f.flags)
        moved == both /\ Moved(f, entry)
        fewer == both /\ entry.count < Len(f.sectors)
        new   == Created(d, entry.name)
    IN  IF entry.flags = f.flags /\ ~moved /\ ~fewer THEN d
        ELSE IF entry.flags = "deleted"
             THEN [d EXCEPT !.io = RemoveFile(@, f.host), !.stitched[e] = [NoFile EXCEPT !.flags = "deleted"]]
        ELSE IF InUse(entry.flags) /\ ~InUse(f.flags)
             THEN IF new.error THEN new
                  ELSE [new EXCEPT !.stitched[e] = [flags |-> entry.flags, sectors |-> <<entry.start>>,
                                                    host |-> HostName(entry.name)]]
        ELSE [d EXCEPT !.stitched[e] =
                [flags   |-> entry.flags,
                 sectors |-> IF moved THEN <<entry.start>>
                             ELSE IF fewer THEN SubSeq(f.sectors, 1, Max({entry.count, 1})) ELSE f.sectors,
                 host    |-> f.host]]

(* The files of all the new entries are created before any is taken; the   *)
(* first that is refused ends the write.                                   *)
CreateNew(d, t, entry, e) ==
    IF t.error \/ ~InUse(entry.flags) \/ InUse(d.dirents[e].flags) THEN t ELSE Created(t, entry.name)
Creations(d, new) ==
    LET t[e \in 0 .. Slots] == IF e = 0 THEN d ELSE CreateNew(d, t[e - 1], new[e], e)
    IN  t

Take(t, e) == IF t.error THEN t ELSE Entry(t, e)
Takings(d) ==
    LET t[e \in 0 .. Slots] == IF e = 0 THEN d ELSE Take(t[e - 1], e)
    IN  t

DirWrite(d, new) ==
    LET created == Creations(d, new)[Slots]
    IN  IF created.error THEN created ELSE Takings([created EXCEPT !.dirents = new])[Slots]

(* The chain of a file after a write of its k-th sector. *)
Chain(sectors, k, next) ==
    IF next = 0 \/ (k < Len(sectors) /\ sectors[k + 1] # next)
    THEN SubSeq(sectors, 1, k) \o (IF next = 0 THEN <<>> ELSE <<next>>)
    ELSE IF Len(sectors) = k THEN Append(sectors, next) ELSE sectors

(* write of a data sector, the k-th of a file: to its place in the host   *)
(* file; the chain is extended or cut by the link.  len = 0 stands for a   *)
(* full sector.                                                            *)
PutSector(d, e, k, w) ==
    LET f    == d.stitched[e]
        at   == (k - 1) * DataSize
        open == OpenAt(d.io, f.host, "write", FALSE)
        done == PwriteFile(open, w.bytes, at)
        shut == CloseFile(done)
        cut  == IF w.next = 0 THEN TruncateFile(shut, f.host, at + Len(w.bytes)) ELSE shut
    IN  IF ~open.ok THEN Fail([d EXCEPT !.io = open])
        ELSE IF ~done.ok THEN Fail([d EXCEPT !.io = shut])
        ELSE IF ~cut.ok THEN Fail([d EXCEPT !.io = cut])
        ELSE [d EXCEPT !.io = cut, !.stitched[e].sectors = Chain(@, k, w.next)]

(* A sector that no chain has is dropped. *)
DataWrite(d, x, w) ==
    LET e == Min(FilesWith(d, x))
    IN  IF FilesWith(d, x) = {} THEN d ELSE PutSector(d, e, Place(d.stitched[e].sectors, x), w)

Write(d, sector, content) ==
    IF sector = VTOC THEN [d EXCEPT !.vtoc = content]
    ELSE IF sector = Dir THEN DirWrite(d, content)
    ELSE DataWrite(d, sector, content)

Image == [io |-> io, vtoc |-> vtoc, dirents |-> dirents, stitched |-> stitched, error |-> FALSE]

(* The call, the f-th of its storage calls failing. *)
Called(d, f) ==
    /\ f > 0 => faults < MaxFaults /\ d.io.fails = 0
    /\ faults' = faults + (IF f > 0 THEN 1 ELSE 0)
    /\ io' = [d.io EXCEPT !.fails = 0, !.ok = TRUE]
    /\ vtoc' = d.vtoc /\ dirents' = d.dirents /\ stitched' = d.stitched

ImageFailing(f) == [Image EXCEPT !.io.fails = f]
-----------------------------------------------------------------------------
(* The guest: one operation at a time, a file from here on being as what   *)
(* it makes of it.                                                         *)

NoJob == [kind |-> "none", name |-> NoName, as |-> NoName, entry |-> NoEntry, phase |-> "none", k |-> 0,
          file |-> [slot |-> 0, sectors |-> <<>>, bytes |-> <<>>, host |-> NoName]]

NewBytes(n) == [k \in 1 .. n |-> 10 * (jobs + 1) + k]
HostsOf(cat) == {cat[n].host : n \in DOMAIN cat}
FreeSlots    == {e \in 1 .. Slots : ~InUse(dirents[e].flags)}

EntryOf(flags, sectors, count, name) ==
    [flags |-> flags, count |-> count, start |-> sectors[1], name |-> name]

(* The first write is to the entry, or to the k-th sector. *)
Begin(kind, name, as, phase, entry, k, file) ==
    /\ job = NoJob /\ jobs < MaxOps /\ kind \in Kinds
    /\ jobs' = jobs + 1
    /\ job' = [kind |-> kind, name |-> name, as |-> as, entry |-> entry, phase |-> phase, k |-> k,
               file |-> file]
    /\ UNCHANGED <<io, vtoc, dirents, stitched, dos, faults, stranded>>

(* A new file; its host name is not that of another file, unless they may  *)
(* share one, as BIG16 and BIG16.2 of autoexec.bat do.                     *)
CreateFile(name, length) ==
    LET n       == SectorsFor(length)
        sectors == Ordered(Lowest(vtoc, n))
        file    == [slot |-> Min(FreeSlots), sectors |-> sectors, bytes |-> NewBytes(length),
                    host |-> HostName(name)]
    IN  /\ name \notin DOMAIN dos /\ FreeSlots # {} /\ n <= Cardinality(vtoc)
        /\ MayShareHost \/ HostName(name) \notin HostsOf(dos)
        /\ Begin("create", name, name, "entry", EntryOf("open", sectors, 0, name), 1, file)

(* A file written anew: its sectors are free again.  The entry is opened   *)
(* with a count of one sector, or with the old count.                      *)
ReplaceFile(name, length, opened) ==
    LET f       == dos[name]
        n       == SectorsFor(length)
        free    == vtoc \cup Range(f.sectors)
        sectors == Ordered(Lowest(free, n))
    IN  /\ name \in DOMAIN dos /\ n <= Cardinality(free) /\ opened \in {1, Len(f.sectors)}
        /\ Begin("replace", name, name, "entry", EntryOf("open", sectors, opened, name), 1,
                 [f EXCEPT !.sectors = sectors, !.bytes = NewBytes(length)])

(* A longer file: from its last sector on. *)
ExtendFile(name, length) ==
    LET f       == dos[name]
        old     == Len(f.sectors)
        more    == SectorsFor(length) - old
        sectors == f.sectors \o Ordered(Lowest(vtoc, more))
        bytes   == [k \in 1 .. length |-> IF k <= Len(f.bytes) THEN f.bytes[k] ELSE NewBytes(length)[k]]
    IN  /\ name \in DOMAIN dos /\ length > Len(f.bytes) /\ more <= Cardinality(vtoc)
        /\ Begin("append", name, name, "entry", EntryOf("open", sectors, old, name), old,
                 [f EXCEPT !.sectors = sectors, !.bytes = bytes])

EraseFile(name) ==
    LET f == dos[name]
    IN  /\ name \in DOMAIN dos
        /\ Begin("erase", name, name, "entry", EntryOf("deleted", f.sectors, Len(f.sectors), name), 0, f)

(* The host file keeps its name: write() looks at flags, start and count. *)
RenameFile(name, new) ==
    LET f == dos[name]
    IN  /\ name \in DOMAIN dos /\ new \notin DOMAIN dos
        /\ Begin("rename", name, new, "entry", EntryOf("closed", f.sectors, Len(f.sectors), new), 0, f)

(* A sector rewritten in place. *)
UpdateFile(name, k) ==
    LET f     == dos[name]
        bytes == [i \in 1 .. Len(f.bytes) |-> IF i > (k - 1) * DataSize /\ i <= k * DataSize
                                              THEN NewBytes(Len(f.bytes))[i] ELSE f.bytes[i]]
    IN  /\ name \in DOMAIN dos /\ k \in DOMAIN f.sectors /\ Len(f.bytes) > 0
        /\ Begin("update", name, name, "data", NoEntry, k, [f EXCEPT !.bytes = bytes])

(* The files, and the free sectors, when the operation is done. *)
Finished ==
    LET rest == Drop(dos, job.name)
    IN  IF job.kind = "erase" THEN rest ELSE Put(rest, job.as, job.file)
FreeAfter ==
    LET old == IF job.name \in DOMAIN dos THEN Range(dos[job.name].sectors) ELSE {}
    IN  (vtoc \cup old) \ (IF job.kind = "erase" THEN {} ELSE Range(job.file.sectors))

(* A sector is sent, and again if it was refused; next is what follows. *)
Send(f, sector, content, next) ==
    LET d == Write(ImageFailing(f), sector, content)
    IN  /\ Called(d, f)
        /\ IF d.error THEN UNCHANGED <<dos, job>>
           ELSE job' = next /\ dos' = (IF next = NoJob THEN Finished ELSE dos)
        /\ UNCHANGED jobs

(* An erase makes one storage call, the remove. *)
WriteEntry(f) ==
    /\ job.phase = "entry"
    /\ stranded' = IF job.kind # "erase" THEN stranded
                   ELSE IF f = 0 THEN stranded \ {job.file.host} ELSE stranded \cup {job.file.host}
    /\ Send(f, Dir, [dirents EXCEPT ![job.file.slot] = job.entry],
            IF job.kind = "rename" THEN NoJob
            ELSE [job EXCEPT !.phase = IF job.kind = "erase" THEN "vtoc" ELSE "data"])

WriteSector(f) ==
    LET file == job.file
    IN  /\ job.phase = "data"
        /\ Send(f, file.sectors[job.k], [bytes |-> SectorBytes(file.bytes, job.k),
                                        next |-> Link(file.sectors, job.k)],
                IF job.kind = "update" THEN NoJob
                ELSE IF job.k < Len(file.sectors) THEN [job EXCEPT !.k = @ + 1]
                ELSE [job EXCEPT !.phase = "vtoc"])
        /\ UNCHANGED stranded

WriteVTOC(f) ==
    /\ job.phase = "vtoc"
    /\ Send(f, VTOC, FreeAfter, IF job.kind = "erase" THEN NoJob ELSE [job EXCEPT !.phase = "close"])
    /\ UNCHANGED stranded

CloseEntry(f) ==
    LET file == job.file
    IN  /\ job.phase = "close"
        /\ Send(f, Dir, [dirents EXCEPT ![file.slot] =
                            EntryOf("closed", file.sectors, Len(file.sectors), job.name)], NoJob)
        /\ UNCHANGED stranded

GuestRead(x, f) ==
    /\ Called(Read(ImageFailing(f), x), f)
    /\ UNCHANGED <<dos, job, jobs, stranded>>

DosInit ==
    LET d == Mount
    IN  /\ io = d.io /\ vtoc = d.vtoc /\ dirents = d.dirents /\ stitched = d.stitched
        /\ dos = [n \in {d.dirents[e].name : e \in {e \in 1 .. Slots : InUse(d.dirents[e].flags)}} |->
                    LET e == CHOOSE e \in 1 .. Slots : d.dirents[e].name = n
                    IN  [slot |-> e, sectors |-> d.stitched[e].sectors,
                         bytes |-> HostFiles[d.stitched[e].host], host |-> d.stitched[e].host]]
        /\ job = NoJob /\ jobs = 0 /\ faults = 0 /\ stranded = {}

DosNext ==
    \/ \E n \in Names, l \in Lengths : CreateFile(n, l) \/ ExtendFile(n, l)
    \/ \E n \in Names, l \in Lengths, opened \in 1 .. Cardinality(DataSectors) : ReplaceFile(n, l, opened)
    \/ \E n \in Names : EraseFile(n)
    \/ \E n, new \in Names : RenameFile(n, new)
    \/ \E n \in Names, k \in 1 .. Cardinality(DataSectors) : UpdateFile(n, k)
    \/ \E f \in 0 .. 3 : WriteEntry(f) \/ WriteSector(f) \/ WriteVTOC(f) \/ CloseEntry(f)
    \/ \E x \in DataSectors, f \in 0 .. 1 : GuestRead(x, f)

DosSpec == DosInit /\ [][DosNext]_dosVars

-----------------------------------------------------------------------------
(* Between two operations of the guest the host directory holds its files, *)
(* byte for byte, whichever open, create, write, truncate or remove failed *)
(* on the way (write, diskStitch.h:589-740).  Besides them it holds those  *)
(* left out at the mount and, as write() does not look whether the remove  *)
(* of an erased file succeeded (648), exactly those whose remove failed.   *)
(* A file is held under the host name it was mounted or created with: a    *)
(* rename is the guest's only.  Where two names of the guest have one host *)
(* name (MayShareHost) this does not hold.                                 *)
LeftOut == {HostDir[i].host : i \in DOMAIN HostDir} \ {Mount.stitched[e].host : e \in 1 .. Slots}
DosCoherent ==
    job = NoJob =>
        /\ DOMAIN io.files = HostsOf(dos) \cup LeftOut \cup stranded
        /\ \A n \in DOMAIN dos : io.files[dos[n].host] = dos[n].bytes

(* A file that no operation is about reads back along its links, from the  *)
(* start its entry gives, as the bytes last written to it: no write to     *)
(* another file goes to it, and no chain is lost (read, 534-588).          *)
DosReadBack ==
    \A n \in DOMAIN dos \ {job.name} :
        LET f == dos[n]
        IN  /\ dirents[f.slot] = EntryOf("closed", f.sectors, Len(f.sectors), n)
            /\ \A k \in DOMAIN f.sectors :
                /\ FilesWith(Image, f.sectors[k]) = {f.slot}
                /\ ReadSector(Image, f.sectors[k]) =
                        [bytes |-> SectorBytes(f.bytes, k), next |-> Link(f.sectors, k)]
            /\ Len(f.sectors) = SectorsFor(Len(f.bytes))

(* Between two operations every sector is free or of one file, and the     *)
(* chain the image follows is the file's: nothing leaks, and no entry      *)
(* holds sectors the guest thinks free (stitchFile 459-497, write).        *)
SectorsAccounted ==
    job = NoJob =>
        /\ \A a, b \in 1 .. Slots : a # b /\ InUse(stitched[a].flags) /\ InUse(stitched[b].flags) =>
                Range(stitched[a].sectors) \cap Range(stitched[b].sectors) = {}
        /\ DataSectors \ vtoc = UNION {Range(stitched[e].sectors) : e \in 1 .. Slots}
        /\ \A e \in 1 .. Slots : dirents[e].flags = stitched[e].flags
                                 /\ (InUse(dirents[e].flags) => dirents[e].count = Len(stitched[e].sectors))
=============================================================================
