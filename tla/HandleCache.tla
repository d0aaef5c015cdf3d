---------------------------- MODULE HandleCache ----------------------------
(***************************************************************************)
(* The storage behind a stitched disk (main/diskStitch.h,                  *)
(* CachedStorageInterface, with SpiffsStorage or SmbConnection under it):  *)
(* one file is active at a time, and the last CacheSize handles opened     *)
(* are kept open, most recent first, by path and mode.                     *)
(*                                                                         *)
(* The storage is one record, and every call a function of it, so that the *)
(* disk image that makes the calls can take several in one step; Next is   *)
(* the storage on its own, under any sequence of calls.                    *)
(***************************************************************************)
EXTENDS Integers, Sequences, FiniteSets

CONSTANTS
    Paths,          \* names of files
    Modes,          \* open modes without O_CREAT, O_EXCL and O_TRUNC
    CacheSize,      \* cacheSize: 4
    Handles,        \* what the backend hands out: max_files, 5, on SPIFFS
    NoHandle        \* activeHandle when no file is active

ASSUME HandleAssumption ==
    /\ CacheSize \in Nat \ {0}
    /\ NoHandle \notin Handles

VARIABLE io
(* io.files:  path -> contents                                             *)
(* io.fds:    open handle -> path                                          *)
(* io.cache:  the cached handles, [path, mode, handle], most recent first  *)
(* io.active: activeHandle;  io.cached: activeCached                       *)
(* io.fails:  the storage call from here that fails, 0 for none            *)
(* io.ok:     the last call succeeded                                      *)

DropFds(fds, H) == [h \in DOMAIN fds \ H |-> fds[h]]
CacheHandles(s) == {s.cache[i].handle : i \in DOMAIN s.cache}

Call(s) == [s EXCEPT !.fails = IF @ > 0 THEN @ - 1 ELSE 0, !.ok = s.fails # 1]

(* close *)
CloseFile(s) ==
    [s EXCEPT !.fds = IF s.cached THEN @ ELSE DropFds(@, {s.active}),
              !.active = NoHandle, !.cached = FALSE]

(* cacheCloseAll *)
CacheCloseAll(s) == [CloseFile(s) EXCEPT !.fds = DropFds(@, CacheHandles(s)), !.cache = <<>>]

(* open, found in the cache: the entry moves to the front.  A path and     *)
(* mode are cached once, as only a miss adds them.                         *)
Hits(s, path, mode) == {i \in DOMAIN s.cache : s.cache[i].path = path /\ s.cache[i].mode = mode}
OpenHit(s, i) ==
    [s EXCEPT !.cache = [j \in DOMAIN @ |-> IF j = 1 THEN @[i] ELSE IF j <= i THEN @[j - 1] ELSE @[j]],
              !.active = s.cache[i].handle, !.cached = TRUE, !.ok = TRUE]

(* open, by the backend: a new handle goes to the front and the last one   *)
(* of a full cache is closed.                                              *)
OpenMiss(s, path, mode, h) ==
    LET full  == Len(s.cache) = CacheSize
        entry == [path |-> path, mode |-> mode, handle |-> h]
        old   == IF full THEN {s.cache[CacheSize].handle} ELSE {}
    IN  [s EXCEPT !.fds = [x \in (DOMAIN @ \ old) \cup {h} |-> IF x = h THEN path ELSE @[x]],
                  !.cache = [j \in 1 .. (IF full THEN CacheSize ELSE Len(@) + 1) |->
                                IF j = 1 THEN entry ELSE @[j - 1]],
                  !.active = h, !.cached = TRUE]

(* open with O_CREAT: not cached. *)
OpenCreate(s, path, h) ==
    [s EXCEPT !.fds = [x \in DOMAIN @ \cup {h} |-> IF x = h THEN path ELSE @[x]],
              !.files = [p \in DOMAIN @ \cup {path} |-> IF p \in DOMAIN @ THEN @[p] ELSE <<>>],
              !.active = h, !.cached = FALSE]

(* open, with the handle the backend would give. *)
OpenFile(s, path, mode, create, h) ==
    LET c    == CloseFile(s)
        hits == Hits(c, path, mode)
        b    == Call(c)
    IN  IF ~create /\ hits # {} THEN OpenHit(c, CHOOSE i \in hits : TRUE)
        ELSE IF ~b.ok \/ h \notin Handles \ DOMAIN c.fds \/ (~create /\ path \notin DOMAIN c.files)
             THEN [b EXCEPT !.ok = FALSE]
        ELSE IF create THEN OpenCreate(b, path, h) ELSE OpenMiss(b, path, mode, h)

(* pwrite and truncate.  A write beyond the end fills the gap. *)
Resized(old, n) == [k \in 1 .. n |-> IF k <= Len(old) THEN old[k] ELSE 0]
Written(old, bytes, at) ==
    [k \in 1 .. (IF at + Len(bytes) > Len(old) THEN at + Len(bytes) ELSE Len(old)) |->
        IF k > at /\ k <= at + Len(bytes) THEN bytes[k - at] ELSE IF k <= Len(old) THEN old[k] ELSE 0]

PwriteFile(s, bytes, at) ==
    LET b == Call(s)
    IN  IF s.active = NoHandle \/ ~b.ok THEN [b EXCEPT !.ok = FALSE]
        ELSE [b EXCEPT !.files[s.fds[s.active]] = Written(@, bytes, at)]

(* Faulty: truncate as StorageInterface has it by default, which does nothing. *)
TruncateNothing(s, path, n) == [s EXCEPT !.ok = TRUE]

TruncateFile(s, path, n) ==
    LET b == Call(CacheCloseAll(s))
    IN  IF ~b.ok \/ path \notin DOMAIN b.files THEN [b EXCEPT !.ok = FALSE]
        ELSE [b EXCEPT !.files[path] = Resized(@, n)]

(* Faulty: remove leaves the cached handles open. *)
RemoveKeepingHandles(s, path) ==
    [s EXCEPT !.files = [p \in DOMAIN @ \ {path} |-> @[p]], !.ok = path \in DOMAIN s.files]

RemoveFile(s, path) ==
    LET b == Call(CacheCloseAll(s))
    IN  IF ~b.ok \/ path \notin DOMAIN b.files THEN [b EXCEPT !.ok = FALSE]
        ELSE [b EXCEPT !.files = [p \in DOMAIN @ \ {path} |-> @[p]]]

RenamePath(s, old, new) ==
    LET b == Call(CacheCloseAll(s))
    IN  IF ~b.ok \/ old \notin DOMAIN b.files \/ new \in DOMAIN b.files THEN [b EXCEPT !.ok = FALSE]
        ELSE [b EXCEPT !.files =
                [p \in (DOMAIN @ \ {old}) \cup {new} |-> IF p = new THEN @[old] ELSE @[p]]]

Storage(files) == [files |-> files, fds |-> <<>>, cache |-> <<>>, active |-> NoHandle,
                   cached |-> FALSE, fails |-> 0, ok |-> TRUE]

-----------------------------------------------------------------------------
HandleInit == io = Storage([p \in Paths |-> <<>>])

Room(s) == Handles \ DOMAIN CloseFile(s).fds

(* Any call, with the f-th storage call from here failing. *)
Failing(f) == [io EXCEPT !.fails = f]

CallOpen(f, path, mode, create) ==
    \E h \in Handles : /\ h \in Room(io) \/ Room(io) = {}
                       /\ io' = OpenFile(Failing(f), path, mode, create, h)
CallPwrite(f, bytes, at) == io' = PwriteFile(Failing(f), bytes, at)
CallClose                == io' = CloseFile(io)
CallRemove(f, path)      == io' = RemoveFile(Failing(f), path)
CallTruncate(f, path, n) == io' = TruncateFile(Failing(f), path, n)
CallRename(f, old, new)  == io' = RenamePath(Failing(f), old, new)

HandleNext ==
    \/ \E f \in 0 .. 1, path \in Paths, mode \in Modes, create \in BOOLEAN : CallOpen(f, path, mode, create)
    \/ \E f \in 0 .. 1, bytes \in Seq(Int), at \in Nat : CallPwrite(f, bytes, at)
    \/ CallClose
    \/ \E f \in 0 .. 1, path \in Paths : CallRemove(f, path)
    \/ \E f \in 0 .. 1, path \in Paths, n \in Nat : CallTruncate(f, path, n)
    \/ \E f \in 0 .. 1, old, new \in Paths : CallRename(f, old, new)

HandleSpec == HandleInit /\ [][HandleNext]_io

-----------------------------------------------------------------------------
(* The open handles are those of the cache and the active one: none is     *)
(* lost, and none is closed while it is cached or active (diskStitch.h,    *)
(* 253-258, 278-292).                                                      *)
Kept(s) == DOMAIN s.fds = CacheHandles(s) \cup (IF s.active = NoHandle THEN {} ELSE {s.active})

(* A cached handle is open on the path it is cached under, no two entries  *)
(* share a handle, an active handle that is not the cache's is not in it,  *)
(* and every open handle names a file that exists: none outlives a remove  *)
(* or a rename of its file.                                                *)
Matching(s) ==
    /\ \A i \in DOMAIN s.cache : s.fds[s.cache[i].handle] = s.cache[i].path
    /\ \A i, j \in DOMAIN s.cache : s.cache[i].handle = s.cache[j].handle => i = j
    /\ s.active # NoHandle => (s.cached <=> s.active \in CacheHandles(s))
    /\ \A h \in DOMAIN s.fds : s.fds[h] \in DOMAIN s.files

(* The handles of the storage are in order: open exactly where they are    *)
(* cached or active, on the files they are cached for, and never more than *)
(* the cache has entries.                                                  *)
HandlesInOrder == Kept(io) /\ Matching(io) /\ Len(io.cache) <= CacheSize

(* An open finds a handle, with one more than the cache keeps              *)
(* (main.cpp:1600 gives SPIFFS five; the evicted handle is closed only     *)
(* after the new one is open).                                             *)
OpenHasRoom == Room(io) # {}
=============================================================================
