------------------------------- MODULE I2sLink -------------------------------
(***************************************************************************)
(* One direction of i2slink (components/sidecar_link/i2slink.c): a writer  *)
(* that updates a TX cycle in place, the DMA that streams the cycle into   *)
(* the reader's ring lap after lap, and the reader, which copies the ring  *)
(* only while two tripwires say the beam is elsewhere.                     *)
(*                                                                         *)
(* A wire cycle is cut into the cells the protocol tells apart: the stamp  *)
(* H, the framing markers F, the payload P, its CRC C and the stamp T, in  *)
(* wire order, then the write-back of the descriptor that holds the        *)
(* region's last byte (tripwire E), of the guard descriptor (tripwire G),  *)
(* and the spare descriptor.  A payload, and its CRC, is the number of the *)
(* write that produced it; a stamp is a sequence number.  A stamp that a   *)
(* bit error has changed to the number s is s + SeqMod: the reader sees s, *)
(* and the properties can tell it from a stamp that was written.           *)
(***************************************************************************)
EXTENDS Integers, Sequences

CONSTANTS
    SeqMod,         \* sequence numbers are 32 bits: 2^32
    LowMod,         \* values of T's low byte, which hint() watches: 256
    Starts,         \* tx_sequence after an init: esp_random()
    MaxWrites,      \* bound: calls of write()
    MaxRestarts,    \* bound: restarts of the peer
    MaxErrors,      \* bound: wire bit errors
    SyncLaps,       \* sync_timeout_cycles, in laps (0: a fault at any time)
    Slack,          \* beam steps a timed stretch of the reader can last
    Timed           \* reader positions that are part of a timed stretch

Region == <<"H", "F", "P", "C", "T">>      \* what copy_region copies
Lap    == Region \o <<"E", "gap", "G", "spare">>    \* what the beam meets in a lap
Cells  == {Region[i] : i \in 1 .. Len(Region)}
Bad    == -1                        \* markers, payload, CRC with a bit error
NoCrc  == -2                                    \* the template's CRC: no payload's
Framed == 0                                     \* intact markers

(* Between reading E and the last store a tripwire step is half done.      *)
TripPcs == {"g", "regionG", "lateE", "lateG", "armG"}
Pcs     == TripPcs \cup {"idle", "loop", "e", "tWindow", "tLate", "rearm",
                         "copy", "guard", "consume", "armE", "check", "again"}

ASSUME LinkAssumption ==
    /\ LowMod \in Nat \ {0}
    /\ SeqMod \in Nat \ {0, 1}
    /\ Starts \subseteq 0 .. SeqMod - 1
    /\ MaxWrites \in Nat /\ MaxRestarts \in Nat /\ MaxErrors \in Nat
    /\ SyncLaps \in Nat /\ Slack \in Nat
    /\ Timed \subseteq Pcs

VARIABLES
    cycle,      \* the writer's TX cycle
    seq,        \* tx_sequence
    id,         \* number of the last write begun
    stamps,     \* stamps[n]: the stamp of write n (history)
    wpc,        \* the cell i2slink_write stores next, or "idle"
    restarts,   \* peer restarts so far
    ring,       \* the reader's RX ring
    beam,       \* place in Lap the DMA reaches next
    errors,     \* bit errors so far
    E, G,       \* the two tripwires: a length has been written back
    locked,
    lastRead,   \* last_read; 0 stands for ~have_read
    tBits,      \* T's low byte as of the last good read
    pc,         \* where the reader is
    call,       \* locals of the hint() or read() in progress
    lag,        \* beam steps since this timed stretch of the reader began
    laps,       \* laps since fault_since, at most SyncLaps
    got,        \* the last NEW that read() returned
    hint        \* hint() said TRUE and no read has succeeded since

writerVars == <<cycle, seq, id, stamps, wpc, restarts>>
wireVars   == <<ring, beam, errors>>
lockVars   == <<locked, lastRead, tBits>>
resultVars == <<got, hint>>
vars == <<writerVars, wireVars, E, G, lockVars, pc, call, lag, laps, resultVars>>

(* op: the call; sawE: E as tripwire_step read it; copy: the cells copied  *)
(* so far; crossed: guard_crossed; clean: a clean copy seen in this read.  *)
NoCall == [op |-> "none", sawE |-> FALSE, copy |-> <<>>, crossed |-> FALSE,
           clean |-> FALSE]

(* got's stamp and write are what read() returned; the rest is history.    *)
(* hit: one of its two stamps had a bit error; best: the write of the last *)
(* NEW that had none.                                                      *)
NoneYet == [stamp |-> 0, write |-> 0, hit |-> FALSE, best |-> 0]

(* H = T = 0: no version yet; the CRC of the zero payload is not zero.     *)
Template == [c \in Cells |-> IF c = "C" THEN NoCrc ELSE 0]

Hit(v)  == v >= SeqMod              \* a stamp that a bit error has changed
Seen(v) == v % SeqMod               \* and the number it is to the reader
Low(v)  == Seen(v) % LowMod

Init ==
    /\ cycle = Template
    /\ seq \in Starts
    /\ id = 0
    /\ stamps = <<>>
    /\ wpc = "idle"
    /\ restarts = 0
    /\ ring = [Template EXCEPT !["F"] = Bad]     \* memset(rx_ring, 0x5C)
    /\ beam = 1
    /\ errors = 0
    /\ E = FALSE /\ G = FALSE
    /\ locked = FALSE /\ lastRead = 0 /\ tBits = 0
    /\ pc = "idle" /\ call = NoCall /\ lag = 0 /\ laps = 0
    /\ got = NoneYet /\ hint = FALSE

-----------------------------------------------------------------------------
(* The writer: T, the payload, its CRC, then H. *)

(* Faulty: the sequence wraps to 0, which says "no version yet". *)
NextSeqZero == (seq + 1) % SeqMod

(* Faulty: the sequence does not wrap. *)
NextSeqWide == seq + 1

NextSeq == IF (seq + 1) % SeqMod = 0 THEN 1 ELSE seq + 1

WriteT ==
    /\ wpc = "idle"
    /\ id < MaxWrites
    /\ id' = id + 1
    /\ seq' = NextSeq
    /\ stamps' = Append(stamps, NextSeq)
    /\ cycle' = [cycle EXCEPT !["T"] = NextSeq]
    /\ wpc' = "P"
    /\ UNCHANGED restarts

After == [P |-> "C", C |-> "H", H |-> "idle"]

WriteRest ==
    /\ wpc # "idle"
    /\ cycle' = [cycle EXCEPT ![wpc] = IF wpc = "H" THEN seq ELSE id]
    /\ wpc' = After[wpc]
    /\ UNCHANGED <<seq, id, stamps, restarts>>

(* init() on the peer: the template again, a fresh random sequence. *)
PeerRestart ==
    /\ restarts < MaxRestarts
    /\ restarts' = restarts + 1
    /\ cycle' = Template
    /\ seq' \in Starts
    /\ wpc' = "idle"
    /\ UNCHANGED <<id, stamps>>

Writer == /\ WriteT \/ WriteRest \/ PeerRestart
          /\ UNCHANGED <<wireVars, E, G, lockVars, pc, call, lag, laps, resultVars>>

-----------------------------------------------------------------------------
(* The beam: TX DMA samples a cell and RX DMA stores it; the write-backs.  *)

(* A bit error makes any other number of a stamp; it shows in the markers, *)
(* and in the payload and its CRC, which no longer agree.                  *)
Spoiled(c) == IF c \in {"H", "T"}
              THEN {s + SeqMod : s \in (0 .. SeqMod - 1) \ {cycle[c]}}
              ELSE {Bad}

Beam ==
    /\ pc \in Timed => lag < Slack
    /\ lag' = IF pc \in Timed THEN lag + 1 ELSE lag
    /\ beam' = (beam % Len(Lap)) + 1
    /\ \/ /\ Lap[beam] \in Cells
          /\ \/ /\ ring' = [ring EXCEPT ![Lap[beam]] = cycle[Lap[beam]]]
                /\ UNCHANGED errors
             \/ /\ errors < MaxErrors
                /\ errors' = errors + 1
                /\ \E v \in Spoiled(Lap[beam]) : ring' = [ring EXCEPT ![Lap[beam]] = v]
          /\ UNCHANGED <<E, G>>
       \/ /\ Lap[beam] \notin Cells
          /\ E' = (E \/ Lap[beam] = "E")
          /\ G' = (G \/ Lap[beam] = "G")
          /\ UNCHANGED <<ring, errors>>
    /\ laps' = IF beam = Len(Lap) /\ laps < SyncLaps THEN laps + 1 ELSE laps
    /\ UNCHANGED <<writerVars, lockVars, pc, call, resultVars>>

(* The beam is past E and has not reached the guard. *)
WindowOpen == Lap[beam] \in {"gap", "G"}

-----------------------------------------------------------------------------
(* The reader.  Every load and store that the beam can come between is a   *)
(* step of its own.                                                        *)

At(here, there) == pc = here /\ pc' = there /\ UNCHANGED resultVars

Done == pc' = "idle" /\ call' = NoCall

Answer(yes) == Done /\ hint' = yes /\ UNCHANGED got      \* of i2slink_hint

HintCall ==
    /\ pc = "idle"
    /\ \/ ~locked /\ Answer(TRUE)
       \/ locked /\ At("idle", "e") /\ call' = [NoCall EXCEPT !.op = "hint"]
    /\ UNCHANGED <<E, G, lockVars, laps>>

ReadCall ==
    /\ At("idle", "loop")
    /\ call' = [NoCall EXCEPT !.op = "read"]
    /\ laps' = 0
    /\ UNCHANGED <<E, G, lockVars>>

(* Faulty: the lock takes T as it is, not its complement. *)
SearchQuiet ==
    /\ ~locked
    /\ \/ /\ ring["F"] = Framed
          /\ locked' = TRUE
          /\ tBits' = Low(ring["T"])
          /\ At("loop", "armE")
       \/ /\ ring["F"] # Framed
          /\ At("loop", "again")
          /\ UNCHANGED <<locked, tBits>>
    /\ UNCHANGED <<E, G, lastRead, call, laps>>

(* The head of read()'s loop: search for the lock, or step the tripwires.  *)
Search ==
    /\ ~locked
    /\ \/ /\ ring["F"] = Framed
          /\ locked' = TRUE
          /\ tBits' = (LowMod - 1) - Low(ring["T"])     \* region_set: ~*t_word
          /\ At("loop", "armE")
       \/ /\ ring["F"] # Framed
          /\ At("loop", "again")
          /\ UNCHANGED <<locked, tBits>>
    /\ UNCHANGED <<E, G, lastRead, call, laps>>

Locked ==
    /\ At("loop", "e") /\ locked
    /\ UNCHANGED <<E, G, lockVars, call, laps>>

(* tripwire_step: E first, then G, then the stores its answer calls for.   *)
ReadE ==
    /\ At("e", "g")
    /\ call' = [call EXCEPT !.sawE = E]
    /\ UNCHANGED <<E, G, lockVars, laps>>

NoWindow ==             \* QUIET and REGION
    \/ call.op = "hint" /\ Answer(FALSE)
    \/ call.op = "read" /\ At(pc, "again") /\ UNCHANGED call

ReadG ==
    /\ pc = "g"
    /\ \/ ~call.sawE /\ ~G /\ NoWindow
       \/ ~call.sawE /\ G /\ At("g", "regionG") /\ UNCHANGED call
       \/ call.sawE /\ G /\ At("g", "lateE") /\ UNCHANGED call
       \/ /\ call.sawE /\ ~G
          /\ At("g", IF call.op = "hint" THEN "tWindow" ELSE "copy")
          /\ UNCHANGED call
    /\ UNCHANGED <<E, G, lockVars, laps>>

RegionG ==
    /\ pc = "regionG"
    /\ G' = FALSE
    /\ NoWindow
    /\ UNCHANGED <<E, lockVars, laps>>

(* Faulty: the late branch leaves E as it is. *)
LateEKept ==
    /\ At("lateE", "lateG")
    /\ UNCHANGED <<E, G, lockVars, call, laps>>

LateE ==
    /\ At("lateE", "lateG")
    /\ E' = FALSE
    /\ UNCHANGED <<G, lockVars, call, laps>>

LateG ==
    /\ At("lateG", IF call.op = "hint" THEN "tLate" ELSE "again")
    /\ G' = FALSE
    /\ UNCHANGED <<E, lockVars, call, laps>>

(* hint(): is T in the ring another than after the last good read? *)
TChanged ==
    /\ pc \in {"tWindow", "tLate"}
    /\ \/ Low(ring["T"]) # tBits /\ Answer(TRUE)
       \/ Low(ring["T"]) = tBits /\ pc = "tLate" /\ Answer(FALSE)
       \/ Low(ring["T"]) = tBits /\ At("tWindow", "rearm") /\ UNCHANGED call
    /\ UNCHANGED <<E, G, lockVars, laps>>

Rearm ==
    /\ pc = "rearm"
    /\ E' = FALSE
    /\ Answer(FALSE)
    /\ UNCHANGED <<G, lockVars, laps>>

(* take_window: copy_region, the guard, consume the window, then the checks *)
CopyCell ==
    /\ At("copy", IF Len(call.copy) + 1 = Len(Region) THEN "guard" ELSE "copy")
    /\ call' = [call EXCEPT !.copy = Append(@, ring[Region[Len(@) + 1]])]
    /\ UNCHANGED <<E, G, lockVars, laps>>

(* Faulty: the guard is not looked at after the copy. *)
ReadGuardBlind ==
    /\ At("guard", "consume")
    /\ call' = [call EXCEPT !.crossed = FALSE]
    /\ UNCHANGED <<E, G, lockVars, laps>>

ReadGuard ==
    /\ At("guard", "consume")
    /\ call' = [call EXCEPT !.crossed = G]
    /\ UNCHANGED <<E, G, lockVars, laps>>

Consume ==
    /\ At("consume", IF call.crossed THEN "armE" ELSE "check")
    /\ E' = FALSE
    /\ UNCHANGED <<G, lockVars, call, laps>>

ArmE ==
    /\ At("armE", "armG")
    /\ E' = FALSE
    /\ UNCHANGED <<G, lockVars, call, laps>>

ArmG ==
    /\ At("armG", "again")
    /\ G' = FALSE
    /\ call' = [NoCall EXCEPT !.op = call.op, !.clean = call.clean]
    /\ UNCHANGED <<E, lockVars, laps>>

Copied(c) == call.copy[CHOOSE i \in 1 .. Len(Region) : Region[i] = c]
Framing   == Copied("F") = Framed
Torn      == Seen(Copied("H")) # Seen(Copied("T"))
(* Faulty: any version but "none yet" is new. *)
StaleNever == Seen(Copied("H")) = 0

(* Faulty: the CRC is not checked. *)
CrcIgnored == TRUE

Stale     == Seen(Copied("H")) \in {0, lastRead}
CrcOk     == Copied("P") = Copied("C") /\ Copied("P") # Bad

New(hit) == [stamp |-> Seen(Copied("H")), write |-> Copied("P"), hit |-> hit,
             best |-> IF hit THEN got.best ELSE Copied("P")]

Check ==
    /\ pc = "check"
    /\ \/ /\ ~Framing                                        \* COPY_FRAMING
          /\ At("check", "again")
          /\ locked' = FALSE
          /\ call' = [NoCall EXCEPT !.op = "read", !.clean = call.clean]
          /\ UNCHANGED <<lastRead, tBits, laps>>
       \/ /\ Framing /\ (Torn \/ (~Stale /\ ~CrcOk))     \* COPY_TORN, COPY_CRC
          /\ At("check", "again")
          /\ call' = [NoCall EXCEPT !.op = "read", !.clean = call.clean]
          /\ UNCHANGED <<lockVars, laps>>
       \/ /\ Framing /\ ~Torn /\ Stale                      \* COPY_STALE
          /\ At("check", "again")
          /\ tBits' = Low(Copied("T"))
          /\ call' = [NoCall EXCEPT !.op = "read", !.clean = TRUE]
          /\ laps' = 0
          /\ UNCHANGED <<locked, lastRead>>
       \/ /\ Framing /\ ~Torn /\ ~Stale /\ CrcOk             \* COPY_NEW
          /\ lastRead' = Seen(Copied("H"))
          /\ tBits' = Low(Copied("T"))
          /\ got' = New(Hit(Copied("H")) \/ Hit(Copied("T")))
          /\ hint' = FALSE
          /\ Done
          /\ UNCHANGED <<locked, laps>>
    /\ UNCHANGED <<E, G>>

(* The foot of read()'s loop: TIMEOUT after a clean copy (wait_us can be 0), *)
(* the fault after SyncLaps laps without one, or around again.               *)
Again ==
    /\ pc = "again"
    /\ \/ call.clean /\ Done /\ hint' = FALSE /\ UNCHANGED got
       \/ laps = SyncLaps /\ Done /\ UNCHANGED resultVars
       \/ At("again", "loop") /\ UNCHANGED call
    /\ UNCHANGED <<E, G, lockVars, laps>>

Reader ==
    /\ \/ HintCall \/ ReadCall \/ Search \/ Locked \/ ReadE \/ ReadG \/ RegionG
       \/ LateE \/ LateG \/ TChanged \/ Rearm \/ CopyCell \/ ReadGuard
       \/ Consume \/ ArmE \/ ArmG \/ Check \/ Again
    /\ lag' = IF {pc, pc'} \subseteq Timed /\ pc' # "loop" THEN lag ELSE 0
    /\ UNCHANGED <<writerVars, wireVars>>

Next == Writer \/ Beam \/ Reader

Spec == Init /\ [][Next]_vars

(* The DMA never stops, a call runs to its end, and the client polls       *)
(* hint() and reads when it is TRUE.                                       *)
FairSpec == /\ Spec
            /\ WF_vars(Beam) /\ WF_vars(Reader)
            /\ SF_vars(HintCall /\ Reader)
            /\ SF_vars(hint /\ ReadCall /\ Reader)

-----------------------------------------------------------------------------

TypeOK ==
    /\ DOMAIN cycle = Cells /\ DOMAIN ring = Cells
    /\ seq \in 0 .. SeqMod - 1
    /\ id \in 0 .. MaxWrites /\ Len(stamps) = id
    /\ wpc \in {"P", "C", "H", "idle"}
    /\ restarts \in 0 .. MaxRestarts /\ errors \in 0 .. MaxErrors
    /\ beam \in 1 .. Len(Lap)
    /\ {E, G, locked, call.sawE, call.crossed, call.clean, hint} \subseteq BOOLEAN
    /\ pc \in Pcs /\ call.op \in {"hint", "read", "none"}
    /\ lag \in Nat /\ laps \in 0 .. SyncLaps
    /\ Len(call.copy) <= Len(Region)
    /\ lastRead \in 0 .. SeqMod - 1 /\ tBits \in 0 .. LowMod - 1
    /\ got.hit \in BOOLEAN /\ got.stamp = lastRead

(* "A NEW payload is one complete version exactly as written"              *)
(* (i2slink.h:17-18): what read() returned is the payload of one write,    *)
(* whatever bits the wire changed, and under that write's stamp unless it  *)
(* was one of the two stamps that a bit error changed.                     *)
NewIsOneVersion ==
    got # NoneYet => /\ got.write \in 1 .. id
                     /\ ~got.hit => stamps[got.write] = got.stamp

(* "never one this reader has returned before, and, within one peer        *)
(* session, newer than the last" (i2slink.h:18-19): across relocks, torn   *)
(* and stale copies, a NEW with both its stamps as written has moved       *)
(* forward from the last such.  Only a NEW between them whose stamp a bit  *)
(* error made lets the same version come once more; an older one never.    *)
NeverReturnedBefore ==
    [][pc = "check" /\ pc' = "idle" /\ ~got'.hit =>
            /\ got'.write >= got.best
            /\ ~got.hit => got'.write > got.write]_vars

(* The same with no exception, as i2slink.h:17-19 has it, and as           *)
(* i2slink.h:30 "the CRC32 rejects wire bit errors" would have it: a read  *)
(* that ends with NEW returns a version newer than the last.  The CRC does *)
(* not cover the stamps.                                                   *)
EveryNewIsNewer ==
    [][pc = "check" /\ pc' = "idle" => got'.write > got.write]_vars

(* tripwire_step answers TW_WINDOW only while the beam is in VSYNC         *)
(* (i2slink.c:166, 170-173): a false window would let the copy race the    *)
(* beam through the region with both stamps of different passes.           *)
NoFalseWindow ==
    [][pc = "g" /\ pc' \in {"copy", "tWindow"} => WindowOpen]_vars

(* The last version written is in the cycle and has not been read. *)
Waiting == /\ wpc = "idle" /\ id > 0 /\ cycle["H"] = stamps[id]
           /\ got.write < id

(* "a new version can be missed for at most a descriptor time or so, never *)
(* for good" (i2slink.h:165): an unread version turns the hint true.       *)
HintNeverStrands == Waiting ~> (hint \/ ~Waiting)

(* A version the writer leaves alone is read by a client that polls.       *)
QuietVersionRead == Waiting ~> ~Waiting
=============================================================================
