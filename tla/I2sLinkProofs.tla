--------------------------- MODULE I2sLinkProofs ---------------------------
(***************************************************************************)
(* The link, for every number of writes, restarts of the peer, bit errors  *)
(* and stamps, and a copy of any length: a window is the beam's, and what  *)
(* a read returns is the payload of one write.  If no bit error changed a  *)
(* stamp of its copy it has that write's stamp, and it is newer than the   *)
(* last such unless one with a changed stamp came between.                 *)
(*                                                                         *)
(* Two things are assumed where they are needed.  StepsTimed: a tripwire   *)
(* step takes no longer than the spare descriptor (i2slink.c:166-173).     *)
(* StampsApart: no two writes have the same stamp, as 32-bit numbers that  *)
(* start at random do not within a session of 2^32 writes.                 *)
(***************************************************************************)
EXTENDS I2sLink, TLAPS

StepsTimed == Slack <= 1 /\ TripPcs \subseteq Timed

StampsApart == \A m, n \in 1 .. id : stamps[m] = stamps[n] => m = n

-----------------------------------------------------------------------------
(* The inductive invariants. *)

Calls == [op : {"hint", "read", "none"}, sawE : BOOLEAN, copy : Seq(Int),
          crossed : BOOLEAN, clean : BOOLEAN]

WireTypes ==
    /\ cycle \in [Cells -> Int] /\ ring \in [Cells -> Int]
    /\ cycle["H"] \in 0 .. SeqMod - 1 /\ cycle["T"] \in 0 .. SeqMod - 1
    /\ seq \in 0 .. SeqMod - 1 /\ id \in 0 .. MaxWrites
    /\ stamps \in Seq(1 .. SeqMod - 1) /\ Len(stamps) = id
    /\ wpc \in {"P", "C", "H", "idle"}
    /\ restarts \in 0 .. MaxRestarts /\ errors \in 0 .. MaxErrors
    /\ beam \in 1 .. 9 /\ lag \in Nat

CallTypes ==
    /\ pc \in Pcs /\ call \in Calls
    /\ pc \notin {"copy", "guard", "consume", "check", "armE", "armG"} => call.copy = <<>>
    /\ pc = "copy" => Len(call.copy) < 5
    /\ pc \in {"guard", "consume", "check"} => Len(call.copy) = 5
    /\ Len(call.copy) <= 5

ReaderTypes ==
    /\ E \in BOOLEAN /\ G \in BOOLEAN /\ locked \in BOOLEAN /\ hint \in BOOLEAN
    /\ CallTypes
    /\ laps \in 0 .. SyncLaps
    /\ lastRead \in 0 .. SeqMod - 1 /\ tBits \in 0 .. LowMod - 1
    /\ got \in [stamp : Int, write : Int, hit : BOOLEAN, best : Int] /\ got.stamp = lastRead

LinkTypes == WireTypes /\ ReaderTypes

(* E without G is a beam between the two; a tripwire step that clears G    *)
(* after E finds E set again only by the one step the beam made meanwhile. *)
JustSet == E => beam = 7 /\ lag >= 1
Tripwires ==
    /\ E /\ ~G => beam \in {7, 8}
    /\ pc = "g" => (call.sawE => E) /\ (~call.sawE => JustSet)
    /\ pc \in {"regionG", "lateG", "armG"} => JustSet
    /\ pc \in {"copy", "guard"} => E

Value(s)    == s \in 1 .. SeqMod - 1
Named(s, p) == p = Bad \/ (p \in 1 .. id /\ stamps[p] = s)
OneVersion(h, t, p) == h = t /\ Value(h) => Named(h, p)

(* A stamp H of a write that is complete, or that another has followed.    *)
Finished(s) == Value(s) => \E n \in 1 .. id : stamps[n] = s /\ (n = id => wpc = "idle")

(* What the cells hold: stamps, true ones unless there are bit errors, the *)
(* zero payload or one written, the CRC of the template or of one written. *)
Stamp(s) == s \in Nat /\ (s >= SeqMod => MaxErrors > 0)
Fills(h, p, c, t) == /\ Stamp(h) /\ Stamp(t)
                     /\ p \in -1 .. id /\ (c \in {NoCrc, Bad} \/ c \in 1 .. id)

Cycle ==
    /\ Fills(cycle["H"], cycle["P"], cycle["C"], cycle["T"])
    /\ cycle["T"] # 0 => id > 0 /\ cycle["T"] = stamps[id]
    /\ wpc # "idle" => id > 0 /\ seq = stamps[id] /\ cycle["T"] = seq
    /\ wpc \in {"C", "H"} => cycle["P"] = id
    /\ wpc = "idle" /\ cycle["T"] # 0 => cycle["P"] = id
    /\ Finished(cycle["H"])

(* A pass of the beam that has T of a write has its payload, if H agrees.  *)
Ring ==
    /\ Fills(ring["H"], ring["P"], ring["C"], ring["T"])
    /\ Finished(ring["H"])
    /\ beam \in {4, 5} => OneVersion(ring["H"], cycle["T"], ring["P"])
    /\ beam \notin 2 .. 5 => OneVersion(ring["H"], ring["T"], ring["P"])

(* Up to the guard the beam has not touched what was copied. *)
Copy ==
    /\ pc \in {"copy", "guard"} /\ ~G =>
            \A i \in 1 .. Len(call.copy) : call.copy[i] = ring[Region[i]]
    /\ pc \in {"consume", "check"} /\ ~call.crossed =>
            /\ Fills(call.copy[1], call.copy[3], call.copy[4], call.copy[5])
            /\ OneVersion(call.copy[1], call.copy[5], call.copy[3])
    /\ pc = "check" => ~call.crossed

(* Versions move forward from the cycle to the ring, the copy, the client. *)
Before(a, b) == \A m, n \in 1 .. id : stamps[m] = a /\ stamps[n] = b => m <= n
HasH == pc \in {"copy", "guard", "consume", "check"} /\ Len(call.copy) > 0
Best == IF got.best = 0 THEN 0 ELSE stamps[got.best]     \* the stamp of the last with no error
Order ==
    /\ Before(Best, ring["H"]) /\ Before(Best, cycle["H"]) /\ Before(ring["H"], cycle["H"])
    /\ HasH => /\ Finished(call.copy[1])
               /\ Before(Best, call.copy[1])
               /\ Before(call.copy[1], ring["H"]) /\ Before(call.copy[1], cycle["H"])

Result ==
    /\ NewIsOneVersion
    /\ got.best \in 0 .. id /\ got.write \in 0 .. id
    /\ got.hit => MaxErrors > 0
    /\ ~got.hit => got.best = got.write

-----------------------------------------------------------------------------
(* The wire cycle. *)

LEMMA LapIs ==
    /\ Len(Lap) = 9 /\ Lap[1] = "H" /\ Lap[2] = "F" /\ Lap[3] = "P" /\ Lap[4] = "C" /\ Lap[5] = "T"
    /\ Lap[6] = "E" /\ Lap[7] = "gap" /\ Lap[8] = "G" /\ Lap[9] = "spare"
BY DEF Lap, Region

LEMMA RegionIs ==
    /\ Len(Region) = 5 /\ Region[1] = "H" /\ Region[2] = "F" /\ Region[3] = "P" /\ Region[4] = "C"
    /\ Region[5] = "T" /\ Cells = {"H", "F", "P", "C", "T"}
<1>1. /\ Len(Region) = 5 /\ Region[1] = "H" /\ Region[2] = "F" /\ Region[3] = "P" /\ Region[4] = "C"
      /\ Region[5] = "T"
  BY DEF Region
<1>2. 1 .. 5 = {1, 2, 3, 4, 5}
  OBVIOUS
<1>3. Cells = {Region[1], Region[2], Region[3], Region[4], Region[5]}
  BY <1>1, <1>2 DEF Cells
<1> QED BY <1>1, <1>3

LEMMA CopiedIs ==
    /\ Copied("H") = call.copy[1] /\ Copied("F") = call.copy[2] /\ Copied("P") = call.copy[3]
    /\ Copied("C") = call.copy[4] /\ Copied("T") = call.copy[5]
<1>1. /\ (CHOOSE i \in 1 .. Len(Region) : Region[i] = "H") = 1
      /\ (CHOOSE i \in 1 .. Len(Region) : Region[i] = "F") = 2
      /\ (CHOOSE i \in 1 .. Len(Region) : Region[i] = "P") = 3
      /\ (CHOOSE i \in 1 .. Len(Region) : Region[i] = "C") = 4
      /\ (CHOOSE i \in 1 .. Len(Region) : Region[i] = "T") = 5
  <2> DEFINE Is(c, k) == k \in 1 .. 5 /\ Region[k] = c
  <2>1. \A i \in 1 .. 5 : i = 1 \/ i = 2 \/ i = 3 \/ i = 4 \/ i = 5
    OBVIOUS
  <2>2. \A i \in 1 .. 5 : /\ Region[i] = "H" <=> i = 1
                          /\ Region[i] = "F" <=> i = 2
                          /\ Region[i] = "P" <=> i = 3
                          /\ Region[i] = "C" <=> i = 4
                          /\ Region[i] = "T" <=> i = 5
    BY <2>1, RegionIs
  <2> QED BY <2>2, RegionIs
<1> QED BY <1>1 DEF Copied

LEMMA StampRange ==
    ASSUME seq \in 0 .. SeqMod - 1
    PROVE  NextSeq \in 1 .. SeqMod - 1
<1>1. SeqMod \in Nat /\ SeqMod >= 2
  BY LinkAssumption
<1>2. CASE seq + 1 = SeqMod
  <2>1. SeqMod % SeqMod = 0
    BY <1>1
  <2> QED BY <1>1, <1>2, <2>1 DEF NextSeq
<1>3. CASE seq + 1 # SeqMod
  <2>1. seq + 1 \in 1 .. SeqMod - 1
    BY <1>1, <1>3
  <2>2. (seq + 1) % SeqMod = seq + 1
    BY <1>1, <2>1
  <2> QED BY <1>1, <2>1, <2>2 DEF NextSeq
<1> QED BY <1>2, <1>3

LEMMA LowRange ==
    ASSUME NEW s \in Int
    PROVE  /\ Seen(s) \in 0 .. SeqMod - 1
           /\ Low(s) \in 0 .. LowMod - 1 /\ (LowMod - 1) - Low(s) \in 0 .. LowMod - 1
<1>1. SeqMod \in Nat \ {0} /\ LowMod \in Nat \ {0}
  BY LinkAssumption
<1>2. Seen(s) \in 0 .. SeqMod - 1
  BY <1>1 DEF Seen
<1>3. Seen(s) \in Int
  BY <1>1, <1>2
<1>4. Low(s) \in 0 .. LowMod - 1
  BY <1>1, <1>3 DEF Low
<1> QED BY <1>1, <1>2, <1>4

(* A stamp with no bit error is the number the reader sees. *)
LEMMA TrueStamp ==
    ASSUME NEW s \in Nat, ~Hit(s)
    PROVE  Seen(s) = s /\ s \in 0 .. SeqMod - 1
BY LinkAssumption DEF Seen, Hit

-----------------------------------------------------------------------------
(* Types. *)

LEMMA TypesMeanTypeOK == LinkTypes => TypeOK
<1> SUFFICES ASSUME LinkTypes PROVE TypeOK
  OBVIOUS
<1> USE DEF LinkTypes, WireTypes, ReaderTypes, CallTypes
<1>1. {E, G, locked, call.sawE, call.crossed, call.clean, hint} \subseteq BOOLEAN
      /\ call.op \in {"hint", "read", "none"}
  BY DEF Calls
<1> QED BY <1>1, LapIs, RegionIs DEF TypeOK

LEMMA InitTypes == Init => LinkTypes
<1> SUFFICES ASSUME Init PROVE LinkTypes
  OBVIOUS
<1> USE LinkAssumption DEF Init
<1>1. Template \in [Cells -> Int] /\ Template["H"] = 0 /\ Template["T"] = 0
  BY RegionIs DEF Template, NoCrc
<1>2. cycle \in [Cells -> Int] /\ ring \in [Cells -> Int]
  <2>1. Bad \in Int /\ "F" \in Cells
    BY RegionIs DEF Bad
  <2> QED BY <1>1, <2>1
<1>3. WireTypes
  <2>1. stamps \in Seq(1 .. SeqMod - 1) /\ Len(stamps) = 0
    OBVIOUS
  <2>2. cycle["H"] = 0 /\ cycle["T"] = 0
    BY <1>1, RegionIs DEF Bad
  <2> QED BY <1>2, <2>1, <2>2 DEF WireTypes
<1>4. call \in Calls /\ call.copy = <<>> /\ Len(call.copy) = 0
  BY DEF NoCall, Calls
<1>5. CallTypes
  BY <1>4 DEF CallTypes, Pcs
<1>6. 0 \in 0 .. SyncLaps /\ 0 \in 0 .. SeqMod - 1 /\ 0 \in 0 .. LowMod - 1
  OBVIOUS
<1>7. NoneYet \in [stamp : Int, write : Int, hit : BOOLEAN, best : Int] /\ NoneYet.stamp = 0
  BY DEF NoneYet
<1> QED BY <1>3, <1>5, <1>6, <1>7 DEF LinkTypes, ReaderTypes

LEMMA WriterTypes ==
    ASSUME LinkTypes, Writer
    PROVE  LinkTypes'
<1>1. /\ UNCHANGED <<ring, beam, errors, E, G, locked, lastRead, tBits, pc, call, lag, laps, got, hint>>
      /\ WriteT \/ WriteRest \/ PeerRestart
  BY DEF Writer, wireVars, lockVars, resultVars
<1>2. ReaderTypes'
  BY <1>1 DEF LinkTypes, ReaderTypes, CallTypes
<1>3. WireTypes'
  <2> USE DEF LinkTypes, WireTypes
  <2>1. CASE WriteT
    <3>1. NextSeq \in 1 .. SeqMod - 1 /\ NextSeq \in 0 .. SeqMod - 1 /\ NextSeq \in Int
      BY StampRange, LinkAssumption
    <3>2. stamps' \in Seq(1 .. SeqMod - 1) /\ Len(stamps') = id + 1
      BY <2>1, <3>1 DEF WriteT
    <3>3. cycle' \in [Cells -> Int]
      BY <2>1, <3>1 DEF WriteT
    <3>4. id' \in 0 .. MaxWrites
      BY <2>1, LinkAssumption DEF WriteT
    <3>5. cycle'["H"] = cycle["H"] /\ cycle'["T"] = NextSeq
      BY <2>1, RegionIs DEF WriteT
    <3> QED BY <1>1, <2>1, <3>1, <3>2, <3>3, <3>4, <3>5 DEF WriteT
  <2>2. CASE WriteRest
    <3>1. cycle' \in [Cells -> Int]
      <4> DEFINE v == IF wpc = "H" THEN seq ELSE id
      <4>1. v \in Int
        BY LinkAssumption
      <4>2. cycle' = [cycle EXCEPT ![wpc] = v]
        BY <2>2 DEF WriteRest
      <4> HIDE DEF v
      <4> QED BY <4>1, <4>2
    <3>2. wpc' \in {"P", "C", "H", "idle"}
      BY <2>2 DEF WriteRest, After
    <3>3. cycle'["H"] \in 0 .. SeqMod - 1 /\ cycle'["T"] \in 0 .. SeqMod - 1
      <4>1. cycle'["H"] = (IF wpc = "H" THEN seq ELSE cycle["H"]) /\ cycle'["T"] = cycle["T"]
        BY <2>2, RegionIs DEF WriteRest
      <4> QED BY <4>1, LinkAssumption
    <3> QED BY <1>1, <2>2, <3>1, <3>2, <3>3 DEF WriteRest
  <2>3. CASE PeerRestart
    <3>1. /\ cycle' \in [Cells -> Int]
          /\ cycle'["H"] \in 0 .. SeqMod - 1 /\ cycle'["T"] \in 0 .. SeqMod - 1
      BY <2>3, RegionIs, LinkAssumption DEF PeerRestart, Template, NoCrc
    <3>2. seq' \in 0 .. SeqMod - 1 /\ restarts' \in 0 .. MaxRestarts
      BY <2>3, LinkAssumption DEF PeerRestart
    <3> QED BY <1>1, <2>3, <3>1, <3>2 DEF PeerRestart
  <2> QED BY <1>1, <2>1, <2>2, <2>3
<1> QED BY <1>2, <1>3 DEF LinkTypes

(* What a bit error leaves in the cell c. *)
Lost(c, v) == IF c \in {"H", "T"} THEN v \in Nat /\ v >= SeqMod /\ MaxErrors > 0 ELSE v = Bad

LEMMA LostIs ==
    ASSUME NEW c \in Cells, NEW v, Lost(c, v)
    PROVE  v \in Int /\ ~Value(v)
BY LinkAssumption DEF Lost, Value, Bad

(* What a step of the beam does. *)
LEMMA BeamStep ==
    ASSUME LinkTypes, Beam
    PROVE  /\ UNCHANGED <<cycle, seq, id, stamps, wpc, restarts, locked, lastRead, tBits, pc, call, got,
                          hint>>
           /\ beam' = IF beam = 9 THEN 1 ELSE beam + 1
           /\ pc \in Timed => lag < Slack /\ lag' = lag + 1
           /\ ring' \in [Cells -> Int] /\ errors' \in 0 .. MaxErrors /\ lag' \in Nat
           /\ E' = (E \/ beam = 6) /\ G' = (G \/ beam = 8)
           /\ beam \notin 1 .. 5 => ring' = ring
           /\ \A c \in Cells : ring'[c] = ring[c] \/ (Lap[beam] = c /\ (ring'[c] = cycle[c] \/ Lost(c, ring'[c])))
           /\ beam = 3 => ring'["P"] \in {cycle["P"], Bad}
           /\ beam = 5 => ring'["T"] = cycle["T"] \/ Lost("T", ring'["T"])
<1>0. /\ beam \in 1 .. 9 /\ lag \in Nat /\ errors \in 0 .. MaxErrors
      /\ cycle \in [Cells -> Int] /\ ring \in [Cells -> Int] /\ E \in BOOLEAN /\ G \in BOOLEAN
  BY DEF LinkTypes, WireTypes, ReaderTypes
<1>1. UNCHANGED <<cycle, seq, id, stamps, wpc, restarts, locked, lastRead, tBits, pc, call, got, hint>>
  BY DEF Beam, writerVars, lockVars, resultVars
<1>2. beam \in {1, 2, 3, 4, 5, 6, 7, 8, 9}
  BY <1>0
<1>3. beam' = IF beam = 9 THEN 1 ELSE beam + 1
  <2>1. beam' = (beam % 9) + 1
    BY LapIs DEF Beam
  <2> QED BY <1>2, <2>1
<1>4. /\ pc \in Timed => lag < Slack /\ lag' = lag + 1
      /\ lag' \in Nat
  BY <1>0 DEF Beam
<1>5. Lap[beam] \in Cells <=> beam \in 1 .. 5
  <2>1. /\ Lap[1] \in Cells /\ Lap[2] \in Cells /\ Lap[3] \in Cells /\ Lap[4] \in Cells
        /\ Lap[5] \in Cells
    BY LapIs, RegionIs
  <2>2. Lap[6] \notin Cells /\ Lap[7] \notin Cells /\ Lap[8] \notin Cells /\ Lap[9] \notin Cells
    BY LapIs, RegionIs
  <2>3. ASSUME beam \in 1 .. 5 PROVE Lap[beam] \in Cells
    <3>1. beam = 1 \/ beam = 2 \/ beam = 3 \/ beam = 4 \/ beam = 5
      BY <2>3
    <3> QED BY <2>1, <3>1
  <2>4. ASSUME beam \notin 1 .. 5 PROVE Lap[beam] \notin Cells
    <3>1. beam = 6 \/ beam = 7 \/ beam = 8 \/ beam = 9
      BY <1>2, <2>4
    <3> QED BY <2>2, <3>1
  <2> QED BY <2>3, <2>4
<1>6. CASE beam \in 1 .. 5
  <2>0. Lap[beam] \in Cells
    BY <1>5, <1>6
  <2>1. PICK v : /\ v = cycle[Lap[beam]] \/ Lost(Lap[beam], v)
                 /\ ring' = [ring EXCEPT ![Lap[beam]] = v]
    <3>1. \/ ring' = [ring EXCEPT ![Lap[beam]] = cycle[Lap[beam]]]
          \/ errors < MaxErrors /\ \E v \in Spoiled(Lap[beam]) : ring' = [ring EXCEPT ![Lap[beam]] = v]
      BY <2>0 DEF Beam
    <3>2. ASSUME NEW v \in Spoiled(Lap[beam]), errors < MaxErrors PROVE Lost(Lap[beam], v)
      BY <1>0, <3>2, LinkAssumption DEF Spoiled, Lost
    <3> QED BY <3>1, <3>2
  <2>2. v \in Int
    BY <1>0, <2>0, <2>1, LostIs
  <2>3. E' = E /\ G' = G
    BY <1>5, <1>6 DEF Beam
  <2>4. errors' \in 0 .. MaxErrors
    BY <1>0, <1>5, <1>6, LinkAssumption DEF Beam
  <2>5. ring' \in [Cells -> Int]
    BY <1>0, <1>5, <1>6, <2>1, <2>2
  <2>6. \A c \in Cells : ring'[c] = IF c = Lap[beam] THEN v ELSE ring[c]
    BY <1>0, <2>1, <1>5, <1>6
  <2>7. /\ beam = 3 => ring'["P"] \in {cycle["P"], Bad}
        /\ beam = 5 => ring'["T"] = cycle["T"] \/ Lost("T", ring'["T"])
    BY <2>1, <2>6, LapIs, RegionIs DEF Lost
  <2>8. E' = (E \/ beam = 6) /\ G' = (G \/ beam = 8)
    BY <1>0, <1>6, <2>3
  <2>9. \A c \in Cells : ring'[c] = ring[c] \/ (Lap[beam] = c /\ (ring'[c] = cycle[c] \/ Lost(c, ring'[c])))
    BY <2>1, <2>6
  <2> QED BY <1>1, <1>3, <1>4, <1>6, <2>4, <2>5, <2>7, <2>8, <2>9
<1>7. CASE beam \notin 1 .. 5
  <2>1. /\ ring' = ring /\ errors' = errors
        /\ E' = (E \/ Lap[beam] = "E") /\ G' = (G \/ Lap[beam] = "G")
    BY <1>5, <1>7 DEF Beam
  <2>2. Lap[beam] = "E" <=> beam = 6
    BY <1>2, LapIs
  <2>3. Lap[beam] = "G" <=> beam = 8
    BY <1>2, LapIs
  <2>4. E' = (E \/ beam = 6) /\ G' = (G \/ beam = 8)
    BY <2>1, <2>2, <2>3
  <2> QED BY <1>0, <1>1, <1>3, <1>4, <1>7, <2>1, <2>4
<1> QED BY <1>6, <1>7

LEMMA BeamTypes ==
    ASSUME LinkTypes, Beam
    PROVE  LinkTypes'
<1>1. /\ UNCHANGED <<cycle, seq, id, stamps, wpc, restarts, locked, lastRead, tBits, pc, call, got, hint>>
      /\ beam' = IF beam = 9 THEN 1 ELSE beam + 1
      /\ ring' \in [Cells -> Int] /\ errors' \in 0 .. MaxErrors /\ lag' \in Nat
      /\ E' = (E \/ beam = 6) /\ G' = (G \/ beam = 8)
  BY BeamStep
<1>3. laps' \in 0 .. SyncLaps
  BY LinkAssumption DEF Beam, LinkTypes, ReaderTypes
<1>4. WireTypes'
  <2>1. beam' \in 1 .. 9
    BY <1>1 DEF LinkTypes, WireTypes
  <2> QED BY <1>1, <2>1 DEF LinkTypes, WireTypes
<1>5. ReaderTypes'
  BY <1>1, <1>3 DEF LinkTypes, ReaderTypes, CallTypes
<1> QED BY <1>4, <1>5 DEF LinkTypes

(* The calls of the client, whose locals start anew or go on as they were. *)
LEMMA NoCallIs == NoCall \in Calls /\ NoCall.copy = <<>> /\ Len(<<>>) = 0
<1>1. <<>> \in Seq(Int) /\ Len(<<>>) = 0
  OBVIOUS
<1> QED BY <1>1 DEF NoCall, Calls

LEMMA CallStarts ==
    /\ \A op \in {"hint", "read", "none"} :
          /\ [NoCall EXCEPT !.op = op] \in Calls
          /\ [NoCall EXCEPT !.op = op].copy = <<>>
    /\ \A op \in {"hint", "read", "none"}, clean \in BOOLEAN :
          /\ [NoCall EXCEPT !.op = op, !.clean = clean] \in Calls
          /\ [NoCall EXCEPT !.op = op, !.clean = clean].copy = <<>>
<1>1. ASSUME NEW op \in {"hint", "read", "none"}
      PROVE  [NoCall EXCEPT !.op = op] \in Calls /\ [NoCall EXCEPT !.op = op].copy = <<>>
  BY NoCallIs DEF Calls
<1>2. ASSUME NEW op \in {"hint", "read", "none"}, NEW clean \in BOOLEAN
      PROVE  /\ [NoCall EXCEPT !.op = op, !.clean = clean] \in Calls
             /\ [NoCall EXCEPT !.op = op, !.clean = clean].copy = <<>>
  BY NoCallIs DEF Calls
<1> QED BY <1>1, <1>2

(* A step of the reader leaves the writer and the wire alone. *)
LEMMA ReaderTypesStep ==
    ASSUME LinkTypes, Reader
    PROVE  LinkTypes'
<1>0. UNCHANGED <<cycle, seq, id, stamps, wpc, restarts, ring, beam, errors>> /\ lag' \in Nat
  BY DEF Reader, writerVars, wireVars, LinkTypes, WireTypes
<1>1. WireTypes'
  BY <1>0 DEF LinkTypes, WireTypes
<1> SUFFICES ReaderTypes'
  BY <1>1 DEF LinkTypes
<1> USE DEF LinkTypes, ReaderTypes, resultVars, lockVars, At, Answer, Done
<1>2. ASSUME UNCHANGED <<lockVars, laps, got>>, E' \in BOOLEAN, G' \in BOOLEAN, hint' \in BOOLEAN,
             CallTypes'
      PROVE  ReaderTypes'
  BY <1>2
<1>3. ASSUME call' \in Calls, call'.copy = <<>>, pc' \in Pcs \ {"guard", "consume", "check"}
      PROVE  CallTypes'
  BY <1>3, NoCallIs DEF CallTypes
<1>4. call' = NoCall /\ pc' = "idle" => CallTypes'
  BY <1>3, NoCallIs DEF Pcs
<1>5. call \in Calls /\ pc \in Pcs
  BY DEF CallTypes
<1>6. CASE HintCall
  <2>1. CallTypes'
    <3>1. CASE pc' = "e" /\ call' = [NoCall EXCEPT !.op = "hint"]
      BY <1>3, <3>1, CallStarts DEF Pcs
    <3> QED BY <1>4, <1>6, <3>1 DEF HintCall
  <2> QED BY <1>2, <1>6, <2>1 DEF HintCall
<1>7. CASE ReadCall
  <2>1. CallTypes' /\ laps' \in 0 .. SyncLaps
    <3>1. pc' = "loop" /\ call' = [NoCall EXCEPT !.op = "read"] /\ laps' = 0
      BY <1>7 DEF ReadCall
    <3>2. call' \in Calls /\ call'.copy = <<>>
      BY <3>1, CallStarts
    <3>3. CallTypes'
      BY <1>3, <3>1, <3>2 DEF Pcs
    <3> QED BY <3>1, <3>3, LinkAssumption
  <2> QED BY <1>7, <2>1 DEF ReadCall
<1>8. CASE Search
  <2>1. CallTypes'
    BY <1>8, CallStarts, NoCallIs DEF Search, CallTypes, Pcs, TripPcs
  <2>2. tBits' \in 0 .. LowMod - 1
    <3>1. ring["T"] \in Int
      BY RegionIs DEF WireTypes
    <3> QED BY <1>8, <3>1, LowRange DEF Search
  <2>3. locked' \in BOOLEAN
    BY <1>8 DEF Search
  <2> QED BY <1>8, <2>1, <2>2, <2>3 DEF Search
<1>9. CASE Locked
  <2>1. CallTypes'
    BY <1>9 DEF Locked, CallTypes, Pcs
  <2> QED BY <1>2, <1>9, <2>1 DEF Locked
<1>10. CASE ReadE
  <2>1. CallTypes'
    BY <1>10 DEF ReadE, CallTypes, Calls, Pcs, TripPcs
  <2> QED BY <1>2, <1>10, <2>1 DEF ReadE
<1>11. CASE ReadG
  <2>1. CallTypes'
    <3>1. call.copy = <<>> /\ pc = "g"
      BY <1>11 DEF ReadG, CallTypes
    <3>2. CASE NoWindow
      BY <1>3, <1>4, <1>5, <3>1, <3>2 DEF NoWindow, Pcs
    <3>3. CASE call' = call /\ pc' \in {"regionG", "lateE", "tWindow", "copy"}
      BY <1>3, <1>5, <3>1, <3>3 DEF Pcs, TripPcs
    <3> QED BY <1>11, <3>2, <3>3 DEF ReadG
  <2>2. hint' \in BOOLEAN /\ got' = got
    BY <1>11 DEF ReadG, NoWindow
  <2> QED BY <1>2, <1>11, <2>1, <2>2 DEF ReadG
<1>12. CASE RegionG
  <2>1. CallTypes'
    <3>1. call.copy = <<>> /\ pc = "regionG"
      BY <1>12 DEF RegionG, CallTypes
    <3> QED BY <1>3, <1>4, <1>5, <1>12, <3>1 DEF RegionG, NoWindow, Pcs
  <2> QED BY <1>2, <1>12, <2>1 DEF RegionG, NoWindow
<1>13. CASE LateE
  <2>1. CallTypes'
    BY <1>13 DEF LateE, CallTypes, Pcs, TripPcs
  <2> QED BY <1>2, <1>13, <2>1 DEF LateE
<1>14. CASE LateG
  <2>1. CallTypes'
    BY <1>14 DEF LateG, CallTypes, Pcs, TripPcs
  <2> QED BY <1>2, <1>14, <2>1 DEF LateG
<1>15. CASE TChanged
  <2>1. CallTypes'
    <3>1. call.copy = <<>>
      BY <1>15 DEF TChanged, CallTypes
    <3> QED BY <1>3, <1>4, <1>5, <1>15, <3>1 DEF TChanged, Pcs
  <2> QED BY <1>2, <1>15, <2>1 DEF TChanged
<1>16. CASE Rearm
  <2>1. CallTypes'
    BY <1>4, <1>16 DEF Rearm
  <2> QED BY <1>2, <1>16, <2>1 DEF Rearm
<1>17. CASE CopyCell
  <2>1. /\ call' = [call EXCEPT !.copy = Append(call.copy, ring[Region[Len(call.copy) + 1]])]
        /\ pc = "copy" /\ pc' = IF Len(call.copy) + 1 = 5 THEN "guard" ELSE "copy"
    BY <1>17, RegionIs DEF CopyCell
  <2>2. ring[Region[Len(call.copy) + 1]] \in Int
    <3>1. call.copy \in Seq(Int) /\ Len(call.copy) < 5
      BY <2>1, <1>5 DEF CallTypes, Calls
    <3>2. Len(call.copy) + 1 \in 1 .. 5
      BY ONLY <3>1
    <3>3. Region[Len(call.copy) + 1] \in Cells
      BY <3>2, RegionIs DEF Cells
    <3> QED BY <3>3 DEF WireTypes
  <2>3. CallTypes'
    <3>1. call.copy \in Seq(Int) /\ Len(call.copy) < 5
      BY <2>1, <1>5 DEF CallTypes, Calls
    <3>2. call'.copy \in Seq(Int) /\ Len(call'.copy) = Len(call.copy) + 1
      BY <2>1, <2>2, <3>1, <1>5 DEF Calls
    <3>3. call' \in Calls
      BY <2>1, <3>2, <1>5 DEF Calls
    <3>5. pc' \in {"copy", "guard"} /\ pc' \in Pcs /\ (pc' = "guard" <=> Len(call.copy) + 1 = 5)
      BY <2>1 DEF Pcs
    <3>6. \A m \in Nat : m < 5 => m + 1 \in 1 .. 5 /\ m + 1 > 0 /\ m + 1 <= 5
                                  /\ (m + 1 # 5 => m + 1 < 5)
      OBVIOUS
    <3>7. Len(call.copy) \in Nat
      BY <3>1
    <3>8. /\ Len(call'.copy) <= 5
          /\ pc' = "copy" => Len(call'.copy) < 5
          /\ pc' = "guard" => Len(call'.copy) = 5
      BY <3>1, <3>2, <3>5, <3>6, <3>7
    <3> QED BY <3>3, <3>5, <3>8 DEF CallTypes
  <2> QED BY <1>2, <1>17, <2>3 DEF CopyCell
<1>18. CASE ReadGuard
  <2>1. CallTypes'
    BY <1>18 DEF ReadGuard, CallTypes, Calls, Pcs
  <2> QED BY <1>2, <1>18, <2>1 DEF ReadGuard
<1>19. CASE Consume
  <2>1. CallTypes'
    BY <1>19 DEF Consume, CallTypes, Pcs
  <2> QED BY <1>2, <1>19, <2>1 DEF Consume
<1>20. CASE ArmE
  <2>1. CallTypes'
    BY <1>20 DEF ArmE, CallTypes, Pcs, TripPcs
  <2> QED BY <1>2, <1>20, <2>1 DEF ArmE
<1>21. ASSUME NEW op \in {"hint", "read", "none"}, NEW clean \in BOOLEAN,
              call' = [NoCall EXCEPT !.op = op, !.clean = clean], pc' = "again"
       PROVE  CallTypes'
  BY <1>3, <1>21, CallStarts DEF Pcs
<1>22. CASE ArmG
  <2>1. CallTypes'
    BY <1>5, <1>21, <1>22 DEF ArmG, Calls
  <2> QED BY <1>2, <1>22, <2>1 DEF ArmG
<1>23. CASE Check
  <2>1. CallTypes'
    <3>1. CASE pc' = "again" /\ \E clean \in BOOLEAN : call' = [NoCall EXCEPT !.op = "read", !.clean = clean]
      BY <1>21, <3>1
    <3>2. call.clean \in BOOLEAN /\ TRUE \in BOOLEAN
      BY <1>5 DEF Calls
    <3> QED BY <1>4, <1>23, <3>1, <3>2 DEF Check
  <2>2. Copied("H") \in Int /\ Copied("T") \in Int /\ Copied("P") \in Int
    <3>1. call.copy \in Seq(Int) /\ Len(call.copy) = 5
      BY <1>5, <1>23 DEF Check, CallTypes, Calls
    <3> QED BY <3>1, CopiedIs
  <2> DEFINE hit == Hit(Copied("H")) \/ Hit(Copied("T"))
  <2>3. /\ New(hit) \in [stamp : Int, write : Int, hit : BOOLEAN, best : Int]
        /\ New(hit).stamp = Seen(Copied("H"))
    <3>1. Seen(Copied("H")) \in Int /\ hit \in BOOLEAN
      BY <2>2, LowRange, LinkAssumption DEF Hit
    <3> HIDE DEF hit
    <3> QED BY <2>2, <3>1 DEF New
  <2> HIDE DEF hit
  <2>4. Low(Copied("T")) \in 0 .. LowMod - 1 /\ Seen(Copied("H")) \in 0 .. SeqMod - 1
        /\ 0 \in 0 .. SyncLaps
    BY <2>2, LowRange, LinkAssumption
  <2>5. /\ UNCHANGED <<E, G>>
        /\ tBits' \in {tBits, Low(Copied("T"))} /\ laps' \in {laps, 0}
        /\ locked' \in {locked, FALSE} /\ hint' \in {hint, FALSE}
        /\ \/ UNCHANGED <<got, lastRead>>
           \/ got' = New(hit) /\ lastRead' = Seen(Copied("H"))
    BY <1>23 DEF Check, hit
  <2> QED BY <2>1, <2>3, <2>4, <2>5
<1>24. CASE Again
  <2>1. CallTypes'
    <3>1. call.copy = <<>>
      BY <1>24 DEF Again, CallTypes
    <3> QED BY <1>3, <1>4, <1>5, <1>24, <3>1 DEF Again, Pcs
  <2>2. hint' \in BOOLEAN /\ got' = got
    BY <1>24 DEF Again
  <2> QED BY <1>2, <1>24, <2>1, <2>2 DEF Again
<1> QED BY <1>6, <1>7, <1>8, <1>9, <1>10, <1>11, <1>12, <1>13, <1>14, <1>15, <1>16, <1>17, <1>18, <1>19,
           <1>20, <1>22, <1>23, <1>24 DEF Reader

-----------------------------------------------------------------------------
(* Windows. *)

LEMMA BeamTrip ==
    ASSUME StepsTimed, LinkTypes, Tripwires, Beam
    PROVE  Tripwires'
<1>1. /\ UNCHANGED <<pc, call>> /\ beam' = IF beam = 9 THEN 1 ELSE beam + 1
      /\ pc \in Timed => lag < Slack /\ lag' = lag + 1
      /\ E' = (E \/ beam = 6) /\ G' = (G \/ beam = 8)
  BY BeamStep
<1>2. beam \in 1 .. 9 /\ lag \in Nat /\ E \in BOOLEAN /\ G \in BOOLEAN /\ Slack \in Nat
  BY LinkAssumption DEF LinkTypes, WireTypes, ReaderTypes
<1>3. E' /\ ~G' => beam' \in {7, 8}
  BY <1>1, <1>2 DEF Tripwires
<1>4. pc \in {"g", "regionG", "lateG", "armG"} => lag = 0 /\ lag' = 1
  BY <1>1, <1>2 DEF StepsTimed, TripPcs
<1>5. pc \in {"g", "regionG", "lateG", "armG"} /\ JustSet => JustSet'
  BY <1>1, <1>2, <1>4 DEF JustSet
<1> QED BY <1>1, <1>2, <1>3, <1>5 DEF Tripwires

LEMMA ReaderTrip ==
    ASSUME StepsTimed, LinkTypes, Tripwires, Reader
    PROVE  Tripwires'
<1>0. beam' = beam /\ lag' = IF {pc, pc'} \subseteq Timed /\ pc' # "loop" THEN lag ELSE 0
  BY DEF Reader, wireVars
<1>1. E \in BOOLEAN /\ G \in BOOLEAN /\ beam \in 1 .. 9 /\ call \in Calls /\ lag \in Nat
  BY DEF LinkTypes, WireTypes, ReaderTypes, CallTypes
<1> USE DEF Tripwires, At, Answer, Done
<1>2. CASE HintCall
  BY <1>0, <1>2 DEF HintCall
<1>3. CASE ReadCall
  BY <1>0, <1>3 DEF ReadCall
<1>4. CASE Search
  BY <1>0, <1>4 DEF Search
<1>5. CASE Locked
  BY <1>0, <1>5 DEF Locked
<1>6. CASE ReadE
  <2>1. call'.sawE = E
    BY <1>1, <1>6 DEF ReadE, Calls
  <2> QED BY <1>0, <1>1, <1>6, <2>1 DEF ReadE, JustSet
<1>7. CASE ReadG
  <2>1. pc = "g" /\ UNCHANGED <<E, G>>
    BY <1>7 DEF ReadG
  <2>2. CASE pc' = "regionG" /\ ~call.sawE
    <3>1. lag' = lag
      BY <1>0, <2>1, <2>2 DEF StepsTimed, TripPcs
    <3> QED BY <1>0, <2>1, <2>2, <3>1 DEF JustSet
  <2>3. CASE call.sawE /\ ~G /\ pc' \in {"tWindow", "copy"}
    BY <1>0, <2>1, <2>3
  <2>4. CASE pc' \in {"idle", "again", "lateE"}
    BY <1>0, <2>1, <2>4
  <2> QED BY <1>7, <2>2, <2>3, <2>4 DEF ReadG, NoWindow
<1>8. CASE RegionG
  <2>1. G' = FALSE /\ E' = E /\ pc' \in {"idle", "again"} /\ pc = "regionG"
    BY <1>8 DEF RegionG, NoWindow
  <2> QED BY <1>0, <2>1 DEF JustSet
<1>9. CASE LateE
  BY <1>0, <1>9 DEF LateE, JustSet
<1>10. CASE LateG
  BY <1>0, <1>10 DEF LateG, JustSet
<1>11. CASE TChanged
  BY <1>0, <1>11 DEF TChanged
<1>12. CASE Rearm
  BY <1>0, <1>12 DEF Rearm
<1>13. CASE CopyCell
  BY <1>0, <1>13 DEF CopyCell
<1>14. CASE ReadGuard
  BY <1>0, <1>14 DEF ReadGuard
<1>15. CASE Consume
  BY <1>0, <1>15 DEF Consume
<1>16. CASE ArmE
  BY <1>0, <1>16 DEF ArmE, JustSet
<1>17. CASE ArmG
  BY <1>0, <1>17 DEF ArmG, JustSet
<1>18. CASE Check
  BY <1>0, <1>18 DEF Check
<1>19. CASE Again
  BY <1>0, <1>19 DEF Again
<1> QED BY <1>2, <1>3, <1>4, <1>5, <1>6, <1>7, <1>8, <1>9, <1>10, <1>11, <1>12, <1>13, <1>14, <1>15, <1>16,
           <1>17, <1>18, <1>19 DEF Reader

TripInv == LinkTypes /\ Tripwires

LEMMA InitTrip == Init => TripInv
BY InitTypes DEF Init, TripInv, Tripwires

LEMMA StepTypes == LinkTypes /\ [Next]_vars => LinkTypes'
<1> SUFFICES ASSUME LinkTypes, [Next]_vars PROVE LinkTypes'
  OBVIOUS
<1>1. CASE UNCHANGED vars
  BY <1>1 DEF vars, writerVars, wireVars, lockVars, resultVars, LinkTypes, WireTypes, ReaderTypes,
              CallTypes
<1> QED BY <1>1, WriterTypes, BeamTypes, ReaderTypesStep DEF Next

LEMMA StepTrip ==
    ASSUME StepsTimed, TripInv, [Next]_vars
    PROVE  TripInv'
<1>1. LinkTypes'
  BY StepTypes DEF TripInv
<1>2. CASE UNCHANGED <<beam, E, G, pc, call, lag>>
  BY <1>1, <1>2 DEF TripInv, Tripwires, JustSet
<1>3. Writer \/ UNCHANGED vars => UNCHANGED <<beam, E, G, pc, call, lag>>
  BY DEF Writer, vars, wireVars
<1> QED BY <1>1, <1>2, <1>3, BeamTrip, ReaderTrip DEF TripInv, Next

LEMMA WindowIsOpen ==
    ASSUME TripInv, Next, pc = "g", pc' \in {"copy", "tWindow"}
    PROVE  WindowOpen
<1>1. Reader
  <2>1. Writer \/ Beam => pc' = pc
    BY DEF Writer, Beam
  <2> QED BY <2>1 DEF Next
<1>2. ReadG
  BY <1>1 DEF Reader, HintCall, ReadCall, Search, Locked, ReadE, RegionG, LateE, LateG, TChanged, Rearm,
              CopyCell, ReadGuard, Consume, ArmE, ArmG, Check, Again, At, Answer, Done
<1>3. call.sawE /\ ~G
  BY <1>2 DEF ReadG, NoWindow, At, Answer, Done
<1>4. beam = 7 \/ beam = 8
  BY <1>3 DEF TripInv, Tripwires
<1> QED BY <1>4, LapIs DEF WindowOpen

(* Every index, cell and stamp of both ends and of the wire stays in its   *)
(* range, whatever the beam does to the reader and the peer to the wire.   *)
THEOREM LinkTypesAlways == Spec => []TypeOK
<1>1. Init => LinkTypes
  BY InitTypes
<1>2. LinkTypes /\ [Next]_vars => LinkTypes'
  BY StepTypes
<1> QED BY <1>1, <1>2, TypesMeanTypeOK, PTL DEF Spec

(* A tripwire step that ends in a window ends while the beam is between E  *)
(* and the guard (i2slink.c:166-173), for any number of writes, restarts   *)
(* and errors and with nothing else timed: not the copy, not the checks.   *)
THEOREM NoFalseWindowAlways ==
    ASSUME StepsTimed
    PROVE  Spec => NoFalseWindow
<1>1. Init => TripInv
  BY InitTrip
<1>2. TripInv /\ [Next]_vars => TripInv'
  BY StepTrip
<1>3. TripInv /\ [Next]_vars => [pc = "g" /\ pc' \in {"copy", "tWindow"} => WindowOpen]_vars
  BY WindowIsOpen
<1> QED BY <1>1, <1>2, <1>3, PTL DEF Spec, NoFalseWindow

-----------------------------------------------------------------------------
(* Versions. *)

LinkInv == TripInv /\ Cycle /\ Ring /\ Copy /\ Order /\ Result

IsStamp(s) == Value(s) => \E n \in 1 .. id : stamps[n] = s

LEMMA StampTypes ==
    ASSUME LinkTypes
    PROVE  /\ id \in Nat
           /\ \A n \in 1 .. id : stamps[n] \in 1 .. SeqMod - 1 /\ Value(stamps[n])
           /\ \A c \in Cells : cycle[c] \in Int /\ ring[c] \in Int
           /\ SeqMod \in Nat
<1>1. /\ id \in Nat /\ stamps \in Seq(1 .. SeqMod - 1) /\ Len(stamps) = id
      /\ cycle \in [Cells -> Int] /\ ring \in [Cells -> Int] /\ SeqMod \in Nat
  BY LinkAssumption DEF LinkTypes, WireTypes
<1>2. \A n \in 1 .. id : stamps[n] \in 1 .. SeqMod - 1
  BY <1>1
<1>3. \A n \in 1 .. id : Value(stamps[n])
  BY <1>1, <1>2 DEF Value, Bad
<1> QED BY <1>1, <1>2, <1>3

(* Nothing has a number before it has a stamp. *)
LEMMA NoStamp ==
    ASSUME LinkTypes, NEW a, ~Value(a)
    PROVE  \A b : Before(a, b) /\ Before(b, a)
BY StampTypes DEF Before

(* A step of the writer adds stamps and takes none away. *)
LEMMA WriterGrows ==
    ASSUME LinkTypes, Writer
    PROVE  /\ UNCHANGED <<ring, beam, E, G, lastRead, pc, call, got>>
           /\ id' \in Nat /\ id <= id' /\ id \in Nat
           /\ \A n \in 1 .. id : stamps'[n] = stamps[n]
           /\ (id' = id /\ stamps' = stamps) \/ WriteT
<1>1. UNCHANGED <<ring, beam, E, G, lastRead, pc, call, got>>
  BY DEF Writer, wireVars, lockVars, resultVars
<1>2. id \in Nat /\ Len(stamps) = id /\ stamps \in Seq(1 .. SeqMod - 1)
  BY DEF LinkTypes, WireTypes
<1>3. CASE WriteT
  <2>1. NextSeq \in 1 .. SeqMod - 1
    BY StampRange DEF LinkTypes, WireTypes
  <2>2. \A n \in 1 .. id : stamps'[n] = stamps[n]
    BY <1>2, <1>3, <2>1 DEF WriteT
  <2> QED BY <1>1, <1>2, <1>3, <2>2 DEF WriteT
<1>4. CASE WriteRest \/ PeerRestart
  BY <1>1, <1>2, <1>4 DEF WriteRest, PeerRestart
<1> QED BY <1>3, <1>4 DEF Writer

LEMMA WriterKeeps ==
    ASSUME LinkTypes, StampsApart', Writer
    PROVE  /\ \A s : Finished(s) => Finished(s)'
           /\ \A s : IsStamp(s) => IsStamp(s)'
           /\ \A s, p : Named(s, p) => Named(s, p)'
           /\ \A h, t, p : OneVersion(h, t, p) => OneVersion(h, t, p)'
           /\ \A h, p, c, t : Fills(h, p, c, t) => Fills(h, p, c, t)'
           /\ \A a, b : IsStamp(a) /\ IsStamp(b) /\ Before(a, b) => Before(a, b)'
           /\ \A a, b : ~Value(b) => Before(a, b)'
<1>1. /\ id' \in Nat /\ id <= id' /\ id \in Nat
      /\ \A n \in 1 .. id : stamps'[n] = stamps[n] /\ n \in 1 .. id'
  BY WriterGrows
<1>2. \A n \in 1 .. id' : Value(stamps'[n])
  <2>1. stamps' \in Seq(1 .. SeqMod - 1) /\ Len(stamps') = id'
    BY WriterTypes DEF LinkTypes, WireTypes
  <2>2. \A n \in 1 .. Len(stamps') : stamps'[n] \in 1 .. SeqMod - 1
    <3> DEFINE S == 1 .. SeqMod - 1
    <3>1. stamps' \in Seq(S)
      BY <2>1
    <3> HIDE DEF S
    <3>2. \A n \in 1 .. Len(stamps') : stamps'[n] \in S
      BY <3>1
    <3> QED BY <3>2 DEF S
  <2> QED BY <2>1, <2>2, LinkAssumption DEF Value, Bad
<1>3. \A s : Finished(s) => Finished(s)'
  <2> SUFFICES ASSUME NEW s, Value(s), NEW n \in 1 .. id, stamps[n] = s, n = id => wpc = "idle"
               PROVE  n = id' => wpc' = "idle"
    BY <1>1 DEF Finished
  <2>1. CASE WriteT
    BY <1>1, <2>1 DEF WriteT
  <2>2. CASE WriteRest
    BY <2>2 DEF WriteRest
  <2>3. CASE PeerRestart
    BY <2>3 DEF PeerRestart
  <2> QED BY <2>1, <2>2, <2>3 DEF Writer
<1>4. \A s : IsStamp(s) => IsStamp(s)'
  BY <1>1 DEF IsStamp
<1>5. \A s, p : Named(s, p) => Named(s, p)'
  BY <1>1 DEF Named
<1>6. \A a, b : IsStamp(a) /\ IsStamp(b) /\ Before(a, b) => Before(a, b)'
  <2> SUFFICES ASSUME NEW a, NEW b, IsStamp(a), IsStamp(b), Before(a, b),
                      NEW m \in 1 .. id', NEW n \in 1 .. id', stamps'[m] = a, stamps'[n] = b
               PROVE  m <= n
    BY DEF Before
  <2>1. Value(a) /\ Value(b)
    BY <1>2
  <2>2. PICK k \in 1 .. id, l \in 1 .. id : stamps[k] = a /\ stamps[l] = b
    BY <2>1 DEF IsStamp
  <2>3. k = m /\ l = n
    BY <1>1, <2>2 DEF StampsApart
  <2> QED BY <2>2, <2>3 DEF Before
<1>7. \A h, t, p : OneVersion(h, t, p) => OneVersion(h, t, p)'
  BY <1>5 DEF OneVersion
<1>8. \A a, b : ~Value(b) => Before(a, b)'
  BY <1>2 DEF Before
<1>9. \A h, p, c, t : Fills(h, p, c, t) => Fills(h, p, c, t)'
  BY <1>1 DEF Fills, Stamp
<1> QED BY <1>3, <1>4, <1>5, <1>6, <1>7, <1>8, <1>9

(* The writer fills its cycle with what it gives out. *)
LEMMA WriterFills ==
    ASSUME LinkTypes, Cycle, Writer
    PROVE  Fills(cycle["H"], cycle["P"], cycle["C"], cycle["T"])'
<1>1. /\ cycle'["H"] \in 0 .. SeqMod - 1 /\ cycle'["T"] \in 0 .. SeqMod - 1
      /\ SeqMod \in Nat
  BY WriterTypes, LinkAssumption DEF LinkTypes, WireTypes
<1>2. /\ id' \in Nat /\ id <= id' /\ id \in Nat /\ cycle \in [Cells -> Int]
      /\ wpc \in {"P", "C", "H", "idle"}
  BY WriterGrows DEF LinkTypes, WireTypes
<1>3. cycle["P"] \in -1 .. id /\ (cycle["C"] \in {NoCrc, Bad} \/ cycle["C"] \in 1 .. id)
  BY DEF Cycle, Fills
<1>4. cycle'["P"] \in -1 .. id' /\ (cycle'["C"] \in {NoCrc, Bad} \/ cycle'["C"] \in 1 .. id')
  <2>1. CASE WriteT
    <3>1. cycle'["P"] = cycle["P"] /\ cycle'["C"] = cycle["C"]
      BY <1>2, <2>1, RegionIs DEF WriteT
    <3> QED BY <1>2, <1>3, <3>1
  <2>2. CASE WriteRest
    <3>1. wpc # "idle" /\ id' = id /\ id > 0
      BY <2>2 DEF WriteRest, Cycle
    <3>2. /\ cycle'["P"] = IF wpc = "P" THEN id ELSE cycle["P"]
          /\ cycle'["C"] = IF wpc = "C" THEN id ELSE cycle["C"]
      BY <1>2, <2>2, RegionIs DEF WriteRest
    <3> QED BY <1>2, <1>3, <3>1, <3>2
  <2>3. CASE PeerRestart
    <3>1. cycle'["P"] = 0 /\ cycle'["C"] = NoCrc
      BY <2>3, RegionIs DEF PeerRestart, Template
    <3> QED BY <1>2, <3>1
  <2> QED BY <2>1, <2>2, <2>3 DEF Writer
<1> QED BY <1>1, <1>4 DEF Fills, Stamp

LEMMA FinishedIsStamp == \A s : Finished(s) => IsStamp(s)
BY DEF Finished, IsStamp

LEMMA WriterData ==
    ASSUME LinkInv, StampsApart', Writer
    PROVE  Cycle' /\ Ring' /\ Copy' /\ Order' /\ Result'
<1>0. LinkTypes /\ LinkTypes'
  BY WriterTypes DEF LinkInv, TripInv
<1>1. /\ UNCHANGED <<ring, beam, E, G, lastRead, pc, call, got>>
      /\ id' \in Nat /\ id <= id' /\ id \in Nat
      /\ \A n \in 1 .. id : stamps'[n] = stamps[n]
  BY <1>0, WriterGrows
<1>2. /\ \A s : Finished(s) => Finished(s)'
      /\ \A s, p : Named(s, p) => Named(s, p)'
      /\ \A h, t, p : OneVersion(h, t, p) => OneVersion(h, t, p)'
      /\ \A h, p, c, t : Fills(h, p, c, t) => Fills(h, p, c, t)'
      /\ Fills(cycle["H"], cycle["P"], cycle["C"], cycle["T"])'
  BY <1>0, WriterKeeps, WriterFills DEF LinkInv
<1>3. /\ \A a, b : IsStamp(a) /\ IsStamp(b) /\ Before(a, b) => Before(a, b)'
      /\ \A a, b : ~Value(b) => Before(a, b)'
  BY <1>0, WriterKeeps
<1>4. Finished(ring["H"]) /\ Finished(cycle["H"]) /\ IsStamp(Best) /\ Best' = Best
      /\ IsStamp(ring["H"]) /\ IsStamp(cycle["H"])
      /\ (HasH => IsStamp(call.copy[1]))
  <2>1. IsStamp(Best) /\ Best' = Best
    BY <1>1 DEF LinkInv, Result, Best, IsStamp, Value
  <2> QED BY <2>1, FinishedIsStamp DEF LinkInv, Ring, Cycle, Order
<1>5. Result'
  BY <1>1 DEF LinkInv, Result, NewIsOneVersion, NoneYet
<1>6. Copy'
  BY <1>1, <1>2 DEF LinkInv, Copy
<1>7. Cycle' /\ (beam \in {4, 5} => OneVersion(ring["H"], cycle["T"], ring["P"])')
      /\ (cycle'["H"] = cycle["H"] \/ ~Value(cycle'["H"]) \/ (id > 0 /\ id' = id /\ cycle'["H"] = stamps'[id]))
  <2>1. CASE WriteT
    <3>1. /\ id' = id + 1 /\ seq' = NextSeq /\ wpc' = "P"
          /\ cycle' = [cycle EXCEPT !["T"] = NextSeq] /\ stamps' = Append(stamps, NextSeq)
      BY <2>1 DEF WriteT
    <3>2. cycle'["T"] = NextSeq /\ cycle'["H"] = cycle["H"]
      BY <1>0, <3>1, RegionIs DEF LinkTypes, WireTypes
    <3>3. stamps'[id'] = NextSeq
      <4>1. stamps \in Seq(1 .. SeqMod - 1) /\ Len(stamps) = id
        BY <1>0 DEF LinkTypes, WireTypes
      <4> QED BY <1>1, <3>1, <4>1
    <3>4. Cycle'
      <4>1. Finished(cycle["H"])'
        BY <1>2, <1>4, <3>2 DEF Finished
      <4>2. id' > 0 /\ wpc' = "P"
        BY <1>1, <3>1
      <4> QED BY <1>2, <3>1, <3>2, <3>3, <4>1, <4>2 DEF Cycle
    <3>5. ASSUME ring["H"] = NextSeq PROVE ~Value(ring["H"])
      <4> SUFFICES ASSUME NEW n \in 1 .. id, stamps[n] = ring["H"] PROVE FALSE
        BY <1>4 DEF IsStamp
      <4>1. n \in 1 .. id' /\ id' \in 1 .. id' /\ n # id'
        BY <1>1, <3>1
      <4>2. stamps'[n] = stamps'[id']
        BY <1>1, <3>3, <3>5
      <4> QED BY <4>1, <4>2 DEF StampsApart
    <3> QED BY <1>1, <3>2, <3>4, <3>5 DEF OneVersion
  <2>2. CASE WriteRest
    <3>1. /\ wpc # "idle" /\ UNCHANGED <<seq, id, stamps>> /\ wpc' = After[wpc]
          /\ cycle' = [cycle EXCEPT ![wpc] = IF wpc = "H" THEN seq ELSE id]
          /\ wpc \in {"P", "C", "H"} /\ cycle \in [Cells -> Int]
      BY <1>0, <2>2 DEF WriteRest, LinkTypes, WireTypes
    <3>2. cycle'["T"] = cycle["T"] /\ id > 0 /\ seq = stamps[id] /\ cycle["T"] = seq
      BY <3>1, RegionIs DEF LinkInv, Cycle
    <3>3. CASE wpc = "P"
      <4>1. cycle'["P"] = id /\ cycle'["H"] = cycle["H"] /\ wpc' = "C"
        BY <3>1, <3>3, RegionIs DEF After
      <4> QED BY <1>1, <1>2, <1>4, <3>1, <3>2, <4>1 DEF LinkInv, Cycle, Ring, Finished, OneVersion, Named
    <3>4. CASE wpc = "C"
      <4>1. cycle'["P"] = cycle["P"] /\ cycle'["H"] = cycle["H"] /\ wpc' = "H"
        BY <3>1, <3>4, RegionIs DEF After
      <4> QED BY <1>1, <1>2, <1>4, <3>1, <3>2, <3>4, <4>1
              DEF LinkInv, Cycle, Ring, Finished, OneVersion, Named
    <3>5. CASE wpc = "H"
      <4>1. cycle'["P"] = cycle["P"] /\ cycle'["H"] = seq /\ wpc' = "idle"
        BY <3>1, <3>5, RegionIs DEF After
      <4>2. Finished(cycle["H"])'
        BY <1>1, <3>1, <3>2, <4>1 DEF Finished
      <4> QED BY <1>1, <1>2, <1>4, <3>1, <3>2, <3>5, <4>1, <4>2
              DEF LinkInv, Cycle, Ring, OneVersion, Named
    <3> QED BY <3>1, <3>3, <3>4, <3>5
  <2>3. CASE PeerRestart
    <3>1. cycle'["H"] = 0 /\ cycle'["T"] = 0 /\ wpc' = "idle"
      BY <2>3, RegionIs DEF PeerRestart, Template
    <3> QED BY <1>1, <1>2, <3>1 DEF Cycle, Finished, OneVersion, Value
  <2> QED BY <2>1, <2>2, <2>3 DEF Writer
<1>8. Ring'
  BY <1>1, <1>2, <1>4, <1>7 DEF LinkInv, Ring, Finished, OneVersion, Named
<1>9. \A a, b : IsStamp(a) /\ Before(a, cycle["H"]) /\ b = cycle'["H"] => Before(a, b)'
  <2> SUFFICES ASSUME NEW a, NEW b, IsStamp(a), Before(a, cycle["H"]), b = cycle'["H"]
               PROVE  Before(a, b)'
    OBVIOUS
  <2>1. CASE b = cycle["H"]
    BY <1>3, <1>4, <2>1
  <2>2. CASE ~Value(b)
    BY <1>3, <2>2
  <2>3. CASE id > 0 /\ id' = id /\ b = stamps'[id]
    BY <1>1, <2>3 DEF Before, StampsApart
  <2> QED BY <1>7, <2>1, <2>2, <2>3
<1>10. Order'
  <2>1. Before(Best, ring["H"])' /\ Before(Best, cycle["H"])' /\ Before(ring["H"], cycle["H"])'
    BY <1>1, <1>3, <1>4, <1>9 DEF LinkInv, Order, Before
  <2>2. HasH' = HasH
    BY <1>1 DEF HasH
  <2>3. HasH => /\ Finished(call.copy[1])'
                /\ Before(Best, call.copy[1])'
                /\ Before(call.copy[1], ring["H"])' /\ Before(call.copy[1], cycle["H"])'
    BY <1>1, <1>2, <1>3, <1>4, <1>9 DEF LinkInv, Order, Before, Finished
  <2> QED BY <2>1, <2>2, <2>3 DEF Order
<1> QED BY <1>5, <1>6, <1>7, <1>8, <1>10

LEMMA BeamData ==
    ASSUME StepsTimed, StampsApart, LinkInv, Beam
    PROVE  Cycle' /\ Ring' /\ Copy' /\ Order' /\ Result'
<1>0. LinkTypes /\ Tripwires
  BY DEF LinkInv, TripInv
<1>1. /\ UNCHANGED <<cycle, seq, id, stamps, wpc, pc, call, got, lastRead>>
      /\ beam' = IF beam = 9 THEN 1 ELSE beam + 1
      /\ beam \in 1 .. 9 /\ G \in BOOLEAN /\ E \in BOOLEAN
      /\ G' = (G \/ beam = 8)
      /\ beam \notin 1 .. 5 => ring' = ring
      /\ \A c \in Cells : ring'[c] = ring[c] \/ (Lap[beam] = c /\ (ring'[c] = cycle[c] \/ Lost(c, ring'[c])))
  BY <1>0, BeamStep DEF LinkTypes, WireTypes, ReaderTypes
<1>2. /\ beam # 1 => ring'["H"] = ring["H"]
      /\ beam # 3 => ring'["P"] = ring["P"]
      /\ ring'["H"] \in {ring["H"], cycle["H"]} \/ ~Value(ring'["H"])
      /\ beam = 3 => ring'["P"] \in {cycle["P"], Bad}
      /\ beam = 5 => ring'["T"] = cycle["T"] \/ ~Value(ring'["T"])
      /\ beam # 5 => ring'["T"] = ring["T"]
  <2>1. beam \in {1, 2, 3, 4, 5, 6, 7, 8, 9}
    BY <1>1
  <2>2. /\ Lap[beam] = "H" <=> beam = 1
        /\ Lap[beam] = "P" <=> beam = 3
        /\ Lap[beam] = "T" <=> beam = 5
    BY <2>1, LapIs
  <2> QED BY <1>0, <1>1, <2>2, BeamStep, LostIs, RegionIs
<1>3. Cycle' /\ Result'
  BY <1>1 DEF LinkInv, Cycle, Finished, Fills, Result, NewIsOneVersion, NoneYet
<1>4. Ring'
  <2>0. Fills(ring["H"], ring["P"], ring["C"], ring["T"])'
    <3>1. /\ Fills(ring["H"], ring["P"], ring["C"], ring["T"])
          /\ Fills(cycle["H"], cycle["P"], cycle["C"], cycle["T"])
      BY DEF LinkInv, Ring, Cycle
    <3>2. /\ ring'["H"] \in {ring["H"], cycle["H"]} \/ Lost("H", ring'["H"])
          /\ ring'["P"] \in {ring["P"], cycle["P"]} \/ Lost("P", ring'["P"])
          /\ ring'["C"] \in {ring["C"], cycle["C"]} \/ Lost("C", ring'["C"])
          /\ ring'["T"] \in {ring["T"], cycle["T"]} \/ Lost("T", ring'["T"])
      BY <1>1, RegionIs
    <3>3. Stamp(ring'["H"]) /\ Stamp(ring'["T"])
      BY <3>1, <3>2 DEF Fills, Stamp, Lost
    <3>4. ring'["P"] \in -1 .. id
      <4>1. id \in Nat /\ Bad \in -1 .. id
        BY <1>0, StampTypes DEF Bad
      <4> QED BY <3>1, <3>2, <4>1 DEF Fills, Lost
    <3>5. ring'["C"] \in {NoCrc, Bad} \/ ring'["C"] \in 1 .. id
      BY <3>1, <3>2 DEF Fills, Lost
    <3> QED BY <1>1, <3>3, <3>4, <3>5 DEF Fills, Stamp
  <2>1. Fills(ring["H"], ring["P"], ring["C"], ring["T"])' /\ Finished(ring["H"])'
    <3>1. Finished(ring["H"]) /\ Finished(cycle["H"])
      BY DEF LinkInv, Ring, Cycle
    <3> QED BY <1>1, <1>2, <2>0, <3>1 DEF Finished
  <2>2. CASE beam \in 1 .. 2
    <3>1. beam' \in 2 .. 3
      BY <1>1, <2>2
    <3> QED BY <2>1, <3>1 DEF Ring
  <2>3. CASE beam = 3
    <3>1. beam' = 4 /\ ring'["H"] = ring["H"] /\ ring'["P"] \in {cycle["P"], Bad}
      BY <1>1, <1>2, <2>3
    <3>2. ASSUME ring["H"] = cycle["T"], Value(ring["H"]) PROVE Named(ring["H"], cycle["P"])
      <4>1. PICK n \in 1 .. id : stamps[n] = ring["H"] /\ (n = id => wpc = "idle")
        BY <3>2 DEF LinkInv, Ring, Finished
      <4>2. id > 0 /\ id \in Nat /\ cycle["T"] = stamps[id] /\ cycle["T"] # 0
        BY <1>0, <3>2, StampTypes DEF LinkInv, Cycle, Value
      <4>3. n = id
        BY <3>2, <4>1, <4>2 DEF StampsApart
      <4> QED BY <3>2, <4>1, <4>2, <4>3 DEF LinkInv, Cycle, Named
    <3>3. OneVersion(ring["H"], cycle["T"], ring["P"])'
      BY <1>1, <3>1, <3>2 DEF OneVersion, Named
    <3> QED BY <2>1, <3>1, <3>3 DEF Ring
  <2>4. CASE beam = 4
    <3>1. beam' = 5 /\ ring'["H"] = ring["H"] /\ ring'["P"] = ring["P"]
      BY <1>1, <1>2, <2>4
    <3>2. OneVersion(ring["H"], cycle["T"], ring["P"])
      BY <2>4 DEF LinkInv, Ring
    <3> QED BY <1>1, <2>1, <3>1, <3>2 DEF Ring, OneVersion, Named
  <2>5. CASE beam = 5
    <3>1. /\ beam' = 6 /\ ring'["H"] = ring["H"] /\ ring'["P"] = ring["P"]
          /\ ring'["T"] = cycle["T"] \/ ~Value(ring'["T"])
      BY <1>1, <1>2, <2>5
    <3>2. OneVersion(ring["H"], cycle["T"], ring["P"])
      BY <2>5 DEF LinkInv, Ring
    <3> QED BY <1>1, <2>1, <3>1, <3>2 DEF Ring, OneVersion, Named, Value
  <2>6. CASE beam \in 6 .. 9
    <3>1. beam' \notin 2 .. 5 /\ ring' = ring /\ beam \notin 2 .. 5
      BY <1>1, <2>6
    <3> QED BY <1>1, <2>1, <3>1 DEF LinkInv, Ring, OneVersion, Named
  <2> QED BY <1>1, <2>2, <2>3, <2>4, <2>5, <2>6
<1>5. Copy'
  <2>1. ASSUME pc \in {"copy", "guard"}, ~G' PROVE ring' = ring /\ ~G
    BY <1>0, <1>1, <2>1 DEF Tripwires
  <2> QED BY <1>1, <2>1 DEF LinkInv, Copy, OneVersion, Named, Fills
<1>6. Order'
  <2>1. \A a : Before(a, ring["H"]) /\ Before(a, cycle["H"]) => Before(a, ring'["H"])
    <3>1. \A a, b : ~Value(b) => Before(a, b)
      BY <1>0, NoStamp
    <3> QED BY <1>2, <3>1
  <2>2. Before(ring'["H"], cycle["H"])
    <3>1. /\ ~Value(ring'["H"]) => Before(ring'["H"], cycle["H"])
          /\ Before(ring["H"], cycle["H"])
      BY <1>0, NoStamp DEF LinkInv, Order
    <3>2. Before(cycle["H"], cycle["H"])
      BY <1>0, StampTypes DEF Before, StampsApart
    <3> QED BY <1>2, <3>1, <3>2
  <2>3. /\ Before(Best, ring'["H"]) /\ Before(Best, cycle["H"])
        /\ HasH => /\ Finished(call.copy[1])
                   /\ Before(Best, call.copy[1])
                   /\ Before(call.copy[1], ring'["H"]) /\ Before(call.copy[1], cycle["H"])
    BY <2>1 DEF LinkInv, Order
  <2> QED BY <1>1, <2>2, <2>3 DEF Order, HasH, Finished, Before, Best
<1> QED BY <1>3, <1>4, <1>5, <1>6

(* A step of the reader that copies nothing, or starts a copy. *)
Elsewhere ==
    /\ UNCHANGED <<got, lastRead>>
    /\ pc' \notin {"copy", "guard", "consume", "check"} \/ (pc' = "copy" /\ call'.copy = <<>>)

LEMMA ReaderElsewhere ==
    ASSUME LinkTypes, Reader, ~CopyCell, ~ReadGuard, ~Consume, ~Check
    PROVE  Elsewhere
<1> USE DEF Elsewhere, At, Answer, Done, lockVars, resultVars
<1>1. CASE HintCall
  BY <1>1 DEF HintCall
<1>2. CASE ReadCall \/ Locked \/ Search
  BY <1>2 DEF ReadCall, Locked, Search
<1>3. CASE ReadE \/ RegionG \/ LateE \/ LateG
  BY <1>3 DEF ReadE, RegionG, LateE, LateG, NoWindow
<1>4. CASE ReadG
  <2>1. call.copy = <<>>
    BY <1>4 DEF ReadG, LinkTypes, ReaderTypes, CallTypes
  <2> QED BY <1>4, <2>1 DEF ReadG, NoWindow
<1>5. CASE TChanged \/ Rearm
  BY <1>5 DEF TChanged, Rearm
<1>6. CASE ArmE \/ ArmG \/ Again
  BY <1>6 DEF ArmE, ArmG, Again
<1> QED BY <1>1, <1>2, <1>3, <1>4, <1>5, <1>6 DEF Reader

(* What a read that ends with NEW returns: the payload of one write, and   *)
(* if both its stamps are true, under that write's and later than the last.*)
LEMMA NewRead ==
    ASSUME LinkInv, StampsApart, Check, pc' = "idle"
    PROVE  LET h == call.copy[1]  p == call.copy[3]  hit == Hit(call.copy[1]) \/ Hit(call.copy[5])
           IN  /\ pc = "check" /\ got' = New(hit) /\ New(hit).write = p /\ New(hit).hit = hit
               /\ New(hit).best = IF hit THEN got.best ELSE p
               /\ p \in 1 .. id
               /\ hit => MaxErrors > 0
               /\ ~hit => /\ New(hit).stamp = h /\ Value(h) /\ stamps[p] = h
                          /\ p >= got.best
                          /\ ~got.hit => p > got.write
<1> DEFINE h == call.copy[1]  p == call.copy[3]  t == call.copy[5]
           hit == Hit(call.copy[1]) \/ Hit(call.copy[5])
<1>1. /\ ~Torn /\ ~Stale /\ CrcOk /\ pc = "check"
      /\ got' = New(Hit(Copied("H")) \/ Hit(Copied("T")))
  BY DEF Check, At, Done
<1>2. /\ got' = New(hit) /\ Seen(h) = Seen(t) /\ Seen(h) # 0 /\ Seen(h) # lastRead
      /\ p = call.copy[4] /\ p # Bad
  BY <1>1, CopiedIs DEF Torn, Stale, CrcOk
<1>3. /\ New(hit).stamp = Seen(h) /\ New(hit).write = p /\ New(hit).hit = hit
      /\ New(hit).best = IF hit THEN got.best ELSE p
  BY CopiedIs DEF New
<1>4. OneVersion(h, t, p) /\ Fills(h, p, call.copy[4], t)
  BY <1>1 DEF LinkInv, Copy
<1>5. p \in 1 .. id
  <2>1. id \in Nat
    BY StampTypes DEF LinkInv, TripInv
  <2> QED BY <1>2, <1>4, <2>1 DEF Fills, NoCrc, Bad
<1>6. hit => MaxErrors > 0
  BY <1>4, LinkAssumption DEF Fills, Stamp, Hit
<1>7. ASSUME ~hit PROVE /\ Seen(h) = h /\ Value(h) /\ stamps[p] = h
                        /\ p >= got.best
                        /\ ~got.hit => p > got.write
  <2>1. Seen(h) = h /\ Seen(t) = t /\ h \in 0 .. SeqMod - 1
    BY <1>4, <1>7, TrueStamp DEF Fills, Stamp
  <2>2. Value(h) /\ h = t
    <3>1. h # 0 /\ h = t
      BY <1>2, <2>1
    <3>2. h \in 1 .. SeqMod - 1
      BY <2>1, <3>1, LinkAssumption
    <3> QED BY <3>1, <3>2 DEF Value
  <2>3. stamps[p] = h
    BY <1>2, <1>4, <2>2 DEF OneVersion, Named
  <2>4. HasH
    <3>1. Len(call.copy) = 5
      BY <1>1 DEF LinkInv, TripInv, LinkTypes, ReaderTypes, CallTypes
    <3> QED BY <1>1, <3>1 DEF HasH
  <2>5. Before(Best, h) /\ got.best \in 0 .. id /\ id \in Nat
    BY <2>4, StampTypes DEF LinkInv, Order, Result, TripInv
  <2>6. p >= got.best
    <3>1. CASE got.best = 0
      BY <1>5, <3>1
    <3>2. CASE got.best # 0
      <4>1. got.best \in 1 .. id /\ Best = stamps[got.best]
        BY <2>5, <3>2 DEF Best
      <4>2. got.best <= p
        BY <1>5, <2>3, <2>5, <4>1 DEF Before
      <4> QED BY <1>5, <2>5, <4>2
    <3> QED BY <3>1, <3>2
  <2>7. ASSUME ~got.hit PROVE p > got.write
    <3>1. got.best = got.write /\ got.stamp = lastRead
      BY <2>7 DEF LinkInv, Result, TripInv, LinkTypes, ReaderTypes
    <3>2. CASE got = NoneYet
      BY <1>5, <3>2 DEF NoneYet
    <3>3. CASE got # NoneYet
      <4>1. stamps[got.write] = got.stamp
        BY <2>7, <3>3 DEF LinkInv, Result, NewIsOneVersion
      <4>2. p # got.write
        BY <1>2, <2>1, <2>3, <3>1, <4>1
      <4> QED BY <1>5, <2>5, <2>6, <3>1, <4>2
    <3> QED BY <3>2, <3>3
  <2> QED BY <2>1, <2>2, <2>3, <2>6, <2>7
<1> HIDE DEF hit
<1>8. /\ pc = "check" /\ got' = New(hit) /\ New(hit).write = p /\ New(hit).hit = hit
      /\ New(hit).best = IF hit THEN got.best ELSE p
      /\ p \in 1 .. id
      /\ hit => MaxErrors > 0
      /\ ~hit => /\ New(hit).stamp = h /\ Value(h) /\ stamps[p] = h
                 /\ p >= got.best
                 /\ ~got.hit => p > got.write
  BY <1>1, <1>2, <1>3, <1>5, <1>6, <1>7
<1> QED BY <1>8 DEF hit

LEMMA ReaderData ==
    ASSUME StampsApart, LinkInv, Reader
    PROVE  Cycle' /\ Ring' /\ Copy' /\ Order' /\ Result'
<1>0. /\ LinkTypes /\ Tripwires /\ LinkTypes'
      /\ call \in Calls /\ E \in BOOLEAN /\ G \in BOOLEAN /\ call' \in Calls
  BY ReaderTypesStep DEF LinkInv, TripInv, LinkTypes, ReaderTypes, CallTypes
<1>1. UNCHANGED <<cycle, seq, id, stamps, wpc, ring, beam>>
  BY DEF Reader, writerVars, wireVars
<1>2. Cycle' /\ Ring'
  BY <1>1 DEF LinkInv, Cycle, Ring, Finished, OneVersion, Named, Fills
<1>3. /\ Before(Best, ring["H"]) /\ Before(Best, cycle["H"]) /\ Before(ring["H"], cycle["H"])
      /\ HasH => /\ Finished(call.copy[1])
                 /\ Before(Best, call.copy[1])
                 /\ Before(call.copy[1], ring["H"]) /\ Before(call.copy[1], cycle["H"])
      /\ Finished(ring["H"])
  BY DEF LinkInv, Order, Ring
<1>4. UNCHANGED <<got, lastRead>> => Result' /\ Best' = Best
  BY <1>1 DEF LinkInv, Result, NewIsOneVersion, NoneYet, Best
<1>5. CASE Elsewhere
  <2>1. ~HasH'
    BY <1>5, NoCallIs DEF Elsewhere, HasH
  <2>2. Order'
    BY <1>1, <1>3, <1>4, <1>5, <2>1 DEF Elsewhere, Order, Before
  <2>3. Copy'
    BY <1>5, NoCallIs DEF Elsewhere, Copy
  <2> QED BY <1>2, <1>4, <1>5, <2>2, <2>3 DEF Elsewhere
<1>6. CASE CopyCell
  <2> DEFINE k == Len(call.copy) + 1
  <2>1. /\ call' = [call EXCEPT !.copy = Append(call.copy, ring[Region[k]])]
        /\ pc = "copy" /\ pc' \in {"copy", "guard"}
        /\ UNCHANGED <<got, lastRead, G>>
    BY <1>6 DEF CopyCell, At, lockVars, resultVars
  <2>2. call.copy \in Seq(Int) /\ Len(call.copy) < 5
    BY <1>0, <2>1 DEF LinkTypes, ReaderTypes, CallTypes, Calls
  <2>3. call'.copy = Append(call.copy, ring[Region[k]])
    BY <1>0, <2>1 DEF Calls
  <2>4. ring[Region[k]] \in Int
    <3>1. k \in 1 .. 5
      BY <2>2
    <3> QED BY <1>0, <3>1, RegionIs DEF LinkTypes, WireTypes, Cells
  <2>5. /\ Len(call'.copy) = k /\ call'.copy[k] = ring[Region[k]]
        /\ \A i \in 1 .. Len(call.copy) : call'.copy[i] = call.copy[i]
    BY <2>2, <2>3, <2>4
  <2>6. Copy'
    <3>1. ASSUME ~G PROVE \A i \in 1 .. k : call'.copy[i] = ring[Region[i]]
      <4>1. \A i \in 1 .. Len(call.copy) : call.copy[i] = ring[Region[i]]
        BY <2>1, <3>1 DEF LinkInv, Copy
      <4> QED BY ONLY <2>2, <2>5, <4>1
    <3> QED BY <1>1, <2>1, <2>5, <3>1 DEF Copy
  <2>7. call'.copy[1] = IF Len(call.copy) = 0 THEN ring["H"] ELSE call.copy[1]
    BY <2>2, <2>5, RegionIs
  <2>8. Order'
    <3>1. CASE Len(call.copy) = 0
      <4>1. Before(ring["H"], ring["H"])
        BY <1>0, StampTypes DEF Before, StampsApart
      <4> QED BY <1>1, <1>3, <1>4, <2>1, <2>7, <3>1, <4>1 DEF Order, Before, Finished
    <3>2. CASE Len(call.copy) # 0
      <4>1. HasH
        BY <2>1, <2>2, <3>2 DEF HasH
      <4> QED BY <1>1, <1>3, <1>4, <2>1, <2>7, <3>2, <4>1 DEF Order, Before, Finished
    <3> QED BY <3>1, <3>2
  <2> QED BY <1>2, <1>4, <2>1, <2>6, <2>8
<1>7. CASE ReadGuard
  <2>1. /\ pc = "guard" /\ pc' = "consume" /\ UNCHANGED <<got, lastRead, G>>
        /\ call'.crossed = G /\ call'.copy = call.copy
    BY <1>0, <1>7 DEF ReadGuard, At, lockVars, resultVars, Calls
  <2>2. Len(call.copy) = 5
    BY <1>0, <2>1 DEF LinkTypes, ReaderTypes, CallTypes
  <2>3. ASSUME ~G PROVE /\ OneVersion(call.copy[1], call.copy[5], call.copy[3])
                        /\ Fills(call.copy[1], call.copy[3], call.copy[4], call.copy[5])
    <3>1. beam \in {7, 8}
      BY <1>0, <2>1, <2>3 DEF Tripwires
    <3>2. /\ OneVersion(ring["H"], ring["T"], ring["P"])
          /\ Fills(ring["H"], ring["P"], ring["C"], ring["T"])
      BY <3>1 DEF LinkInv, Ring
    <3>3. /\ call.copy[1] = ring["H"] /\ call.copy[5] = ring["T"] /\ call.copy[3] = ring["P"]
          /\ call.copy[4] = ring["C"]
      BY <2>1, <2>2, <2>3, RegionIs DEF LinkInv, Copy
    <3> QED BY <3>2, <3>3
  <2>4. Copy'
    BY <1>1, <2>1, <2>3 DEF Copy, OneVersion, Named, Fills
  <2>5. HasH
    BY <2>1, <2>2 DEF HasH
  <2>6. Order'
    BY <1>1, <1>3, <1>4, <2>1, <2>5 DEF Order, Before, Finished
  <2> QED BY <1>2, <1>4, <2>1, <2>4, <2>6
<1>8. CASE Consume
  <2>1. /\ pc = "consume" /\ pc' = IF call.crossed THEN "armE" ELSE "check"
        /\ UNCHANGED <<got, lastRead, G, call>>
    BY <1>8 DEF Consume, At, lockVars, resultVars
  <2>2. Copy'
    BY <1>1, <2>1 DEF LinkInv, Copy, OneVersion, Named, Fills
  <2>3. Order'
    BY <1>1, <1>3, <1>4, <2>1 DEF Order, Before, Finished, HasH
  <2> QED BY <1>2, <1>4, <2>1, <2>2, <2>3
<1>9. CASE Check
  <2>1. CASE pc' = "idle"
    <3> DEFINE h == call.copy[1]  p == call.copy[3]
               hit == Hit(call.copy[1]) \/ Hit(call.copy[5])
    <3>1. /\ pc = "check" /\ got'.write = p /\ got'.hit = hit
          /\ got'.best = IF hit THEN got.best ELSE p
          /\ p \in 1 .. id /\ (hit => MaxErrors > 0)
          /\ ~hit => got'.stamp = h /\ Value(h) /\ stamps[p] = h
      BY <1>9, <2>1, NewRead
    <3> HIDE DEF hit
    <3>2. Result'
      <4>1. got.best \in 0 .. id /\ id \in Nat
        BY <1>0, StampTypes DEF LinkInv, Result
      <4> QED BY <1>1, <3>1, <4>1 DEF Result, NewIsOneVersion
    <3>3. HasH /\ ~HasH'
      BY <1>0, <2>1, <3>1 DEF HasH, LinkTypes, ReaderTypes, CallTypes
    <3>4. Order'
      <4>1. Best' \in {Best, h}
        BY <1>1, <3>1 DEF Best
      <4> QED BY <1>1, <1>3, <3>3, <4>1 DEF Order, Before
    <3>5. Copy'
      BY <2>1 DEF Copy
    <3> QED BY <1>2, <3>2, <3>4, <3>5
  <2>2. CASE pc' # "idle"
    <3>1. pc' = "again" /\ UNCHANGED <<got, lastRead>>
      BY <1>9, <2>2 DEF Check, At, Done, lockVars, resultVars
    <3> QED BY <1>5, <3>1 DEF Elsewhere
  <2> QED BY <2>1, <2>2
<1> QED BY <1>0, <1>5, <1>6, <1>7, <1>8, <1>9, ReaderElsewhere

LEMMA InitData == Init => LinkInv
<1> SUFFICES ASSUME Init PROVE Cycle /\ Ring /\ Copy /\ Order /\ Result
  BY InitTrip DEF LinkInv
<1>1. cycle["H"] = 0 /\ cycle["T"] = 0 /\ ring["H"] = 0 /\ ring["T"] = 0 /\ id = 0 /\ wpc = "idle"
  BY RegionIs DEF Init, Template
<1>2. cycle["P"] = 0 /\ ring["P"] = 0 /\ cycle["C"] = NoCrc /\ ring["C"] = NoCrc
  BY RegionIs DEF Init, Template
<1>3. Fills(0, 0, NoCrc, 0)
  BY <1>1, LinkAssumption DEF Fills, Stamp
<1> QED BY <1>1, <1>2, <1>3 DEF Init, Cycle, Ring, Copy, Order, Result, Finished, OneVersion, Value, Before,
                                HasH, NewIsOneVersion, NoneYet

LEMMA StepData ==
    ASSUME StepsTimed, LinkInv, StampsApart, StampsApart', [Next]_vars
    PROVE  LinkInv'
<1>1. TripInv'
  BY StepTrip DEF LinkInv
<1>2. CASE UNCHANGED vars
  BY <1>1, <1>2 DEF vars, writerVars, wireVars, lockVars, resultVars, LinkInv, Cycle, Ring, Copy, Order,
                    Result, Finished, OneVersion, Named, Before, HasH, NewIsOneVersion, NoneYet, Fills,
                    Best
<1> QED BY <1>1, <1>2, WriterData, BeamData, ReaderData DEF Next, LinkInv

LEMMA NewIsNewer ==
    ASSUME LinkInv, StampsApart, Next, pc = "check", pc' = "idle"
    PROVE  /\ got'.hit => MaxErrors > 0
           /\ ~got'.hit => got'.write >= got.best /\ (~got.hit => got'.write > got.write)
           /\ got.hit => MaxErrors > 0
<1>1. Check
  BY DEF Next, Writer, Beam, Reader, HintCall, ReadCall, Search, Locked, ReadE, ReadG, RegionG, LateE,
         LateG, TChanged, Rearm, CopyCell, ReadGuard, Consume, ArmE, ArmG, Again, At, Answer, Done
<1> QED BY <1>1, NewRead DEF LinkInv, Result

(* "A NEW payload is one complete version exactly as written, never a torn *)
(* mix" (i2slink.h:17-18): a beam that has T of a write has its payload,   *)
(* unless H of an older one stands before it; a copy is of one pass.  A    *)
(* changed stamp can make an old H agree with a new T: the payload is then *)
(* still one that was written, but not under the stamp it is given.        *)
THEOREM NewIsOneVersionAlways ==
    ASSUME StepsTimed
    PROVE  Spec /\ []StampsApart => []NewIsOneVersion
<1>1. Init => LinkInv
  BY InitData
<1>2. LinkInv /\ StampsApart /\ StampsApart' /\ [Next]_vars => LinkInv'
  BY StepData
<1>3. LinkInv => NewIsOneVersion
  BY DEF LinkInv, Result
<1> QED BY <1>1, <1>2, <1>3, PTL DEF Spec

(* A read whose two stamps no bit error changed does not return what one   *)
(* before it has (i2slink.h:18-19), across relocks and whatever H and T    *)
(* pass the reader between two reads, unless one with a changed stamp came *)
(* between; and never what is older than the last such.                    *)
THEOREM NeverReturnedAlways ==
    ASSUME StepsTimed
    PROVE  Spec /\ []StampsApart => NeverReturnedBefore
<1>1. Init => LinkInv
  BY InitData
<1>2. LinkInv /\ StampsApart /\ StampsApart' /\ [Next]_vars => LinkInv'
  BY StepData
<1>3. LinkInv /\ StampsApart /\ [Next]_vars =>
        [pc = "check" /\ pc' = "idle" /\ ~got'.hit =>
            /\ got'.write >= got.best
            /\ ~got.hit => got'.write > got.write]_vars
  BY NewIsNewer
<1> QED BY <1>1, <1>2, <1>3, PTL DEF Spec, NeverReturnedBefore

(* On a wire without bit errors the promise of i2slink.h:17-19 holds as it *)
(* stands: every NEW is newer than the last.                               *)
THEOREM NoErrorsNewer ==
    ASSUME StepsTimed, MaxErrors = 0
    PROVE  Spec /\ []StampsApart => EveryNewIsNewer
<1>1. Init => LinkInv
  BY InitData
<1>2. LinkInv /\ StampsApart /\ StampsApart' /\ [Next]_vars => LinkInv'
  BY StepData
<1>3. LinkInv /\ StampsApart /\ [Next]_vars => [pc = "check" /\ pc' = "idle" => got'.write > got.write]_vars
  BY NewIsNewer
<1> QED BY <1>1, <1>2, <1>3, PTL DEF Spec, EveryNewIsNewer

-----------------------------------------------------------------------------
(* One session of the peer, of fewer writes than there are stamps: the     *)
(* stamps are then apart, and nothing about them need be assumed.          *)

Numbered(s, n) == IF s + n < SeqMod THEN s + n ELSE s + n - SeqMod + 1

SessionInv == /\ id \in 0 .. MaxWrites /\ restarts = 0
              /\ stamps \in Seq(Int) /\ Len(stamps) = id
              /\ \E s \in 0 .. SeqMod - 1 : /\ seq = Numbered(s, id)
                                            /\ \A n \in 1 .. id : stamps[n] = Numbered(s, n)

LEMMA SessionApart ==
    ASSUME MaxWrites < SeqMod, SessionInv
    PROVE  StampsApart
<1>1. SeqMod \in Nat /\ MaxWrites \in Nat /\ SeqMod >= 2
  BY LinkAssumption
<1>2. PICK s \in 0 .. SeqMod - 1 : \A n \in 1 .. id : stamps[n] = Numbered(s, n)
  BY DEF SessionInv
<1> SUFFICES ASSUME NEW m \in 1 .. id, NEW n \in 1 .. id, stamps[m] = stamps[n] PROVE m = n
  BY DEF StampsApart
<1>3. Numbered(s, m) = Numbered(s, n) /\ id \in 0 .. MaxWrites
  BY <1>2 DEF SessionInv
<1> QED BY <1>1, <1>3 DEF Numbered

LEMMA SessionStep ==
    ASSUME MaxWrites < SeqMod, MaxRestarts = 0, SessionInv, [Next]_vars
    PROVE  SessionInv'
<1>1. SeqMod \in Nat /\ MaxWrites \in Nat /\ SeqMod >= 2
  BY LinkAssumption
<1>2. CASE UNCHANGED <<id, seq, stamps, restarts>>
  BY <1>2 DEF SessionInv, Numbered
<1>3. CASE WriteT
  <2>1. PICK s \in 0 .. SeqMod - 1 : /\ seq = Numbered(s, id)
                                     /\ \A n \in 1 .. id : stamps[n] = Numbered(s, n)
    BY DEF SessionInv
  <2>2. /\ id' = id + 1 /\ id < MaxWrites /\ seq' = NextSeq /\ stamps' = Append(stamps, NextSeq)
        /\ restarts' = restarts /\ id \in Nat /\ stamps \in Seq(Int) /\ Len(stamps) = id
    BY <1>1, <1>3 DEF WriteT, SessionInv
  <2>3. seq \in 0 .. SeqMod - 1
    BY <1>1, <2>1, <2>2 DEF Numbered
  <2>4. NextSeq = IF seq + 1 = SeqMod THEN 1 ELSE seq + 1
    <3>1. seq + 1 < SeqMod => (seq + 1) % SeqMod = seq + 1
      BY <1>1, <2>3
    <3>2. seq + 1 = SeqMod => (seq + 1) % SeqMod = 0
      <4>1. SeqMod % SeqMod = 0
        BY <1>1
      <4> QED BY <4>1
    <3> QED BY <1>1, <2>3, <3>1, <3>2 DEF NextSeq
  <2>5. NextSeq = Numbered(s, id + 1) /\ NextSeq \in Int
    BY <1>1, <2>1, <2>2, <2>3, <2>4 DEF Numbered
  <2>6. /\ stamps' \in Seq(Int) /\ Len(stamps') = id + 1
        /\ \A n \in 1 .. id : stamps'[n] = stamps[n]
        /\ stamps'[id + 1] = NextSeq
    BY <2>2, <2>5
  <2>7. \A n \in 1 .. id + 1 : stamps'[n] = Numbered(s, n)
    BY <2>1, <2>2, <2>5, <2>6
  <2>8. id' \in 0 .. MaxWrites /\ restarts' = 0 /\ seq' = Numbered(s, id')
    BY <1>1, <2>2, <2>5 DEF SessionInv
  <2>9. \A m, n : Numbered(m, n)' = Numbered(m, n)
    BY DEF Numbered
  <2>10. stamps' \in Seq(Int) /\ Len(stamps') = id' /\ \A n \in 1 .. id' : stamps'[n] = Numbered(s, n)
    BY <2>2, <2>6, <2>7
  <2> QED BY <2>8, <2>9, <2>10 DEF SessionInv
<1>4. ~PeerRestart
  BY DEF PeerRestart, SessionInv
<1>5. WriteRest \/ Beam \/ Reader \/ UNCHANGED vars => UNCHANGED <<id, seq, stamps, restarts>>
  BY DEF WriteRest, Beam, Reader, vars, writerVars
<1> QED BY <1>2, <1>3, <1>4, <1>5 DEF Next, Writer

LEMMA SessionStamps ==
    ASSUME MaxRestarts = 0, MaxWrites < SeqMod
    PROVE  Spec => []StampsApart
<1>1. Init => SessionInv
  <2> SUFFICES ASSUME Init PROVE SessionInv
    OBVIOUS
  <2>1. SeqMod \in Nat /\ MaxWrites \in Nat /\ seq \in 0 .. SeqMod - 1
    BY LinkAssumption DEF Init
  <2>2. seq = Numbered(seq, 0)
    BY <2>1 DEF Numbered
  <2> QED BY <2>1, <2>2 DEF Init, SessionInv
<1>2. SessionInv /\ [Next]_vars => SessionInv'
  BY SessionStep
<1>3. SessionInv => StampsApart
  BY SessionApart
<1> QED BY <1>1, <1>2, <1>3, PTL DEF Spec

(* Within one peer session nothing need be assumed of the stamps, through  *)
(* every wrap of the sequence past zero: what is left of i2slink.h:17-19   *)
(* on a wire that has bit errors ...                                       *)
THEOREM OneSessionNewer ==
    ASSUME StepsTimed, MaxRestarts = 0, MaxWrites < SeqMod
    PROVE  Spec => []NewIsOneVersion /\ NeverReturnedBefore
BY SessionStamps, NewIsOneVersionAlways, NeverReturnedAlways, PTL

(* ... and all of it on one that has none: no stamp is changed, so every   *)
(* NEW is newer than the last.                                             *)
THEOREM OneSessionNoErrors ==
    ASSUME StepsTimed, MaxRestarts = 0, MaxWrites < SeqMod, MaxErrors = 0
    PROVE  Spec => []NewIsOneVersion /\ EveryNewIsNewer
BY SessionStamps, NewIsOneVersionAlways, NoErrorsNewer, PTL
=============================================================================
