------------------------------ MODULE MCI2sLink ------------------------------
(***************************************************************************)
(* I2sLink with a peer that may restart and a wire that may change bits.   *)
(* Each session numbers its writes from a start of its own.  esp_random()  *)
(* makes the numbers of two sessions meet about once in 2^32; the          *)
(* constraint leaves those runs out: the first session starts just below   *)
(* the wrap of seq, the second just above it.                              *)
(***************************************************************************)
EXTENDS I2sLink

SessionsApart ==
    /\ restarts = 0 /\ id = 0 => seq = SeqMod - 2
    /\ restarts' > restarts => seq' = 1

(* Bound: one fault in a run, a restart or a bit error. *)
OneFault == restarts + errors <= 1

(* Bound: a bit error turns a stamp into the one of another write, after   *)
(* the first has begun, or is in the markers or the CRC of the first; any  *)
(* other stamp only tears the pass, and a bit of the payload is to the     *)
(* reader as one of its CRC.                                               *)
ErrorsThatCount ==
    errors' > errors =>
        \/ /\ Lap[beam] \in {"H", "T"} /\ id > 0
           /\ Seen(ring'[Lap[beam]]) \in {1, SeqMod - 1}
        \/ Lap[beam] \in {"F", "C"} /\ id = 1 /\ wpc = "idle"
=============================================================================
