------------------------------ MODULE MCSidecar ------------------------------
(***************************************************************************)
(* Sidecar with host sessions that number their commands apart: the random *)
(* start makes a response left from an earlier session echo a new command  *)
(* about once in 2^32; the constraint leaves those runs out.  The first    *)
(* session starts three below the wrap of nextSequence, the second at 5.   *)
(***************************************************************************)
EXTENDS Sidecar

SessionsApart ==
    nextSequence \in IF hostRestarts = 0 THEN {13, 14, 15, 0, 1, 2} ELSE 5 .. 10
=============================================================================
