---------------------------- MODULE BankedMemory ----------------------------
(***************************************************************************)
(* What extended memory promises a 6502 program: Banks independent banks,  *)
(* one of them in the 16K window at a time.  Selecting a bank changes no   *)
(* byte of any bank, and a write through the window changes the selected   *)
(* bank only.  A bank's contents are one value of Values.                  *)
(***************************************************************************)
CONSTANTS
    Banks,      \* the banks of the expansion
    Values,     \* what a bank can hold
    Zero,       \* what a freshly cleared bank holds
    None        \* no bank selected yet

VARIABLES
    mem,        \* contents of every bank
    cur         \* the bank in the window

vars == <<mem, cur>>

Init ==
    /\ mem = [b \in Banks |-> Zero]
    /\ cur = None

Select(b) ==
    /\ cur' = b
    /\ UNCHANGED mem

Write(v) ==
    /\ cur # None
    /\ mem' = [mem EXCEPT ![cur] = v]
    /\ UNCHANGED cur

Next ==
    \/ \E b \in Banks : Select(b)
    \/ \E v \in Values : Write(v)

Spec == Init /\ [][Next]_vars
=============================================================================
