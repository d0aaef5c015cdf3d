---------------------------- MODULE BankRecency ----------------------------
(***************************************************************************)
(* ExtBankPool with a history variable that ranks all banks by their last  *)
(* use, those in PSRAM too, which the code keeps no order of.              *)
(***************************************************************************)
EXTENDS ExtBankPool

VARIABLE age        \* the number of banks used more recently than this one

(* Before its first use a bank stands where init put it in recency[]. *)
RecencyInit == Init /\ age = [b \in BankNrs |-> b]

(* A bank that is used gets younger than all that were younger than it. *)
Used(b) == [c \in BankNrs |-> IF c = b THEN 0
                              ELSE IF age[c] < age[b] THEN age[c] + 1 ELSE age[c]]

RecencyNext ==
    /\ Next
    /\ age' = IF sel' = sel THEN age ELSE Used(sel')

RecencySpec == RecencyInit /\ [][RecencyNext]_<<vars, age>>

(* The banks in SRAM are the SramBanks most recently used ones, in order:  *)
(* getBank exchanges the least recently used SRAM bank (extMem.h:25).      *)
LeastRecentlyUsedEvicted == \A i \in Slots : age[recency[i]] = i

(* The inductive invariant: the ranking has no ties. *)
RecencyInv ==
    /\ PoolInv
    /\ age \in [BankNrs -> Nat]
    /\ \A a, b \in BankNrs : age[a] = age[b] => a = b
    /\ LeastRecentlyUsedEvicted
=============================================================================
