---------------------------- MODULE MCExtBankPool ----------------------------
(* BankRecency on four banks, two of them in SRAM. *)
EXTENDS BankRecency, TLC

(* Two patterns alias bank 0, as the XE mapping does; one maps base memory. *)
MCPremap == (0 :> 2) @@ (1 :> 0) @@ (2 :> 3) @@ (3 :> -1) @@ (4 :> 0) @@ (5 :> 1)
=============================================================================
