---------------------------- MODULE MCBankSwitch ----------------------------
(* BankSwitch on three banks, one of them in SRAM.                         *)
EXTENDS BankSwitch, TLC

(* As RAMBO256 maps its banks: the lowest patterns show base RAM.          *)
MCRambo == (0 :> -1) @@ (1 :> 0) @@ (2 :> 1) @@ (3 :> 2)
=============================================================================
