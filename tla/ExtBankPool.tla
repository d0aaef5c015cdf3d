----------------------------- MODULE ExtBankPool -----------------------------
(***************************************************************************)
(* ExtBankPool (main/extMem.h, main/extMem.cpp): TotalBanks 16K banks of   *)
(* extended RAM of which only SramBanks have a buffer in fast SRAM.  A     *)
(* bank that is selected while its buffer is in PSRAM is exchanged with    *)
(* the least recently used SRAM bank through one spare PSRAM buffer.       *)
(*                                                                         *)
(* A buffer is a number: those below SramBanks were allocated with         *)
(* MALLOC_CAP_INTERNAL, the others with MALLOC_CAP_SPIRAM.  The 16K of a   *)
(* buffer are one value of Values.                                         *)
(***************************************************************************)
EXTENDS Integers

CONSTANTS
    TotalBanks,     \* totalBanks
    SramBanks,      \* sramBanks
    NPatterns,      \* number of PORTB bit patterns, ARRAYSZ(premap)
    Premap,         \* premap[]: pattern -> bank, or -1 for base memory
    Values,         \* contents a 16K buffer can have
    Zero,           \* a buffer after bzero
    None            \* no bank handed out yet (the NULL of getBank)

Patterns == 0 .. NPatterns - 1
BankNrs  == 0 .. TotalBanks - 1
Slots    == 0 .. SramBanks - 1
Buffers  == 0 .. TotalBanks      \* the last one is the first spare

(***************************************************************************)
(* init accepts 0 <= sram <= n; every configuration without an SRAM bank   *)
(* (sysConfig.cpp) also maps no pattern, and getBank needs that: its       *)
(* recency[sramBanks - 1] does not exist otherwise.                        *)
(***************************************************************************)
ASSUME PoolAssumption ==
    /\ TotalBanks \in Nat \ {0}
    /\ SramBanks \in 0 .. TotalBanks
    /\ NPatterns \in Nat
    /\ SramBanks = 0 => \A p \in 0 .. NPatterns - 1 : Premap[p] < 0
    /\ Premap \in [0 .. NPatterns - 1 -> {-1} \cup (0 .. TotalBanks - 1)]
    /\ Zero \in Values
    /\ None \notin 0 .. TotalBanks

VARIABLES
    banks,      \* banks[b]: the buffer that holds bank b
    spare,      \* the PSRAM buffer that holds no bank
    recency,    \* recency[0..SramBanks-1]: SRAM banks, most recently used first
    buf,        \* contents of every buffer
    preload,    \* next pattern the loop at the end of init passes to getBank
    sel,        \* bank the last successful getBank was asked for
    ptr         \* the pointer it returned

vars == <<banks, spare, recency, buf, preload, sel, ptr>>

isSRAM(b) == banks[b] < SramBanks
Evict     == recency[SramBanks - 1]

Init ==
    /\ banks = [b \in BankNrs |-> b]
    /\ spare = TotalBanks
    /\ recency = [n \in Slots |-> n]
    /\ buf = [f \in Buffers |-> Zero]
    /\ preload = 0
    /\ sel = None
    /\ ptr = None

(* Faulty: the pattern, not its bank, is put on top. *)
ShiftedPattern(b) ==
    [i \in Slots |-> IF i = 0 THEN CHOOSE p \in 0 .. NPatterns - 1 : Premap[p] = b ELSE recency[i - 1]]

(* The list moved down over the evicted bank, b on top. *)
Shifted(b) == [i \in Slots |-> IF i = 0 THEN b ELSE recency[i - 1]]

(* The entries above b's place moved down one, b on top. *)
MovedToFront(b) ==
    [i \in Slots |->
        IF i = 0 THEN b
        ELSE IF \E k \in Slots : k >= i /\ recency[k] = b
             THEN recency[i - 1]
             ELSE recency[i]]

(* Faulty: the spare is not exchanged for the buffer that came free. *)
SwapInKeepingSpare(b) ==
    /\ ~isSRAM(b)
    /\ buf' = [buf EXCEPT ![spare] = buf[banks[Evict]],
                          ![banks[Evict]] = buf[banks[b]]]
    /\ banks' = [banks EXCEPT ![b] = banks[Evict], ![Evict] = spare]
    /\ recency' = Shifted(b)
    /\ UNCHANGED spare

(* Faulty: the new bank is copied in before the evicted one is copied out. *)
SwapInFirst(b) ==
    /\ ~isSRAM(b)
    /\ buf' = [buf EXCEPT ![banks[Evict]] = buf[banks[b]],
                          ![spare] = buf[banks[b]]]
    /\ banks' = [banks EXCEPT ![b] = banks[Evict], ![Evict] = spare]
    /\ spare' = banks[b]
    /\ recency' = Shifted(b)

(* getBank for a bank whose buffer is in PSRAM: a three-way exchange.  *)
SwapIn(b) ==
    /\ ~isSRAM(b)
    /\ buf' = [buf EXCEPT ![spare] = buf[banks[Evict]],
                          ![banks[Evict]] = buf[banks[b]]]
    /\ banks' = [banks EXCEPT ![b] = banks[Evict], ![Evict] = spare]
    /\ spare' = banks[b]
    /\ recency' = Shifted(b)

(* Faulty: a bank found in SRAM is not moved to the front. *)
TouchWithoutRecency(b) ==
    /\ isSRAM(b)
    /\ UNCHANGED <<recency, banks, spare, buf>>

Touch(b) ==
    /\ isSRAM(b)
    /\ recency' = MovedToFront(b)
    /\ UNCHANGED <<banks, spare, buf>>

(* Faulty: the pointer is taken before the exchange. *)
getBankEarlyPointer(p) ==
    LET b == Premap[p]
    IN  \/ /\ b < 0
           /\ UNCHANGED <<banks, spare, recency, buf, sel, ptr>>
        \/ /\ b >= 0
           /\ SwapIn(b) \/ Touch(b)
           /\ sel' = b
           /\ ptr' = banks[b]

getBank(p) ==
    LET b == Premap[p]
    IN  \/ /\ b < 0
           /\ UNCHANGED <<banks, spare, recency, buf, sel, ptr>>
        \/ /\ b >= 0
           /\ SwapIn(b) \/ Touch(b)
           /\ sel' = b
           /\ ptr' = banks'[b]

(* for (i = 0; i < ARRAYSZ(premap); i++) getBank(i), at the end of init *)
Preload ==
    /\ preload < NPatterns
    /\ getBank(preload)
    /\ preload' = preload + 1

Select(p) ==
    /\ preload = NPatterns
    /\ getBank(p)
    /\ UNCHANGED preload

(* The 6502 fills the window through the pointer mmuOnChange installed. *)
Write(v) ==
    /\ preload = NPatterns
    /\ ptr # None
    /\ buf' = [buf EXCEPT ![ptr] = v]
    /\ UNCHANGED <<banks, spare, recency, preload, sel, ptr>>

Next ==
    \/ Preload
    \/ \E p \in Patterns : Select(p)
    \/ \E v \in Values : Write(v)

Spec == Init /\ [][Next]_vars

-----------------------------------------------------------------------------

TypeOK ==
    /\ banks \in [BankNrs -> Buffers]
    /\ spare \in Buffers
    /\ recency \in [Slots -> BankNrs]
    /\ buf \in [Buffers -> Values]
    /\ preload \in 0 .. NPatterns
    /\ sel \in BankNrs \cup {None}
    /\ ptr \in Buffers \cup {None}

(* No two banks share a buffer, none uses the spare and the spare is not   *)
(* SRAM: an exchange that lost track of one of its three pointers would    *)
(* make writes to one bank show up in another, many selections later       *)
(* (extMem.cpp getBank).                                                   *)
NoAliasing ==
    /\ \A a, b \in BankNrs : banks[a] = banks[b] => a = b
    /\ \A b \in BankNrs : banks[b] # spare
    /\ spare >= SramBanks

(* The recency list names exactly the banks that are in SRAM, each once:   *)
(* it is what makes the last entry a bank that can be exchanged.           *)
ResidentsListed ==
    /\ \A i, j \in Slots : recency[i] = recency[j] => i = j
    /\ \A b \in BankNrs : isSRAM(b) <=> \E i \in Slots : recency[i] = b

(* The pointer getBank handed out stays the buffer of the bank it was      *)
(* asked for, and it is SRAM: core1 cannot wait for PSRAM.                 *)
SelectedInSram ==
    IF sel = None THEN ptr = None
    ELSE /\ ptr = banks[sel]
         /\ ptr < SramBanks
         /\ recency[0] = sel

(* The inductive invariant. *)
PoolInv ==
    /\ TypeOK
    /\ NoAliasing
    /\ ResidentsListed
    /\ SelectedInSram

(* The exchange is invisible: the pool behaves as independent banks.       *)
Contents == [b \in BankNrs |-> buf[banks[b]]]

Memory == INSTANCE BankedMemory
            WITH Banks <- BankNrs, mem <- Contents, cur <- sel

ImplementsBankedMemory == Memory!Spec
=============================================================================
