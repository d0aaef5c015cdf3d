----------------------------- MODULE BankSwitch -----------------------------
(***************************************************************************)
(* Bank switching across the two cores, with the 6502's halt line at hand  *)
(* (config.haltAvailable).  Core1 (main/core1.cpp, iloop_pbi) serves every *)
(* bus cycle from the page tables, keeps the window at 0x4000 on the table *)
(* of the bit pattern in PORTB, and records the cycle in the bus monitor.  *)
(* A write to page D3 pulls the halt line.  Core0 (main/main.cpp,          *)
(* core0_onBmonChange) follows the bus monitor, has ExtBankPool bring the  *)
(* selected bank into SRAM, corrects that pattern's table (mmuOnChange)    *)
(* and lets the 6502 go (resume6502).                                      *)
(*                                                                         *)
(* A bus cycle of core1 is one step; a wait of core0 is a step per cycle.  *)
(***************************************************************************)
EXTENDS ExtBankPool, Sequences

CONSTANTS
    WaitCycles,     \* bmonWaitCycles() before resume6502(): 2
    ResumeCycles,   \* cycles that resume6502() releases the halt line: 15
    MaxQueue,       \* bound: cycles core0 is behind when it does not wait
    MaxStores,      \* bound: writes to the window and to the two pages
    Patience        \* see patient

Base     == -1                              \* the window shows base RAM
Fetches  == 3                               \* bytes of a store instruction
Trapped  == {"d301", "d3", "d1ff", "d1"}    \* writes core0 resumes after
PageD3   == {"d301", "d3"}                  \* writes that halt the 6502
AllOnes  == NPatterns - 1                   \* the pattern in PORTB = 0xff

ASSUME SwitchAssumption ==
    /\ WaitCycles \in Nat /\ ResumeCycles \in Nat \ {0}
    /\ MaxQueue \in Nat /\ MaxStores \in Nat
    /\ Patience \subseteq BOOLEAN
    /\ NPatterns > 0

VARIABLES
    pages,          \* extBanks[p]->pages: the buffer behind the window, or Base
    mapped,         \* pattern whose table l1Blocks[l1Block40] is
    portb,          \* pattern in d000Write[0x301]; None before mmuInit
    base,           \* contents of base RAM under the window
    halted,         \* the halt line is pulled
    release,        \* pinReleaseMask has the halt bit
    r0,             \* the cycle core1 records next
    queue,          \* bmonArray from bmonTail to bmonHead
    pc,             \* where core0 is
    nr,             \* local xeBankNr of core0
    lastXeBankNr,
    wait,           \* cycles left of core0's bmonWaitCycles
    fetched,        \* bytes the 6502 fetched since its last store, to Fetches
    stores,         \* stores of the 6502 so far
    patient         \* the program gives core0 time between trapped writes

bus   == <<mapped, portb, base, halted, r0, fetched, stores>>
core0 == <<pc, nr, lastXeBankNr, wait, release>>
pool  == <<banks, spare, recency, sel, ptr>>
switchVars == <<vars, pages, bus, queue, core0, patient>>

SwitchInit ==
    /\ Init
    /\ pages = [p \in Patterns |-> Base]
    /\ mapped = AllOnes /\ portb = None /\ base = Zero
    /\ halted = FALSE /\ release = FALSE
    /\ r0 = "read" /\ queue = <<>>
    /\ pc = "init" /\ nr = 0 /\ lastXeBankNr = 0 /\ wait = 0
    /\ fetched = 0 /\ stores = 0
    /\ patient \in Patience

LoadBanks ==
    /\ Preload
    /\ UNCHANGED <<pages, bus, queue, core0, patient>>

(* The tables of the patterns, PORTB after reset.  Its two calls of        *)
(* mmuOnChange come before extBanks[] is filled and select nothing.        *)
mmuInit ==
    /\ pc = "init" /\ preload = NPatterns
    /\ pages' = [p \in Patterns |->
                    IF Premap[p] < 0 THEN Base ELSE banks[Premap[p]]]
    /\ portb' = AllOnes /\ mapped' = AllOnes
    /\ pc' = "poll"
    /\ UNCHANGED <<vars, base, halted, r0, fetched, stores, queue, nr,
                   lastXeBankNr, wait, release, patient>>

-----------------------------------------------------------------------------
(* Core1: a bus cycle of the 6502. *)

(* Faulty: the count goes below zero. *)
Minus1Unchecked(n) == n - 1

Minus1(n) == IF n = 0 THEN 0 ELSE n - 1

(* Record the last cycle; the halt line, released at the end of a cycle.   *)
Cycle(op) ==
    /\ pc # "init"
    /\ wait = 0 => Len(queue) < MaxQueue
    /\ queue' = Append(queue, r0)
    /\ r0' = op
    /\ halted' = ((halted \/ op \in PageD3) /\ ~release)
    /\ wait' = Minus1(wait)

(* A read ends with the window on the table of PORTB's pattern.  A halted  *)
(* 6502 repeats its read.                                                  *)
ReadCycle ==
    /\ Cycle("read")
    /\ mapped' = portb
    /\ fetched' = IF halted \/ fetched = Fetches THEN fetched ELSE fetched + 1
    /\ UNCHANGED <<vars, pages, portb, base, stores, pc, nr, lastXeBankNr,
                   release, patient>>

Store(op) ==
    /\ ~halted /\ fetched = Fetches /\ stores < MaxStores
    /\ Cycle(op)
    /\ fetched' = 0 /\ stores' = stores + 1

(* Nothing of a trapped write is left to do for core0. *)
Rested == pc = "poll" /\ ~release /\ r0 \notin Trapped
          /\ \A i \in 1 .. Len(queue) : queue[i] \notin Trapped

WritePORTB(p) ==
    /\ patient => Rested
    /\ Store("d301")
    /\ portb' = p
    /\ UNCHANGED <<vars, pages, mapped, base, pc, nr, lastXeBankNr, release,
                   patient>>

(* Another register of the PIA, the PBI select or its page. *)
WriteRegister(op) ==
    /\ patient => Rested
    /\ Store(op)
    /\ UNCHANGED <<vars, pages, mapped, portb, base, pc, nr, lastXeBankNr,
                   release, patient>>

WriteWindow(v) ==
    /\ Store("write")
    /\ \/ /\ pages[mapped] = Base
          /\ base' = v
          /\ UNCHANGED buf
       \/ /\ pages[mapped] # Base
          /\ buf' = [buf EXCEPT ![pages[mapped]] = v]
          /\ UNCHANGED base
    /\ UNCHANGED <<pool, preload, pages, mapped, portb, pc, nr, lastXeBankNr,
                   release, patient>>

Core1 == \/ ReadCycle
         \/ \E p \in Patterns : WritePORTB(p)
         \/ \E op \in Trapped \ {"d301"} : WriteRegister(op)
         \/ \E v \in Values : WriteWindow(v)

-----------------------------------------------------------------------------
(* Core0: core0_onBmonChange. *)

Event(op) == pc = "poll" /\ queue # <<>> /\ Head(queue) = op

SkipEvent ==
    /\ pc = "poll" /\ queue # <<>> /\ Head(queue) \notin Trapped
    /\ queue' = Tail(queue)
    /\ UNCHANGED <<vars, pages, bus, core0, patient>>

(* PORTB written: put the window on its table, as core1 does. *)
OnPORTB ==
    /\ Event("d301")
    /\ nr' = portb
    /\ pc' = "remap"
    /\ UNCHANGED <<vars, pages, bus, queue, lastXeBankNr, wait, release, patient>>

(* Faulty: only the window is put on its table, mmuOnChange is not called. *)
RemapOnly ==
    /\ pc = "remap"
    /\ mapped' = nr
    /\ pc' = "drop"
    /\ UNCHANGED <<vars, pages, portb, base, halted, r0, fetched, stores, queue,
                   nr, lastXeBankNr, wait, release, patient>>

Remap ==
    /\ pc = "remap"
    /\ mapped' = nr
    /\ pc' = "change"
    /\ UNCHANGED <<vars, pages, portb, base, halted, r0, fetched, stores, queue,
                   nr, lastXeBankNr, wait, release, patient>>

OnPBISelect ==
    /\ Event("d1ff")
    /\ pc' = "change"
    /\ UNCHANGED <<vars, pages, bus, queue, nr, lastXeBankNr, wait, release,
                   patient>>

(* Faulty: a register of page D3 halts the 6502 but is taken for any read. *)
OnRegisterOfD1 ==
    \/ /\ Event("d1")
       /\ pc' = "wait" /\ wait' = WaitCycles
       /\ UNCHANGED <<vars, pages, bus, queue, nr, lastXeBankNr, release, patient>>
    \/ /\ Event("d3")
       /\ queue' = Tail(queue)
       /\ UNCHANGED <<vars, pages, bus, core0, patient>>

OnRegister ==
    /\ Event("d3") \/ Event("d1")
    /\ pc' = "wait" /\ wait' = WaitCycles
    /\ UNCHANGED <<vars, pages, bus, queue, nr, lastXeBankNr, release, patient>>

(* mmuOnChange: read PORTB, then select the bank if the pattern is new.    *)
ReadPattern ==
    /\ pc = "change"
    /\ nr' = portb
    /\ pc' = "select"
    /\ UNCHANGED <<vars, pages, bus, queue, lastXeBankNr, wait, release, patient>>

(* Faulty: the pattern's table keeps the buffer the bank had before. *)
SelectBankUnmapped ==
    /\ pc = "select"
    /\ pc' = "drop"
    /\ \/ /\ lastXeBankNr = nr
          /\ UNCHANGED <<vars, lastXeBankNr>>
       \/ /\ lastXeBankNr # nr
          /\ getBank(nr)
          /\ lastXeBankNr' = nr
          /\ UNCHANGED preload
    /\ UNCHANGED <<pages, bus, queue, nr, wait, release, patient>>

SelectBank ==
    /\ pc = "select"
    /\ pc' = "drop"
    /\ \/ /\ lastXeBankNr = nr
          /\ UNCHANGED <<vars, pages, lastXeBankNr>>
       \/ /\ lastXeBankNr # nr
          /\ getBank(nr)
          /\ pages' = IF Premap[nr] < 0 THEN pages
                                       ELSE [pages EXCEPT ![nr] = ptr']
          /\ lastXeBankNr' = nr
          /\ UNCHANGED preload
    /\ UNCHANGED <<bus, queue, nr, wait, release, patient>>

DropEvents ==                       \* bmonTail = bmonHead
    /\ pc = "drop"
    /\ queue' = <<>>
    /\ pc' = "wait" /\ wait' = WaitCycles
    /\ UNCHANGED <<vars, pages, bus, nr, lastXeBankNr, release, patient>>

(* resume6502: the halt line is let go for ResumeCycles.  *)
StartResume ==
    /\ pc = "wait" /\ wait = 0
    /\ queue' = <<>>
    /\ release' = TRUE
    /\ pc' = "resume" /\ wait' = ResumeCycles
    /\ UNCHANGED <<vars, pages, bus, nr, lastXeBankNr, patient>>

EndResume ==                        \* and bmonTail moves past one event
    /\ pc = "resume" /\ wait = 0
    /\ release' = FALSE
    /\ queue' = Tail(queue)
    /\ pc' = "poll"
    /\ UNCHANGED <<vars, pages, bus, nr, lastXeBankNr, wait, patient>>

Core0 == \/ SkipEvent \/ OnPORTB \/ Remap \/ OnPBISelect \/ OnRegister
         \/ ReadPattern \/ SelectBank \/ DropEvents \/ StartResume \/ EndResume

SwitchNext == LoadBanks \/ mmuInit \/ Core1 \/ Core0

(* The bus clock never stops and core0's loop never rests. *)
SwitchSpec == /\ SwitchInit /\ [][SwitchNext]_switchVars
              /\ WF_switchVars(LoadBanks \/ mmuInit)
              /\ WF_switchVars(ReadCycle) /\ WF_switchVars(Core0)

-----------------------------------------------------------------------------

SwitchTypeOK ==
    /\ pages \in [Patterns -> Buffers \cup {Base}]
    /\ mapped \in Patterns /\ nr \in Patterns /\ lastXeBankNr \in Patterns
    /\ portb \in Patterns \cup {None}
    /\ base \in Values
    /\ {halted, release, patient} \subseteq BOOLEAN
    /\ r0 \in Trapped \cup {"read", "write"} /\ Len(queue) <= MaxQueue + WaitCycles + ResumeCycles
    /\ pc \in {"init", "poll", "remap", "change", "select", "drop", "wait", "resume"}
    /\ wait \in 0 .. WaitCycles + ResumeCycles
    /\ fetched \in 0 .. Fetches /\ stores \in 0 .. MaxStores

(* A program that gives core0 time between writes to the two trapped pages *)
(* finds, whenever it is free to store, the window on the bank that PORTB  *)
(* selects, and that bank in SRAM, however the patterns of earlier         *)
(* selections were left (extMem.h:22-27).                                  *)
PatientWindowIsSelectedBank ==
    patient /\ ~halted /\ fetched = Fetches =>
        /\ mapped = portb
        /\ IF Premap[portb] < 0 THEN pages[mapped] = Base
           ELSE /\ pages[mapped] = banks[Premap[portb]]
                /\ isSRAM(Premap[portb])

(* A store to the window changes the bank that PORTB selects, and nothing  *)
(* else changes any bank: not the exchange of buffers under a halted 6502, *)
(* not the delay between core1's tables and core0's.                       *)
OnlySelectedBankWritten ==
    [][patient => \A b \in BankNrs : Contents'[b] # Contents[b] =>
            r0' = "write" /\ b = Premap[portb]]_switchVars

(* A 6502 that is halted goes on: the events core0 drops never include the *)
(* only one that would have released it (main.cpp:436-439, 461, 489).      *)
HaltEnds == halted ~> ~halted
=============================================================================
