----------------------------- MODULE BusDetach -----------------------------
(***************************************************************************)
(* Detaching the bus.  Core1 (main/core1.cpp, iloop_pbi) serves each cycle *)
(* from four tables, mmuState.l1Blocks, and after each cycle takes three   *)
(* of them anew from the multiplexers in mmuState.  While core0 handles a  *)
(* PBI request its interrupts are on and core1 mistimes the bus, so every  *)
(* pointer of mmuState is saved and replaced by one to a table that drives *)
(* nothing (main/main.cpp, disableBus), and put back later (enableBus),    *)
(* one by one, with core1 running.                                         *)
(*                                                                         *)
(* A table is known by its name; its pages are not modelled.  The          *)
(* cartridge is one of AtariMax's type, selected by the address of a write *)
(* to page D5.                                                             *)
(***************************************************************************)
EXTENDS Integers, Sequences

CONSTANTS
    CartBanks,      \* entries of cartBanks[]; only the first has a bank loaded
    ExtBanks,       \* entries of extBanks[]; the first has extended memory
    Commands,       \* what the 6502 requests
    MaxStores,      \* bound: register writes of the 6502
    MaxRequests     \* bound: requests

ASSUME BusAssumption ==
    /\ CartBanks \in Nat \ {0} /\ ExtBanks \in Nat \ {0}
    /\ Commands \subseteq {"disk", "screen", "open"}
    /\ MaxStores \in Nat /\ MaxRequests \in Nat

VARIABLES
    mmu,            \* mmuState: slot -> table
    saved,          \* mmuStateSaved
    portb,          \* d000Write[0x301]: [os, basic, ext]
    newport,        \* d000Write[0x1ff] & pbiDeviceNumMask, shifted down
    lastD5,         \* lastPageOffset[pageD5]
    savedD5,        \* savedD5Offset
    image,          \* the cartridge in memory: atariCart.image, 0 for NULL
    pc,             \* the 6502: "run" or "stack"
    cmd,            \* the request, "none" when core0 gave it back
    core0,          \* where core0 is
    slot,           \* the next pointer of a copy
    screenMemMapped,
    seen,           \* the kinds of cycles since core0 last asked for them
    chosen,         \* bank that the program last selected
    fresh,          \* no register was written since the last read cycle
    stores, requests

sixty502 == <<portb, newport, pc, chosen, fresh, stores>>
request  == <<cmd, requests>>
busVars  == <<mmu, saved, lastD5, savedD5, image, core0, slot, screenMemMapped, seen,
              sixty502, request>>

Table(name, n) == [name |-> name, n |-> n]
Dummy == Table("dummy", 0)
Base(n) == Table("base", n)                     \* l1Blocks[n]

(* The pointers of an MmuState, in the order of the struct. *)
Indices(kind, n) == [i \in 1 .. n |-> <<kind, i - 1>>]
SlotOrder == Indices("l1", 4) \o Indices("basicEn", 2) \o Indices("osEn", 4)
             \o Indices("cart", CartBanks) \o Indices("ext", ExtBanks)
Slots == {SlotOrder[i] : i \in DOMAIN SlotOrder}

(* initMmuBlocks: cartBanks[b] *)
CartTable(b, img) == IF b = 0 /\ img # 0 THEN Table("cart", img) ELSE Base(2)

(* mmuInit *)
Mapped(s) ==
    CASE s[1] = "l1"      -> IF s[2] = 2 THEN CartTable(0, 1) ELSE Base(s[2])
      [] s[1] = "basicEn" -> IF s[2] = 0 THEN Table("basic", 0) ELSE CartTable(0, 1)
      [] s[1] = "osEn"    -> Table("os", IF s[2] = 3 THEN 2 ELSE s[2])
      [] s[1] = "cart"    -> CartTable(s[2], 1)
      [] s[1] = "ext"     -> IF s[2] = 0 THEN Table("ext", 0) ELSE Base(1)

BusInit ==
    /\ mmu = [s \in Slots |-> Mapped(s)] /\ saved = mmu
    /\ portb = [os |-> 1, basic |-> 1, ext |-> ExtBanks - 1] /\ newport = 0
    /\ lastD5 = 0 /\ savedD5 = 0
    /\ image = 1
    /\ pc = "run" /\ cmd = "none" /\ core0 = "poll" /\ slot = 1
    /\ screenMemMapped = FALSE
    /\ seen = {}
    /\ chosen = 0 /\ fresh = FALSE /\ stores = 0 /\ requests = 0

-----------------------------------------------------------------------------
(* Core1. *)

(* After a read: BASIC or cartridge, OS or PBI ROM, extended memory. *)
AfterRead(m) ==
    [m EXCEPT ![<<"l1", 2>>] = m[<<"basicEn", portb.basic>>],
              ![<<"l1", 3>>] = m[<<"osEn", portb.os + 2 * newport>>],
              ![<<"l1", 1>>] = m[<<"ext", portb.ext>>]]

(* During a write: the cartridge bank of the last write to page D5.        *)
AfterWrite(m, d5) ==
    LET c == m[<<"cart", d5>>]
    IN  [m EXCEPT ![<<"basicEn", 1>>] = c,
                  ![<<"l1", 2>>] = IF portb.basic = 1 THEN c ELSE m[<<"basicEn", 0>>]]

ReadCycle ==
    /\ mmu' = AfterRead(mmu)
    /\ seen' = seen \cup {"read"}
    /\ fresh' = TRUE
    /\ UNCHANGED <<saved, lastD5, savedD5, image, core0, slot, screenMemMapped, request,
                   portb, newport, pc, chosen, stores>>

(* A write to a register.  Its data is stored at the end of the cycle.     *)
Store(d5) ==
    /\ pc = "run" /\ core0 = "poll" /\ stores < MaxStores
    /\ stores' = stores + 1
    /\ lastD5' = d5
    /\ mmu' = AfterWrite(mmu, d5)
    /\ fresh' = FALSE
    /\ UNCHANGED <<saved, savedD5, image, core0, slot, screenMemMapped, seen, request, pc>>

WritePORTB(os, basic, ext) ==
    /\ Store(lastD5)
    /\ portb' = [os |-> os, basic |-> basic, ext |-> ext]
    /\ UNCHANGED <<newport, chosen>>

SelectPBI(n) ==
    /\ Store(lastD5)
    /\ newport' = n
    /\ UNCHANGED <<portb, chosen>>

WriteD5(b) ==
    /\ Store(b)
    /\ chosen' = b
    /\ UNCHANGED <<portb, newport>>

(* SAFE_WAIT in the PBI ROM, the only way to issue a request here: the     *)
(* request is stored from a program on the stack, which then stores to     *)
(* DUMMY_WRITE and loads the request until it is 0.                        *)
Issue(c) ==
    /\ pc = "run" /\ core0 = "poll" /\ newport = 1 /\ requests < MaxRequests
    /\ requests' = requests + 1 /\ cmd' = c
    /\ pc' = "stack"
    /\ mmu' = AfterWrite(mmu, lastD5)
    /\ fresh' = FALSE
    /\ UNCHANGED <<saved, lastD5, savedD5, image, core0, slot, screenMemMapped, seen,
                   portb, newport, chosen, stores>>

DummyWrite ==
    /\ pc = "stack"
    /\ mmu' = AfterWrite(mmu, lastD5)
    /\ seen' = seen \cup {"write"}
    /\ UNCHANGED <<saved, lastD5, savedD5, image, core0, slot, screenMemMapped, request,
                   sixty502>>

LeaveStack ==
    /\ pc = "stack" /\ cmd = "none"
    /\ pc' = "run"
    /\ mmu' = AfterRead(mmu)
    /\ fresh' = TRUE
    /\ UNCHANGED <<saved, lastD5, savedD5, image, core0, slot, screenMemMapped, seen, request,
                   portb, newport, chosen, stores>>

(* With core0's interrupts on, core1 takes any cycle for a write to page   *)
(* D5, or to another page.                                                 *)
Mistimed(d5) ==
    /\ core0 \in {"detached", "handled"}
    /\ lastD5' = d5
    /\ mmu' = AfterWrite(mmu, d5)
    /\ seen' = seen \cup {"write"}
    /\ UNCHANGED <<saved, savedD5, image, core0, slot, screenMemMapped, request, sixty502>>

Core1 ==
    \/ ReadCycle
    \/ \E os, basic \in 0 .. 1, ext \in 0 .. ExtBanks - 1 : WritePORTB(os, basic, ext)
    \/ \E n \in 0 .. 1 : SelectPBI(n)
    \/ \E b \in 0 .. CartBanks - 1 : WriteD5(b)
    \/ \E c \in Commands : Issue(c)
    \/ DummyWrite
    \/ LeaveStack
    \/ \E b \in 0 .. CartBanks - 1 : Mistimed(b)

-----------------------------------------------------------------------------
(* Core0: handlePbiRequest. *)

Goto(here, there) == core0 = here /\ core0' = there

(* Faulty: one pointer too many. *)
CopyingPastEnd(here, there) ==
    /\ core0 = here
    /\ IF slot > Len(SlotOrder) THEN core0' = there /\ slot' = 1
                                ELSE core0' = here /\ slot' = slot + 1

(* Copies go from pointer to pointer. *)
Copying(here, there) ==
    /\ core0 = here
    /\ IF slot = Len(SlotOrder) THEN core0' = there /\ slot' = 1
                                ELSE core0' = here /\ slot' = slot + 1

StartRequest ==
    /\ cmd # "none" /\ Goto("poll", "save")
    /\ UNCHANGED <<mmu, saved, lastD5, savedD5, image, slot, screenMemMapped, seen, sixty502,
                   request>>

(* disableBus *)
SaveTables ==
    /\ Copying("save", "disable")
    /\ saved' = [saved EXCEPT ![SlotOrder[slot]] = mmu[SlotOrder[slot]]]
    /\ UNCHANGED <<mmu, lastD5, savedD5, image, screenMemMapped, seen, sixty502, request>>

(* Faulty: the multiplexers stay; core1 takes the tables from them again.  *)
DisableWindows ==
    /\ Copying("disable", "offset")
    /\ mmu' = IF SlotOrder[slot][1] = "l1" THEN [mmu EXCEPT ![SlotOrder[slot]] = Dummy] ELSE mmu
    /\ UNCHANGED <<saved, lastD5, savedD5, image, screenMemMapped, seen, sixty502, request>>

DisableTables ==
    /\ Copying("disable", "offset")
    /\ mmu' = [mmu EXCEPT ![SlotOrder[slot]] = Dummy]
    /\ UNCHANGED <<saved, lastD5, savedD5, image, screenMemMapped, seen, sixty502, request>>

SaveD5 ==
    /\ Goto("offset", "quiet")
    /\ savedD5' = lastD5
    /\ seen' = {}
    /\ UNCHANGED <<mmu, saved, lastD5, image, slot, screenMemMapped, sixty502, request>>

(* busyWait6502Ticks(20): at least one read cycle, then interrupts are on. *)
EnableInterrupts ==
    /\ "read" \in seen /\ Goto("quiet", "detached")
    /\ UNCHANGED <<mmu, saved, lastD5, savedD5, image, slot, screenMemMapped, seen, sixty502,
                   request>>

(* initMmuBlocks, after the screen is mapped by the first request that     *)
(* finds all of it: cartBanks[] and the window.                            *)
InitMmuBlocks(m) ==
    [s \in Slots |-> IF s[1] = "cart" THEN CartTable(s[2], image)
                     ELSE IF s = <<"l1", 2>> /\ image # 0 THEN CartTable(0, image)
                     ELSE m[s]]

HandleDisk ==
    /\ cmd = "disk" /\ Goto("detached", "handled")
    /\ UNCHANGED <<mmu, saved, lastD5, savedD5, image, slot, screenMemMapped, seen, sixty502,
                   request>>

HandleScreen ==
    /\ cmd = "screen" /\ Goto("detached", "handled")
    /\ screenMemMapped' = TRUE
    /\ mmu' = IF screenMemMapped THEN mmu ELSE InitMmuBlocks(mmu)
    /\ UNCHANGED <<saved, lastD5, savedD5, image, slot, seen, sixty502, request>>

(* The monitor opens another cartridge: open() frees the image and loads   *)
(* a new one, or fails.  mmuOnChange(true) leaves cartBanks[] alone; the   *)
(* pages it writes, in the tables the detached bus has, are not modelled.  *)
HandleOpen ==
    /\ cmd = "open" /\ Goto("detached", "handled")
    /\ image' \in {0, requests + 1}
    /\ UNCHANGED <<mmu, saved, lastD5, savedD5, slot, screenMemMapped, seen, sixty502, request>>

(* Faulty: the offset stays what core1 took it for. *)
KeepD5 ==
    /\ Goto("handled", "enable")
    /\ UNCHANGED <<mmu, saved, lastD5, savedD5, image, slot, screenMemMapped, seen, sixty502,
                   request>>

(* enableBus, interrupts off again and core1 in step with the bus. *)
RestoreD5 ==
    /\ Goto("handled", "enable")
    /\ lastD5' = savedD5
    /\ UNCHANGED <<mmu, saved, savedD5, image, slot, screenMemMapped, seen, sixty502, request>>

EnableTables ==
    /\ Copying("enable", "attached")
    /\ mmu' = [mmu EXCEPT ![SlotOrder[slot]] = saved[SlotOrder[slot]]]
    /\ UNCHANGED <<saved, lastD5, savedD5, image, screenMemMapped, seen, sixty502, request>>

WaitForDummyWrite ==                        \* bmonTail = bmonHead
    /\ Goto("attached", "wait")
    /\ seen' = {}
    /\ UNCHANGED <<mmu, saved, lastD5, savedD5, image, slot, screenMemMapped, sixty502, request>>

GiveBack ==
    /\ "write" \in seen /\ Goto("wait", "poll")
    /\ cmd' = "none"
    /\ UNCHANGED <<mmu, saved, lastD5, savedD5, image, slot, screenMemMapped, seen, sixty502,
                   requests>>

Core0 == \/ StartRequest \/ SaveTables \/ DisableTables \/ SaveD5 \/ EnableInterrupts
         \/ HandleDisk \/ HandleScreen \/ HandleOpen
         \/ RestoreD5 \/ EnableTables \/ WaitForDummyWrite \/ GiveBack

BusNext == Core1 \/ Core0

BusSpec == BusInit /\ [][BusNext]_busVars

-----------------------------------------------------------------------------
Tables == {Dummy, Table("basic", 0), Table("ext", 0)} \cup {Base(n) : n \in 0 .. 3}
          \cup {Table("os", n) : n \in 0 .. 2} \cup {Table("cart", n) : n \in 1 .. MaxRequests + 1}

BusTypeOK ==
    /\ {mmu, saved} \subseteq [Slots -> Tables]
    /\ portb \in [os : 0 .. 1, basic : 0 .. 1, ext : 0 .. ExtBanks - 1]
    /\ newport \in 0 .. 1
    /\ {lastD5, savedD5, chosen} \subseteq 0 .. CartBanks - 1
    /\ image \in 0 .. MaxRequests + 1
    /\ pc \in {"run", "stack"} /\ cmd \in Commands \cup {"none"}
    /\ core0 \in {"poll", "save", "disable", "offset", "quiet", "detached", "handled", "enable",
                  "attached", "wait"}
    /\ slot \in DOMAIN SlotOrder
    /\ seen \subseteq {"read", "write"}
    /\ {screenMemMapped, fresh} \subseteq BOOLEAN
    /\ stores \in 0 .. MaxStores /\ requests \in 0 .. MaxRequests

(* A program that runs sees the memory it selected, one read cycle after   *)
(* it wrote the register: the OS, BASIC or the cartridge bank and the      *)
(* extended bank, as mmuInit laid them out.  No detach in between, no      *)
(* cycle that core1 mistook for a bank selection and no order in which the *)
(* cores wrote the pointers shows (main.cpp:210-215, core1.cpp:92-123).    *)
WindowsFollow ==
    pc = "run" /\ fresh =>
        /\ mmu[<<"l1", 0>>] = Base(0)
        /\ mmu[<<"l1", 1>>] = Mapped(<<"ext", portb.ext>>)
        /\ mmu[<<"l1", 2>>] = IF portb.basic = 0 THEN Table("basic", 0) ELSE Mapped(<<"cart", chosen>>)
        /\ mmu[<<"l1", 3>>] = Mapped(<<"osEn", portb.os + 2 * newport>>)

(* With the bus detached, from the first write and read cycle on, core1    *)
(* serves every address from the table that drives nothing, whatever it    *)
(* takes the cycles for (main.cpp:210-215).  The request that lays out     *)
(* cartBanks[] anew is the exception: initMmuBlocks writes the cartridge's *)
(* tables into the disabled state (pbi.cpp:371).                           *)
DetachedDrivesNothing ==
    /\ core0 \in {"detached", "handled"} /\ seen = {"read", "write"}
    /\ cmd # "screen"
    => \A n \in 0 .. 3 : mmu[<<"l1", n>>] = Dummy
=============================================================================
