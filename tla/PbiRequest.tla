----------------------------- MODULE PbiRequest -----------------------------
(***************************************************************************)
(* A PBI request.  The 6502 (main/pbirom.asm, PBI_ALL, SAFE_WAIT, COPYIN)  *)
(* fills a request block and waits in a program on the stack.  Core0       *)
(* (main/pbi.cpp, handlePbiRequest) detaches the bus, runs the command,    *)
(* attaches the bus and lets the 6502 go once it is seen in that program.  *)
(* Memory that the ESP32 does not hold goes through a window of 1K in the  *)
(* PBI ROM: the command ends with NEED_COPYIN, the 6502 fills the window   *)
(* and issues the command again with the flag COPYIN.                      *)
(*                                                                         *)
(* Core0 interrupts the 6502 from its main loop (main/main.cpp,            *)
(* raiseInterrupt).  The interrupt routine makes a request of its own,     *)
(* with a block of its own and the same window, wherever the 6502's other  *)
(* request left interrupts on.                                             *)
(*                                                                         *)
(* Memory is cut into pages of 256 bytes, the unit of the screen copy; a   *)
(* page is known by the area it is in and its number there.  The OS ROM is *)
(* on, and programs leave interrupts on.                                   *)
(***************************************************************************)
EXTENDS Integers, Sequences, FiniteSetsExt

CONSTANTS
    MaxCopy,        \* REQ_MAX_COPYLEN, 1024 bytes, in pages: 4
    ScreenSizes,    \* numPages: 800 bytes from SAVMSC touch 4 or 5 pages
    Size,           \* Size[area]: pages of a command's area
    MaxRequests,    \* bound: commands of the program
    MaxTicks,       \* bound: interrupts core0 asks for
    ScreenKnown     \* screenMemMapped at the start

Areas    == {"buffer", "name", "text"}
Commands == {"write", "read", "dump", "none"}
Blocks   == {"main", "isr"}                 \* pbiRequest[0] and [1]
Flags    == {"DETACHSAFE", "STACKWAIT"}     \* of every request: SAFE_WAIT
Nothing  == <<"none", 0>>

ASSUME PbiAssumption ==
    /\ MaxCopy \in Nat \ {0}
    /\ ScreenSizes \subseteq 1 .. 2 * MaxCopy
    /\ Size \in [Areas -> 1 .. MaxCopy]
    /\ MaxRequests \in Nat /\ MaxTicks \in Nat
    /\ ScreenKnown \subseteq BOOLEAN

VARIABLES
    pc,             \* the 6502 in each block's routine: "idle", "enter", "stack" or "check"
    block,          \* the blocks: [cmd, req, result, copybuf, copylen], no req: no request;
                    \* copybuf is the first page to copy, copylen counts pages
    requests,       \* commands of the program
    window,         \* the window: pbiROM[0x400..]
    core0,          \* "poll", "detached", "attached"
    seen,           \* core0 saw the stack program's dummy write
    native,         \* areas that only native RAM holds
    numPages,       \* of the screen
    screenMem,      \* the screen copy, and the heap behind it
    screenMemMapped,
    name,           \* openFilenames[], <<>>: not openFilenameValid
    taken,          \* what the last command that needs memory worked on
    irq,            \* interruptRequested: the line is held
    deferred,       \* deferredInterrupt
    asked,          \* core0 asked for an interrupt and cmd 8 did not come since
    ticks           \* interrupts asked for

memory == <<native, numPages>>
screen == <<screenMem, screenMemMapped>>
line   == <<irq, deferred, asked, ticks>>
vars == <<pc, block, requests, window, core0, seen, memory, screen, name, taken, line>>

Pages(from, n) == [i \in 1 .. n |-> <<from[1], from[2] + i - 1>>]
Area(area)     == Pages(<<area, 0>>, Size[area])
WindowHas(n)   == SubSeq(window, 1, n)

(* The block the 6502 works with: the interrupt routine's while it runs. *)
Running == IF pc["isr"] # "idle" THEN "isr" ELSE "main"
Request == block[Running]

Init ==
    /\ pc = [b \in Blocks |-> "idle"] /\ requests = 0
    /\ block = [b \in Blocks |-> [cmd |-> "none", req |-> {}, result |-> {},
                                  copybuf |-> Nothing, copylen |-> 0]]
    /\ window = [i \in 1 .. MaxCopy |-> Nothing]
    /\ core0 = "poll" /\ seen = FALSE
    /\ native \in SUBSET (Areas \cup {"screen"})
    /\ numPages \in ScreenSizes
    /\ screenMem = [i \in 0 .. 3 * MaxCopy - 1 |-> Nothing]
    /\ screenMemMapped \in ScreenKnown
    /\ name = <<>> /\ taken = <<>>
    /\ irq = FALSE /\ deferred = FALSE /\ asked = FALSE /\ ticks = 0

-----------------------------------------------------------------------------
(* The 6502. *)

Goto(here, there) ==
    /\ pc[Running] = here
    /\ pc' = [pc EXCEPT ![Running] = there]

(* PBI_ALL up to its SEI: the device is selected, the command stored.      *)
Enter(c) ==
    /\ requests < MaxRequests /\ Running = "main" /\ Goto("idle", "enter")
    /\ requests' = requests + 1
    /\ block' = [block EXCEPT !["main"].cmd = c]
    /\ UNCHANGED <<window, core0, seen, memory, screen, name, taken, line>>

(* Faulty: PBI_ALL leaves interrupts on. *)
InterruptsLeftOn == pc["isr"] = "idle"

(* Interrupts are on until SEI and from CLI on. *)
InterruptsOn == pc["isr"] = "idle" /\ pc["main"] \in {"idle", "enter"}

(* PBI_ISR *)
TakeInterrupt ==
    /\ irq /\ InterruptsOn
    /\ pc' = [pc EXCEPT !["isr"] = "enter"]
    /\ block' = [block EXCEPT !["isr"].cmd = "irq"]
    /\ UNCHANGED <<requests, window, core0, seen, memory, screen, name, taken, line>>

(* SEI and SAFE_WAIT, up to the store of REQ from the stack program.       *)
Issue ==
    /\ Goto("enter", "stack")
    /\ block' = [block EXCEPT ![Running].req = Flags]
    /\ UNCHANGED <<requests, window, core0, seen, memory, screen, name, taken, line>>

(* The loop's store to DUMMY_WRITE, which core0 sees with the bus attached. *)
DummyWrite ==
    /\ pc[Running] = "stack"
    /\ seen' = (seen \/ core0 = "attached")
    /\ UNCHANGED <<pc, block, requests, window, core0, memory, screen, name, taken, line>>

(* The loop ends: it loads 0 from REQ or finds the RTS.  With the bus      *)
(* detached it loads a byte of the native ROM there, which is not 0.       *)
LeaveStack ==
    /\ Goto("stack", "check") /\ Request.req = {} /\ core0 # "detached"
    /\ UNCHANGED <<block, requests, window, core0, seen, memory, screen, name, taken, line>>

CopyIn ==
    /\ Goto("check", "stack") /\ "NEED_COPYIN" \in Request.result
    /\ window' = Pages(Request.copybuf, Request.copylen)
                     \o SubSeq(window, Request.copylen + 1, MaxCopy)
    /\ block' = [block EXCEPT ![Running].req = Flags \cup {"COPYIN"}]
    /\ UNCHANGED <<requests, core0, seen, memory, screen, name, taken, line>>

CopyOut ==
    /\ Goto("check", "idle") /\ "COPYOUT" \in Request.result
    /\ taken' = WindowHas(Request.copylen)
    /\ UNCHANGED <<block, requests, window, core0, seen, memory, screen, name, line>>

Complete ==
    /\ Goto("check", "idle") /\ Request.result \cap {"NEED_COPYIN", "COPYOUT"} = {}
    /\ UNCHANGED <<block, requests, window, core0, seen, memory, screen, name, taken, line>>

-----------------------------------------------------------------------------
(* Core0: handlePbiRequest2, with the bus detached. *)

Answered(flags, from, n) ==
    block' = [block EXCEPT ![Running].result = flags, ![Running].copybuf = from,
                           ![Running].copylen = n]
Answer(flag)         == Answered({flag}, Request.copybuf, Request.copylen)
NeedCopyIn(from, n)  == Answered({"NEED_COPYIN"}, from, n)

(* mappedElseCopyIn: the ESP32 holds the area, or the window does.         *)
Have(area) ==
    \/ area \notin native
    \/ /\ "COPYIN" \in Request.req
       /\ Request.copybuf = <<area, 0>> /\ Request.copylen >= Size[area]

(* A sector write takes its data from the window when COPYIN is set.       *)
WriteSector ==
    /\ Request.cmd = "write"
    /\ \/ /\ "buffer" \in native /\ "COPYIN" \notin Request.req
          /\ NeedCopyIn(<<"buffer", 0>>, Size["buffer"])
          /\ UNCHANGED taken
       \/ /\ "buffer" \notin native \/ "COPYIN" \in Request.req
          /\ taken' = IF "buffer" \in native THEN WindowHas(Size["buffer"])
                                             ELSE Area("buffer")
          /\ Answered({"COMPLETE"}, <<"buffer", 0>>, Size["buffer"])
    /\ UNCHANGED <<window, name, line>>

ReadSector ==
    /\ Request.cmd = "read"
    /\ \/ /\ "buffer" \in native
          /\ window' = Pages(<<"sector", 0>>, Size["buffer"])
                           \o SubSeq(window, Size["buffer"] + 1, MaxCopy)
          /\ Answered({"COPYOUT"}, <<"buffer", 0>>, Size["buffer"])
          /\ UNCHANGED taken
       \/ /\ "buffer" \notin native
          /\ taken' = Pages(<<"sector", 0>>, Size["buffer"])
          /\ Answered({"COMPLETE"}, <<"buffer", 0>>, Size["buffer"])
          /\ UNCHANGED window
    /\ UNCHANGED <<name, line>>

(* CioDispatcher::open of J1:DUMPSCREEN: the file name, which is kept, then *)
(* the text of the screen.                                                 *)
OpenDump ==
    LET named == IF name # <<>> THEN name
                 ELSE IF "name" \in native THEN WindowHas(Size["name"])
                 ELSE Area("name")
    IN  /\ Request.cmd = "dump"
        /\ \/ /\ name = <<>> /\ ~Have("name")
              /\ NeedCopyIn(<<"name", 0>>, Size["name"])
              /\ UNCHANGED <<name, taken>>
           \/ /\ name # <<>> \/ Have("name")
              /\ ~Have("text")
              /\ NeedCopyIn(<<"text", 0>>, Size["text"])
              /\ name' = named
              /\ UNCHANGED taken
           \/ /\ name # <<>> \/ Have("name")
              /\ Have("text")
              /\ taken' = named \o IF "text" \in native THEN WindowHas(Size["text"])
                                                        ELSE Area("text")
              /\ name' = <<>>
              /\ Answer("COMPLETE")
        /\ UNCHANGED <<window, line>>

(* PBICMD_NOP and the other commands without memory. *)
Nop ==
    /\ Request.cmd = "none"
    /\ Answer("COMPLETE")
    /\ UNCHANGED <<window, name, taken, line>>

(* cmd 8, with clearInterrupt. *)
Interrupt ==
    /\ Request.cmd = "irq"
    /\ Answer("COMPLETE")
    /\ irq' = FALSE /\ asked' = FALSE
    /\ UNCHANGED <<window, name, taken, deferred, ticks>>

Execute == WriteSector \/ ReadSector \/ OpenDump \/ Nop \/ Interrupt

(* Faulty: the first chunk is not limited to the window. *)
AskForWholeScreen ==
    /\ "COPYIN" \notin Request.req
    /\ NeedCopyIn(<<"screen", 0>>, numPages)
    /\ UNCHANGED <<screen, window, name, taken, line>>

(* pbiReqCopyIn for the pages of the screen.  copybuf[2] is the offset.    *)
AskForScreen ==
    /\ "COPYIN" \notin Request.req
    /\ NeedCopyIn(<<"screen", 0>>, Min({MaxCopy, numPages}))
    /\ UNCHANGED <<screen, window, name, taken, line>>

Offset  == Request.copybuf[2]
NextAt  == Offset + Request.copylen

(* Faulty: every chunk lands at the start of the copy. *)
StoreChunkAtStart ==
    /\ "COPYIN" \in Request.req
    /\ screenMem' = [i \in DOMAIN screenMem |->
                        IF i < Request.copylen THEN window[i + 1] ELSE screenMem[i]]

StoreChunk ==
    /\ "COPYIN" \in Request.req
    /\ screenMem' = [i \in DOMAIN screenMem |->
                        IF i \in Offset .. NextAt - 1 THEN window[i - Offset + 1] ELSE screenMem[i]]

(* Faulty: copybuf does not advance to the next chunk. *)
NextChunkStuck ==
    /\ StoreChunk
    /\ NextAt < numPages
    /\ NeedCopyIn(Request.copybuf, Min({MaxCopy, numPages - Offset}))
    /\ UNCHANGED <<screenMemMapped, window, name, taken, line>>

NextChunk ==
    /\ StoreChunk
    /\ NextAt < numPages
    /\ NeedCopyIn(<<"screen", NextAt>>, Min({MaxCopy, numPages - Offset}))
    /\ UNCHANGED <<screenMemMapped, window, name, taken, line>>

LastChunk ==
    /\ StoreChunk
    /\ NextAt >= numPages
    /\ screenMemMapped' = TRUE
    /\ Execute

(* The program's write to REQ's page is handled with that block, and only  *)
(* the routine that runs can have made it.                                 *)
Handle ==
    /\ core0 = "poll" /\ Request.req # {}
    /\ core0' = "detached"
    /\ \/ /\ ~screenMemMapped /\ "screen" \in native
          /\ AskForScreen \/ NextChunk \/ LastChunk
       \/ /\ screenMemMapped \/ "screen" \notin native
          /\ screenMemMapped' = TRUE
          /\ Execute
          /\ UNCHANGED screenMem
    /\ UNCHANGED <<pc, requests, seen, memory>>

(* Faulty: the request is cleared before the 6502 is seen again. *)
AttachReleasing ==
    /\ core0 = "detached"
    /\ core0' = "attached"
    /\ seen' = FALSE
    /\ block' = [block EXCEPT ![Running].req = {}]
    /\ UNCHANGED <<pc, requests, window, memory, screen, name, taken, line>>

Attach ==       \* ~ScopedInterruptEnable: enableBus
    /\ core0 = "detached"
    /\ core0' = "attached"
    /\ seen' = FALSE                            \* bmonTail = bmonHead
    /\ UNCHANGED <<pc, block, requests, window, memory, screen, name, taken, line>>

(* The dummy write seen: the 6502 is in the stack program, let it go.      *)
Release ==
    /\ core0 = "attached" /\ seen
    /\ core0' = "poll"
    /\ block' = [block EXCEPT ![Running].req = {}]
    /\ UNCHANGED <<pc, requests, window, seen, memory, screen, name, taken, line>>

(* The device is selected while the 6502 is in the PBI ROM. *)
Selected == \E b \in Blocks : pc[b] # "idle"

(* Faulty: with the device selected the interrupt is forgotten. *)
RaiseOrForget ==
    /\ irq' = (irq \/ ~Selected)
    /\ UNCHANGED deferred

raiseInterrupt ==
    \/ ~Selected /\ irq' = TRUE /\ deferred' = FALSE
    \/ Selected /\ deferred' = TRUE /\ UNCHANGED irq

(* core0_utilityTasks, between two requests: interruptTicks have passed,   *)
(* or an interrupt was deferred.                                           *)
TickPasses ==
    /\ core0 = "poll" /\ ticks < MaxTicks
    /\ ticks' = ticks + 1 /\ asked' = TRUE
    /\ raiseInterrupt
    /\ UNCHANGED <<pc, block, requests, window, core0, seen, memory, screen, name, taken>>

RaiseDeferred ==
    /\ core0 = "poll" /\ deferred /\ ~Selected
    /\ raiseInterrupt
    /\ UNCHANGED <<pc, block, requests, window, core0, seen, memory, screen, name, taken,
                   asked, ticks>>

Cpu   == \/ \E c \in Commands : Enter(c)
         \/ TakeInterrupt \/ Issue
         \/ DummyWrite \/ LeaveStack \/ CopyIn \/ CopyOut \/ Complete
Core0 == Handle \/ Attach \/ Release \/ TickPasses \/ RaiseDeferred

Next == Cpu \/ Core0

Spec == Init /\ [][Next]_vars

(* The 6502 runs on and core0 polls, requests first.  The 6502 loops in    *)
(* the stack program until it can leave, so its dummy write and its exit   *)
(* are fair each; interrupts are on between any two requests.              *)
FairSpec == /\ Spec
            /\ WF_vars(Handle \/ Attach \/ Release) /\ WF_vars(RaiseDeferred)
            /\ WF_vars(DummyWrite) /\ WF_vars(LeaveStack)
            /\ WF_vars(TakeInterrupt) /\ WF_vars(Issue)
            /\ WF_vars(CopyIn) /\ WF_vars(CopyOut) /\ WF_vars(Complete)

-----------------------------------------------------------------------------

TypeOK ==
    /\ pc \in [Blocks -> {"idle", "enter", "stack", "check"}]
    /\ requests \in 0 .. MaxRequests /\ ticks \in 0 .. MaxTicks
    /\ \A b \in Blocks :
        /\ block[b].cmd \in Commands \cup {"irq"}
        /\ block[b].req \subseteq Flags \cup {"COPYIN"}
        /\ block[b].result \subseteq {"COMPLETE", "NEED_COPYIN", "COPYOUT"}
        /\ block[b].copylen \in 0 .. MaxCopy
    /\ Len(window) = MaxCopy
    /\ core0 \in {"poll", "detached", "attached"}
    /\ {seen, screenMemMapped, irq, deferred, asked} \subseteq BOOLEAN

(* The memory that a command names. *)
Named(c) == CASE c = "write" -> Area("buffer")
              [] c = "dump"  -> Area("name") \o Area("text")
              [] c = "read"  -> Pages(<<"sector", 0>>, Size["buffer"])

(* A command works on the memory it names, whatever was copied in before   *)
(* it or by an interrupt's request: a dump is the file name and the screen *)
(* of this very open (cio.cpp:103, 206), a read hands its sector over      *)
(* (pbi.cpp:497-501), and a sector written, once the screen is mapped, is  *)
(* the caller's buffer.  Before that it may be a piece of the screen:      *)
(* pbi.cpp:506 only asks for REQ_FLAG_COPYIN, which is then of the         *)
(* screen's last chunk.                                                    *)
RightData ==
    [][taken' # taken /\ (Request.cmd = "write" => screenMemMapped) =>
            taken' = Named(Request.cmd)]_vars

(* The copy of the screen is the screen, page by page (pbi.cpp:240-259).   *)
ScreenIsCopied ==
    screenMemMapped /\ (\E i \in DOMAIN screenMem : screenMem[i] # Nothing) =>
        \A i \in 0 .. numPages - 1 : screenMem[i] = <<"screen", i>>

(* "copy the data currently in native 6502 pages" (pbi.cpp:262-263): the   *)
(* chunks end where the numPages pages of the screen, and the allocation   *)
(* made for them (pbi.cpp:359-365), end.                                   *)
CopyInBounds ==
    \A i \in DOMAIN screenMem : i >= numPages => screenMem[i] = Nothing

(* While core0 has the bus detached or a block in its hands, the 6502      *)
(* stays in the stack program of that block, outside of memory that comes  *)
(* and goes, and no interrupt takes it away.                               *)
ParkedWhileHandled == core0 # "poll" => pc[Running] = "stack" /\ Request.req # {}

(* Every request ends: no chain of copies goes on for ever (cio.cpp:204).  *)
RequestEnds == \A b \in Blocks : pc[b] # "idle" ~> pc[b] = "idle"

(* An interrupt that core0 asks for reaches the 6502's routine, though it  *)
(* was asked for in the middle of a request, or of the routine itself      *)
(* (main.cpp:134-149, 573-577).                                            *)
InterruptServed == asked ~> ~asked
=============================================================================
