--------------------------- MODULE PbiRequestProofs ---------------------------
(* A PBI request works on the memory it names, and the 6502 stays where it *)
(* can do no harm meanwhile, for every window, screen, set of areas and    *)
(* number of requests and interrupts.                                      *)
EXTENDS PbiRequest, TLAPS

PageRef == (Areas \cup {"screen", "sector", "none"}) \X Nat

Block == [cmd     : Commands \cup {"irq"},
          req     : SUBSET (Flags \cup {"COPYIN"}),
          result  : SUBSET {"COMPLETE", "NEED_COPYIN", "COPYOUT"},
          copybuf : PageRef,
          copylen : 0 .. MaxCopy]

Types ==
    /\ pc \in [Blocks -> {"idle", "enter", "stack", "check"}]
    /\ block \in [Blocks -> Block]
    /\ requests \in 0 .. MaxRequests /\ ticks \in 0 .. MaxTicks
    /\ window \in Seq(PageRef) /\ Len(window) = MaxCopy
    /\ core0 \in {"poll", "detached", "attached"}
    /\ numPages \in ScreenSizes
    /\ screenMem \in [0 .. 3 * MaxCopy - 1 -> PageRef]
    /\ seen \in BOOLEAN /\ screenMemMapped \in BOOLEAN
    /\ irq \in BOOLEAN /\ deferred \in BOOLEAN /\ asked \in BOOLEAN

-----------------------------------------------------------------------------
(* Windows. *)

LEMMA RunningIsBlock == Running \in Blocks
BY DEF Running, Blocks

LEMMA Concatenation ==
    ASSUME NEW S, NEW s \in Seq(S), NEW t \in Seq(S)
    PROVE  /\ s \o t \in Seq(S) /\ Len(s \o t) = Len(s) + Len(t)
           /\ \A i \in 1 .. Len(s) : (s \o t)[i] = s[i]
OBVIOUS

(* n pages put at the start of the window. *)
LEMMA Fill ==
    ASSUME Types, NEW from \in PageRef, NEW n \in 0 .. MaxCopy,
           NEW w, w = Pages(from, n) \o SubSeq(window, n + 1, MaxCopy)
    PROVE  /\ w \in Seq(PageRef) /\ Len(w) = MaxCopy
           /\ \A i \in 1 .. n : w[i] = <<from[1], from[2] + i - 1>>
<1> DEFINE p == Pages(from, n)
           rest == SubSeq(window, n + 1, MaxCopy)
<1>1. MaxCopy \in Nat /\ n \in Nat /\ n <= MaxCopy
  BY PbiAssumption
<1>2. p \in Seq(PageRef) /\ Len(p) = n /\ \A i \in 1 .. n : p[i] = <<from[1], from[2] + i - 1>>
  <2>1. \A i \in 1 .. n : <<from[1], from[2] + i - 1>> \in PageRef
    BY <1>1 DEF PageRef
  <2>2. p = [i \in 1 .. n |-> <<from[1], from[2] + i - 1>>]
    BY DEF Pages
  <2>3. p \in [1 .. n -> PageRef] /\ n \in Nat
    BY <1>1, <2>1, <2>2
  <2>4. p \in Seq(PageRef) /\ Len(p) = n
    BY <2>3
  <2> QED BY <2>2, <2>4
<1>3. rest \in Seq(PageRef) /\ Len(rest) = MaxCopy - n
  BY <1>1 DEF Types
<1> HIDE DEF p, rest
<1>4. w = p \o rest
  BY DEF p, rest
<1>5. /\ w \in Seq(PageRef) /\ Len(w) = Len(p) + Len(rest)
      /\ \A i \in 1 .. Len(p) : w[i] = p[i]
  <2>1. /\ p \o rest \in Seq(PageRef) /\ Len(p \o rest) = Len(p) + Len(rest)
        /\ \A i \in 1 .. Len(p) : (p \o rest)[i] = p[i]
    BY <1>2, <1>3, Concatenation
  <2> QED BY <2>1, <1>4
<1>6. Len(w) = MaxCopy
  BY ONLY <1>1, <1>2, <1>3, <1>5
<1>7. \A i \in 1 .. n : w[i] = <<from[1], from[2] + i - 1>>
  BY ONLY <1>2, <1>5
<1> QED BY ONLY <1>5, <1>6, <1>7

(* What a window's first pages are, page by page and as a whole. *)
LEMMA Has ==
    ASSUME Types, NEW from \in PageRef, NEW n \in 0 .. MaxCopy,
           \A i \in 1 .. n : window[i] = <<from[1], from[2] + i - 1>>
    PROVE  WindowHas(n) = Pages(from, n)
<1>1. MaxCopy \in Nat /\ n \in Nat /\ n <= MaxCopy
  BY PbiAssumption
<1>2. /\ WindowHas(n) \in Seq(PageRef) /\ Len(WindowHas(n)) = n
      /\ \A i \in 1 .. n : WindowHas(n)[i] = window[i]
  BY <1>1 DEF Types, WindowHas
<1>3. WindowHas(n) = [i \in 1 .. n |-> WindowHas(n)[i]]
  BY <1>1, <1>2
<1> QED BY <1>2, <1>3 DEF Pages

(* An answer changes what it says and no more. *)
LEMMA AnsweredIs ==
    ASSUME Types, NEW flags \in SUBSET {"COMPLETE", "NEED_COPYIN", "COPYOUT"},
           NEW from \in PageRef, NEW n \in 0 .. MaxCopy, Answered(flags, from, n)
    PROVE  /\ block' \in [Blocks -> Block]
           /\ block'[Running] = [Request EXCEPT !.result = flags, !.copybuf = from, !.copylen = n]
           /\ \A b \in Blocks \ {Running} : block'[b] = block[b]
<1>1. Running \in Blocks /\ block \in [Blocks -> Block]
  BY RunningIsBlock DEF Types
<1>2. block' = [block EXCEPT ![Running] =
                    [@ EXCEPT !.result = flags, !.copybuf = from, !.copylen = n]]
  BY <1>1 DEF Answered, Block
<1>3. [Request EXCEPT !.result = flags, !.copybuf = from, !.copylen = n] \in Block
  BY <1>1 DEF Request, Block
<1> QED BY <1>1, <1>2, <1>3 DEF Request
-----------------------------------------------------------------------------
(* Types. *)

LEMMA NothingType == Nothing \in PageRef
BY DEF Nothing, PageRef, Areas

LEMMA AreaSize == \A a \in Areas : Size[a] \in 0 .. MaxCopy /\ <<a, 0>> \in PageRef
BY PbiAssumption DEF Areas, PageRef

LEMMA InitTypes == Init => Types
<1> SUFFICES ASSUME Init PROVE Types
  OBVIOUS
<1> USE PbiAssumption, NothingType
<1>1. block \in [Blocks -> Block]
  BY DEF Init, Block, Commands
<1>2. window \in Seq(PageRef) /\ Len(window) = MaxCopy
  <2>1. window \in [1 .. MaxCopy -> PageRef]
    BY DEF Init
  <2> QED BY <2>1
<1>3. screenMem \in [0 .. 3 * MaxCopy - 1 -> PageRef]
  BY DEF Init
<1>4. screenMemMapped \in BOOLEAN /\ seen \in BOOLEAN
      /\ irq \in BOOLEAN /\ deferred \in BOOLEAN /\ asked \in BOOLEAN
  BY DEF Init
<1>5. /\ pc \in [Blocks -> {"idle", "enter", "stack", "check"}]
      /\ requests \in 0 .. MaxRequests /\ ticks \in 0 .. MaxTicks
      /\ core0 \in {"poll", "detached", "attached"}
      /\ numPages \in ScreenSizes
  BY DEF Init
<1> QED BY <1>1, <1>2, <1>3, <1>4, <1>5 DEF Types

(* The commands of the 6502 leave an answer, a window and a type. *)
LEMMA ExecuteTypes ==
    ASSUME Types, Execute
    PROVE  /\ \E flags \in SUBSET {"COMPLETE", "NEED_COPYIN", "COPYOUT"},
                 from \in PageRef, n \in 0 .. MaxCopy : Answered(flags, from, n)
           /\ window' \in Seq(PageRef) /\ Len(window') = MaxCopy
           /\ irq' \in BOOLEAN /\ deferred' \in BOOLEAN /\ asked' \in BOOLEAN
           /\ ticks' = ticks
<1>1. /\ Size["buffer"] \in 0 .. MaxCopy /\ Size["name"] \in 0 .. MaxCopy
      /\ Size["text"] \in 0 .. MaxCopy
      /\ <<"buffer", 0>> \in PageRef /\ <<"name", 0>> \in PageRef /\ <<"text", 0>> \in PageRef
      /\ <<"sector", 0>> \in PageRef
  BY AreaSize DEF Areas, PageRef
<1>2. Request.copybuf \in PageRef /\ Request.copylen \in 0 .. MaxCopy
  BY RunningIsBlock DEF Types, Block, Request
<1>3. CASE WriteSector
  <2>1. \/ NeedCopyIn(<<"buffer", 0>>, Size["buffer"])
        \/ Answered({"COMPLETE"}, <<"buffer", 0>>, Size["buffer"])
    BY <1>3 DEF WriteSector
  <2>2. UNCHANGED <<window, line>>
    BY <1>3 DEF WriteSector
  <2> QED BY <1>1, <2>1, <2>2 DEF NeedCopyIn, Types, line
<1>4. CASE ReadSector
  <2>1. \/ Answered({"COPYOUT"}, <<"buffer", 0>>, Size["buffer"])
        \/ Answered({"COMPLETE"}, <<"buffer", 0>>, Size["buffer"])
    BY <1>4 DEF ReadSector
  <2>2. window' \in Seq(PageRef) /\ Len(window') = MaxCopy
    <3>1. CASE UNCHANGED window
      BY <3>1 DEF Types
    <3>2. CASE window' = Pages(<<"sector", 0>>, Size["buffer"])
                            \o SubSeq(window, Size["buffer"] + 1, MaxCopy)
      BY <1>1, <3>2, Fill
    <3> QED BY <1>4, <3>1, <3>2 DEF ReadSector
  <2>3. UNCHANGED line
    BY <1>4 DEF ReadSector
  <2> QED BY <1>1, <2>1, <2>2, <2>3 DEF Types, line
<1>5. CASE OpenDump
  <2>1. \/ NeedCopyIn(<<"name", 0>>, Size["name"]) \/ NeedCopyIn(<<"text", 0>>, Size["text"])
        \/ Answer("COMPLETE")
    BY <1>5 DEF OpenDump
  <2>2. UNCHANGED <<window, line>>
    BY <1>5 DEF OpenDump
  <2> QED BY <1>1, <1>2, <2>1, <2>2 DEF NeedCopyIn, Answer, Types, line
<1>6. CASE Nop
  BY <1>2, <1>6 DEF Nop, Answer, Types, line
<1>7. CASE Interrupt
  BY <1>2, <1>7 DEF Interrupt, Answer, Types
<1> QED BY <1>3, <1>4, <1>5, <1>6, <1>7 DEF Execute
LEMMA MinOfTwo ==
    ASSUME NEW a \in Int, NEW b \in Int
    PROVE  Min({a, b}) = IF a <= b THEN a ELSE b
BY DEF Min

(* A chunk is stored inside the copy's memory, or beside it. *)
LEMMA StoreTypes ==
    ASSUME Types, StoreChunk
    PROVE  screenMem' \in [0 .. 3 * MaxCopy - 1 -> PageRef]
<1>1. MaxCopy \in Nat /\ Offset \in Nat /\ Request.copylen \in 0 .. MaxCopy
  BY PbiAssumption, RunningIsBlock DEF Types, Block, PageRef, Request, Offset
<1>2. ASSUME NEW i \in 0 .. 3 * MaxCopy - 1, i \in Offset .. NextAt - 1
      PROVE  window[i - Offset + 1] \in PageRef
  <2>1. i - Offset + 1 \in 1 .. MaxCopy
    BY <1>1, <1>2 DEF NextAt
  <2> QED BY <1>1, <2>1 DEF Types
<1>3. DOMAIN screenMem = 0 .. 3 * MaxCopy - 1
  BY DEF Types
<1>4. \A i \in 0 .. 3 * MaxCopy - 1 : screenMem[i] \in PageRef
  BY DEF Types
<1> QED BY <1>2, <1>3, <1>4 DEF StoreChunk

(* A chunk asked for fits in the window. *)
LEMMA ChunkFits ==
    ASSUME Types
    PROVE  /\ <<"screen", 0>> \in PageRef /\ Min({MaxCopy, numPages}) \in 0 .. MaxCopy
           /\ <<"screen", NextAt>> \in PageRef
           /\ NextAt < numPages => Min({MaxCopy, numPages - Offset}) \in 0 .. MaxCopy
<1>1. /\ MaxCopy \in Nat /\ Offset \in Nat /\ Request.copylen \in 0 .. MaxCopy
      /\ numPages \in Nat
  BY PbiAssumption, RunningIsBlock DEF Types, Block, PageRef, Request, Offset
<1>2. NextAt \in Nat /\ Offset <= NextAt
  BY <1>1 DEF NextAt
<1>3. Min({MaxCopy, numPages}) = IF MaxCopy <= numPages THEN MaxCopy ELSE numPages
  BY <1>1, MinOfTwo
<1>4. Min({MaxCopy, numPages - Offset})
        = IF MaxCopy <= numPages - Offset THEN MaxCopy ELSE numPages - Offset
  BY <1>1, MinOfTwo
<1> QED BY <1>1, <1>2, <1>3, <1>4 DEF PageRef

(* Whatever core0 runs, one answer is left in the block. *)
LEMMA HandleTypes ==
    ASSUME Types, Handle
    PROVE  /\ \E flags \in SUBSET {"COMPLETE", "NEED_COPYIN", "COPYOUT"},
                 from \in PageRef, n \in 0 .. MaxCopy : Answered(flags, from, n)
           /\ window' \in Seq(PageRef) /\ Len(window') = MaxCopy
           /\ screenMem' \in [0 .. 3 * MaxCopy - 1 -> PageRef]
           /\ screenMemMapped' \in BOOLEAN
           /\ irq' \in BOOLEAN /\ deferred' \in BOOLEAN /\ asked' \in BOOLEAN
           /\ ticks' = ticks
<1>1. CASE AskForScreen
  <2>1. UNCHANGED <<screen, window, line>>
    BY <1>1 DEF AskForScreen
  <2> QED BY <1>1, <2>1, ChunkFits DEF AskForScreen, NeedCopyIn, Types, screen, line
<1>2. CASE NextChunk
  <2>1. UNCHANGED <<screenMemMapped, window, line>> /\ StoreChunk /\ NextAt < numPages
    BY <1>2 DEF NextChunk
  <2> QED BY <1>2, <2>1, ChunkFits, StoreTypes DEF NextChunk, NeedCopyIn, Types, line
<1>3. CASE LastChunk
  BY <1>3, ExecuteTypes, StoreTypes DEF LastChunk
<1>4. CASE Execute /\ screenMemMapped' = TRUE /\ UNCHANGED screenMem
  BY <1>4, ExecuteTypes DEF Types
<1> QED BY <1>1, <1>2, <1>3, <1>4 DEF Handle

(* The 6502 stores a command, or it or core0 the request: no more changes. *)
LEMMA CommandIs ==
    ASSUME Types, NEW b \in Blocks, NEW c \in Commands \cup {"irq"},
           block' = [block EXCEPT ![b].cmd = c]
    PROVE  /\ block' \in [Blocks -> Block]
           /\ block'[b] = [block[b] EXCEPT !.cmd = c]
           /\ \A d \in Blocks \ {b} : block'[d] = block[d]
<1>1. block[b] \in Block /\ block \in [Blocks -> Block]
  BY DEF Types
<1>2. [block[b] EXCEPT !.cmd = c] \in Block
  BY <1>1 DEF Block
<1>3. block' = [block EXCEPT ![b] = [block[b] EXCEPT !.cmd = c]]
  BY <1>1
<1> HIDE DEF Block
<1> QED BY <1>1, <1>2, <1>3

LEMMA RequestIs ==
    ASSUME Types, NEW b \in Blocks, NEW f \in SUBSET (Flags \cup {"COPYIN"}),
           block' = [block EXCEPT ![b].req = f]
    PROVE  /\ block' \in [Blocks -> Block]
           /\ block'[b] = [block[b] EXCEPT !.req = f]
           /\ \A d \in Blocks \ {b} : block'[d] = block[d]
<1>1. block[b] \in Block /\ block \in [Blocks -> Block]
  BY DEF Types
<1>2. [block[b] EXCEPT !.req = f] \in Block
  BY <1>1 DEF Block
<1>3. block' = [block EXCEPT ![b] = [block[b] EXCEPT !.req = f]]
  BY <1>1
<1> QED BY <1>1, <1>2, <1>3

(* Every step keeps the types. *)
LEMMA StepTypes == Types /\ [Next]_vars => Types'
<1> SUFFICES ASSUME Types, [Next]_vars PROVE Types'
  OBVIOUS
<1> USE RunningIsBlock
<1>1. ASSUME NEW c \in Commands, Enter(c) PROVE Types'
  <2>1. block' \in [Blocks -> Block]
    BY <1>1, CommandIs DEF Enter, Blocks
  <2>2. pc' \in [Blocks -> {"idle", "enter", "stack", "check"}]
    BY <1>1 DEF Enter, Goto, Types
  <2>3. requests' \in 0 .. MaxRequests
    BY <1>1, PbiAssumption DEF Enter, Types
  <2> QED BY <1>1, <2>1, <2>2, <2>3 DEF Enter, Types, memory, screen, line
<1>2. CASE TakeInterrupt
  <2>1. block' \in [Blocks -> Block]
    BY <1>2, CommandIs DEF TakeInterrupt, Blocks
  <2>2. pc' \in [Blocks -> {"idle", "enter", "stack", "check"}]
    BY <1>2 DEF TakeInterrupt, Types
  <2> QED BY <1>2, <2>1, <2>2 DEF TakeInterrupt, Types, memory, screen, line
<1>3. CASE Issue
  <2>1. block' \in [Blocks -> Block]
    BY <1>3, RequestIs DEF Issue
  <2>2. pc' \in [Blocks -> {"idle", "enter", "stack", "check"}]
    BY <1>3 DEF Issue, Goto, Types
  <2> QED BY <1>3, <2>1, <2>2 DEF Issue, Types, memory, screen, line
<1>4. CASE DummyWrite
  BY <1>4 DEF DummyWrite, Types, memory, screen, line
<1>5. CASE LeaveStack
  <2>1. pc' \in [Blocks -> {"idle", "enter", "stack", "check"}]
    BY <1>5 DEF LeaveStack, Goto, Types
  <2> QED BY <1>5, <2>1 DEF LeaveStack, Types, memory, screen, line
<1>6. CASE CopyIn
  <2>1. block' \in [Blocks -> Block]
    BY <1>6, RequestIs DEF CopyIn
  <2>2. pc' \in [Blocks -> {"idle", "enter", "stack", "check"}]
    BY <1>6 DEF CopyIn, Goto, Types
  <2>3. window' \in Seq(PageRef) /\ Len(window') = MaxCopy
    <3>1. Request.copybuf \in PageRef /\ Request.copylen \in 0 .. MaxCopy
      BY DEF Types, Block, Request
    <3> QED BY <1>6, <3>1, Fill DEF CopyIn
  <2> QED BY <1>6, <2>1, <2>2, <2>3 DEF CopyIn, Types, memory, screen, line
<1>7. CASE CopyOut
  <2>1. pc' \in [Blocks -> {"idle", "enter", "stack", "check"}]
    BY <1>7 DEF CopyOut, Goto, Types
  <2> QED BY <1>7, <2>1 DEF CopyOut, Types, memory, screen, line
<1>8. CASE Complete
  <2>1. pc' \in [Blocks -> {"idle", "enter", "stack", "check"}]
    BY <1>8 DEF Complete, Goto, Types
  <2> QED BY <1>8, <2>1 DEF Complete, Types, memory, screen, line
<1>9. CASE Handle
  <2>1. block' \in [Blocks -> Block]
    BY <1>9, HandleTypes, AnsweredIs
  <2>2. UNCHANGED <<pc, requests, seen, memory>> /\ core0' = "detached"
    BY <1>9 DEF Handle
  <2> QED BY <1>9, <2>1, <2>2, HandleTypes DEF Types, memory
<1>10. CASE Attach
  BY <1>10 DEF Attach, Types, memory, screen, line
<1>11. CASE Release
  <2>1. block' \in [Blocks -> Block]
    <3>1. block' = [block EXCEPT ![Running].req = {}]
      BY <1>11 DEF Release
    <3>2. {} \in SUBSET (Flags \cup {"COPYIN"})
      OBVIOUS
    <3> QED BY <3>1, <3>2, RequestIs
  <2> QED BY <1>11, <2>1 DEF Release, Types, memory, screen, line
<1>12. ASSUME raiseInterrupt PROVE irq' \in BOOLEAN /\ deferred' \in BOOLEAN
  BY <1>12 DEF raiseInterrupt, Types
<1>13. CASE TickPasses
  <2>1. ticks' \in 0 .. MaxTicks
    BY <1>13, PbiAssumption DEF TickPasses, Types
  <2> QED BY <1>12, <1>13, <2>1 DEF TickPasses, Types, memory, screen
<1>14. CASE RaiseDeferred
  BY <1>12, <1>14 DEF RaiseDeferred, Types, memory, screen
<1>15. CASE UNCHANGED vars
  BY <1>15 DEF vars, Types, memory, screen, line
<1> QED BY <1>1, <1>2, <1>3, <1>4, <1>5, <1>6, <1>7, <1>8, <1>9, <1>10, <1>11, <1>13,
           <1>14, <1>15 DEF Next, Cpu, Core0

(* Core0's answer leaves the command and the request as they are. *)
LEMMA HandleAnswers ==
    ASSUME Types, Handle
    PROVE  /\ \A b \in Blocks : block'[b].req = block[b].req /\ block'[b].cmd = block[b].cmd
           /\ \A b \in Blocks \ {Running} : block'[b] = block[b]
<1>1. PICK flags \in SUBSET {"COMPLETE", "NEED_COPYIN", "COPYOUT"},
           from \in PageRef, n \in 0 .. MaxCopy : Answered(flags, from, n)
  BY HandleTypes
<1>2. /\ block'[Running] = [Request EXCEPT !.result = flags, !.copybuf = from, !.copylen = n]
      /\ \A b \in Blocks \ {Running} : block'[b] = block[b]
  BY <1>1, AnsweredIs
<1>3. Request \in Block /\ Running \in Blocks
  BY RunningIsBlock DEF Types, Request
<1>4. block'[Running].req = Request.req /\ block'[Running].cmd = Request.cmd
  BY <1>2, <1>3 DEF Block
<1> QED BY <1>2, <1>3, <1>4 DEF Request

(* TypeOK, for every value of the constants: the program counters, the     *)
(* blocks the 6502 and core0 write, and the window of 1K, which is filled  *)
(* in chunks and never grows (pbi.cpp:240-259, pbirom.asm COPYIN).         *)
THEOREM TypesAlways == Spec => []TypeOK
<1>1. Types => TypeOK
  BY DEF Types, TypeOK, Block
<1> QED BY <1>1, InitTypes, StepTypes, PTL DEF Spec

-----------------------------------------------------------------------------
(* The 6502 is parked. *)

Park ==
    /\ pc["isr"] # "idle" => pc["main"] \in {"idle", "enter"}
    /\ \A b \in Blocks : block[b].req # {} => pc[b] = "stack"
    /\ ParkedWhileHandled

LEMMA InitPark == Init => Park
BY DEF Init, Park, ParkedWhileHandled, Blocks

(* A step of the 6502's routine, with its block's request as it was or set *)
(* on the way into the stack program, and core0 polling before and after.  *)
LEMMA GoPark ==
    ASSUME Types, Park, core0 = "poll", core0' = core0,
           NEW here \in {"idle", "enter", "check"},
           NEW there \in {"idle", "enter", "stack"}, Goto(here, there),
           here = "idle" => Running = "main",
           \A b \in Blocks : block'[b].req # block[b].req => b = Running /\ there = "stack"
    PROVE  Park'
<1>1. pc \in [Blocks -> {"idle", "enter", "stack", "check"}] /\ Running \in Blocks
  BY RunningIsBlock DEF Types
<1>2. /\ pc[Running] = here /\ pc'[Running] = there
      /\ \A b \in Blocks \ {Running} : pc'[b] = pc[b]
  BY <1>1 DEF Goto
<1>3. pc'["isr"] # "idle" => pc'["main"] \in {"idle", "enter"}
  BY <1>1, <1>2 DEF Park, Running, Blocks
<1>4. ASSUME NEW b \in Blocks, block'[b].req # {} PROVE pc'[b] = "stack"
  <2>1. CASE block'[b].req # block[b].req
    BY <1>2, <2>1
  <2>2. CASE block'[b].req = block[b].req
    BY <1>1, <1>2, <1>4, <2>2 DEF Park
  <2> QED BY <2>1, <2>2
<1> QED BY <1>3, <1>4 DEF Park, ParkedWhileHandled

LEMMA StepPark == Types /\ Park /\ [Next]_vars => Park'
<1> SUFFICES ASSUME Types, Park, [Next]_vars PROVE Park'
  OBVIOUS
<1> USE RunningIsBlock
<1>0. ASSUME pc[Running] # "stack" PROVE core0 = "poll"
  BY <1>0 DEF Park, ParkedWhileHandled
<1>1. ASSUME NEW c \in Commands, Enter(c) PROVE Park'
  <2>1. \A b \in Blocks : block'[b].req = block[b].req
    <3>1. \A b \in Blocks : block[b] \in Block
      BY DEF Types
    <3> QED BY <1>1, <3>1, CommandIs DEF Enter, Block, Blocks
  <2>2. Goto("idle", "enter") /\ Running = "main" /\ core0' = core0
    BY <1>1 DEF Enter
  <2>3. core0 = "poll"
    BY <1>0, <2>2 DEF Goto
  <2> QED BY <2>1, <2>2, <2>3, GoPark
<1>2. CASE TakeInterrupt
  <2>1. \A b \in Blocks : block'[b].req = block[b].req
    <3>1. \A b \in Blocks : block[b] \in Block
      BY DEF Types
    <3> QED BY <1>2, <3>1, CommandIs DEF TakeInterrupt, Block, Blocks
  <2>2. /\ pc["isr"] = "idle" /\ pc["main"] \in {"idle", "enter"} /\ core0' = core0
        /\ pc' = [pc EXCEPT !["isr"] = "enter"]
    BY <1>2 DEF TakeInterrupt, InterruptsOn
  <2>3. core0 = "poll"
    BY <1>0, <2>2 DEF Running
  <2>4. pc'["main"] = pc["main"] /\ pc'["isr"] = "enter"
    BY <2>2 DEF Types, Blocks
  <2> QED BY <2>1, <2>2, <2>3, <2>4 DEF Park, ParkedWhileHandled, Blocks
<1>3. CASE Issue
  <2>1. \A b \in Blocks \ {Running} : block'[b] = block[b]
    BY <1>3, RequestIs DEF Issue
  <2>2. Goto("enter", "stack") /\ core0' = core0
    BY <1>3 DEF Issue
  <2>3. core0 = "poll"
    BY <1>0, <2>2 DEF Goto
  <2> QED BY <2>1, <2>2, <2>3, GoPark
<1>4. CASE DummyWrite
  BY <1>4 DEF DummyWrite, Park, ParkedWhileHandled, Request, Running
<1>5. CASE LeaveStack
  <2>1. Goto("stack", "check") /\ Request.req = {} /\ UNCHANGED <<block, core0>>
    BY <1>5 DEF LeaveStack
  <2>2. core0 = "poll"
    BY <2>1 DEF Park, ParkedWhileHandled
  <2>3. /\ pc[Running] = "stack" /\ pc'[Running] = "check"
        /\ \A b \in Blocks \ {Running} : pc'[b] = pc[b]
    BY <2>1 DEF Goto, Types
  <2>4. pc'["isr"] # "idle" => pc'["main"] \in {"idle", "enter"}
    BY <2>3 DEF Park, Running, Blocks
  <2>5. \A b \in Blocks : block'[b].req # {} => pc'[b] = "stack"
    BY <2>1, <2>3 DEF Park, Request
  <2> QED BY <2>1, <2>2, <2>4, <2>5 DEF Park, ParkedWhileHandled
<1>6. CASE CopyIn
  <2>1. \A b \in Blocks \ {Running} : block'[b] = block[b]
    BY <1>6, RequestIs DEF CopyIn
  <2>2. Goto("check", "stack") /\ core0' = core0
    BY <1>6 DEF CopyIn
  <2>3. core0 = "poll"
    BY <1>0, <2>2 DEF Goto
  <2> QED BY <2>1, <2>2, <2>3, GoPark
<1>7. CASE CopyOut \/ Complete
  <2>1. Goto("check", "idle") /\ UNCHANGED <<core0, block>>
    BY <1>7 DEF CopyOut, Complete
  <2>2. core0 = "poll"
    BY <1>0, <2>1 DEF Goto
  <2> QED BY <2>1, <2>2, GoPark
<1>8. CASE Handle
  <2>1. UNCHANGED pc /\ Request.req # {}
    BY <1>8 DEF Handle
  <2>2. \A b \in Blocks : block'[b].req = block[b].req
    BY <1>8, HandleAnswers
  <2> QED BY <2>1, <2>2 DEF Park, ParkedWhileHandled, Request, Running
<1>9. CASE Attach
  BY <1>9 DEF Attach, Park, ParkedWhileHandled, Request, Running
<1>10. CASE Release
  <2>1. block' = [block EXCEPT ![Running].req = {}] /\ UNCHANGED pc /\ core0' = "poll"
    BY <1>10 DEF Release
  <2>2. /\ block'[Running] = [block[Running] EXCEPT !.req = {}]
        /\ \A d \in Blocks \ {Running} : block'[d] = block[d]
    <3>1. {} \in SUBSET (Flags \cup {"COPYIN"})
      OBVIOUS
    <3> QED BY <2>1, <3>1, RequestIs
  <2>3. block'[Running].req = {}
    BY <2>2 DEF Types, Block
  <2> QED BY <2>1, <2>2, <2>3 DEF Park, ParkedWhileHandled
<1>11. CASE TickPasses \/ RaiseDeferred \/ UNCHANGED vars
  BY <1>11 DEF TickPasses, RaiseDeferred, vars, Park, ParkedWhileHandled, Request, Running
<1> QED BY <1>1, <1>2, <1>3, <1>4, <1>5, <1>6, <1>7, <1>8, <1>9, <1>10, <1>11
        DEF Next, Cpu, Core0

(* ParkedWhileHandled: whatever requests and interrupts come in what       *)
(* order, the 6502 is in the stack program of the block that core0 works   *)
(* on, from the time it is taken up until it is given back                 *)
(* (pbi.cpp:605-680).                                                      *)
THEOREM ParkedAlways == Spec => []ParkedWhileHandled
<1>1. Park => ParkedWhileHandled
  BY DEF Park
<1> QED BY <1>1, InitTypes, StepTypes, InitPark, StepPark, PTL DEF Spec

-----------------------------------------------------------------------------
(* The data. *)

(* b was handled and the 6502 has not acted on the answer; b comes again   *)
(* with the window filled.                                                 *)
Handled(b) == \/ pc[b] = "check"
              \/ pc[b] = "stack" /\ (block[b].req = {} \/ core0 # "poll")
Copied(b)  == pc[b] = "stack" /\ core0 = "poll" /\ "COPYIN" \in block[b].req
UnderWay(b) == Handled(b) \/ Copied(b)

Holds(from, n) == \A i \in 1 .. n : window[i] = <<from[1], from[2] + i - 1>>

(* The window holds what was asked for. *)
Filled ==
    \A b \in Blocks : Copied(b) =>
        /\ "NEED_COPYIN" \in block[b].result
        /\ Holds(block[b].copybuf, block[b].copylen)

(* Until the screen is mapped, only the screen is asked for, and what lies *)
(* before the chunk asked for is copied.                                   *)
CopyUnderWay ==
    ~screenMemMapped /\ "screen" \in native =>
        \A b \in Blocks : UnderWay(b) =>
            /\ block[b].result = {"NEED_COPYIN"}
            /\ block[b].copybuf[1] = "screen"
            /\ \A i \in 0 .. block[b].copybuf[2] - 1 : screenMem[i] = <<"screen", i>>
            /\ block[b].copybuf[2] < numPages

NoCopy ==
    ~screenMemMapped /\ "screen" \notin native =>
        \A i \in DOMAIN screenMem : screenMem[i] = Nothing

ScreenInv == Filled /\ CopyUnderWay /\ NoCopy /\ ScreenIsCopied

LEMMA InitScreen == Init => ScreenInv
BY DEF Init, ScreenInv, Filled, CopyUnderWay, NoCopy, ScreenIsCopied, UnderWay, Handled, Copied,
       Blocks

(* Only the block of the routine that runs is under way. *)
LEMMA OnlyRunning ==
    ASSUME Park, NEW b \in Blocks, pc[b] \in {"stack", "check"}
    PROVE  b = Running
BY DEF Park, Running, Blocks

(* Core0 takes up a request that came with COPYIN: its block is Copied. *)
LEMMA TakenUp ==
    ASSUME Types, Park, Handle
    PROVE  /\ pc[Running] = "stack" /\ core0 = "poll" /\ Running' = Running
           /\ "COPYIN" \in Request.req => Copied(Running)
           /\ \A b \in Blocks : UnderWay(b)' => b = Running
<1>1. Request.req # {} /\ core0 = "poll" /\ UNCHANGED pc
  BY DEF Handle
<1>2. pc[Running] = "stack"
  BY <1>1, RunningIsBlock DEF Park, Request
<1>3. \A b \in Blocks : UnderWay(b)' => pc[b] \in {"stack", "check"}
  BY <1>1 DEF UnderWay, Handled, Copied
<1> QED BY <1>1, <1>2, <1>3, OnlyRunning DEF Copied, Request, Running

(* What a step other than core0's work leaves: a request that is under way *)
(* was, with the same answer, and only CopyIn fills the window.            *)
LEMMA Kept ==
    ASSUME Types, Park, [Next]_vars, ~Handle
    PROVE  /\ \A b \in Blocks : UnderWay(b)' =>
                /\ UnderWay(b)
                /\ block'[b].result = block[b].result /\ block'[b].cmd = block[b].cmd
                /\ block'[b].copybuf = block[b].copybuf
                /\ block'[b].copylen = block[b].copylen
           /\ \A b \in Blocks : Handled(b)' => Handled(b)
           /\ UNCHANGED <<native, numPages, screen, name>>
           /\ \/ window' = window /\ \A b \in Blocks : Copied(b)' => Copied(b)
              \/ CopyIn
<1> USE RunningIsBlock
<1>0. \A b \in Blocks : block[b] \in Block
  BY DEF Types
<1>1. ASSUME NEW c \in Commands, Enter(c)
      PROVE  /\ \A b \in Blocks : UnderWay(b)' =>
                    UnderWay(b) /\ block'[b] = block[b]
             /\ \A b \in Blocks : Handled(b)' => Handled(b)
             /\ \A b \in Blocks : Copied(b)' => Copied(b)
             /\ window' = window /\ UNCHANGED <<native, numPages, screen, name>>
  <2>1. /\ pc'["main"] = "enter" /\ pc'["isr"] = pc["isr"] /\ core0' = core0
        /\ block'["isr"] = block["isr"]
    BY <1>1, CommandIs DEF Enter, Goto, Types, Blocks
  <2>2. window' = window /\ UNCHANGED <<native, numPages, screen, name>>
    BY <1>1 DEF Enter, memory
  <2> QED BY <2>1, <2>2 DEF UnderWay, Handled, Copied, Blocks
<1>2. ASSUME TakeInterrupt
      PROVE  /\ \A b \in Blocks : UnderWay(b)' =>
                    UnderWay(b) /\ block'[b] = block[b]
             /\ \A b \in Blocks : Handled(b)' => Handled(b)
             /\ \A b \in Blocks : Copied(b)' => Copied(b)
             /\ window' = window /\ UNCHANGED <<native, numPages, screen, name>>
  <2>1. /\ pc'["isr"] = "enter" /\ pc'["main"] = pc["main"] /\ core0' = core0
        /\ block'["main"] = block["main"]
    BY <1>2, CommandIs DEF TakeInterrupt, Types, Blocks
  <2>2. window' = window /\ UNCHANGED <<native, numPages, screen, name>>
    BY <1>2 DEF TakeInterrupt, memory
  <2> QED BY <2>1, <2>2 DEF UnderWay, Handled, Copied, Blocks
<1>3. ASSUME Issue
      PROVE  /\ \A b \in Blocks : UnderWay(b)' =>
                    UnderWay(b) /\ block'[b] = block[b]
             /\ \A b \in Blocks : Handled(b)' => Handled(b)
             /\ \A b \in Blocks : Copied(b)' => Copied(b)
             /\ window' = window /\ UNCHANGED <<native, numPages, screen, name>>
  <2>1. /\ pc[Running] = "enter" /\ pc'[Running] = "stack" /\ core0' = core0
        /\ \A b \in Blocks \ {Running} : pc'[b] = pc[b]
    BY <1>3 DEF Issue, Goto, Types
  <2>2. /\ block'[Running] = [block[Running] EXCEPT !.req = Flags]
        /\ \A d \in Blocks \ {Running} : block'[d] = block[d]
    BY <1>3, RequestIs DEF Issue
  <2>3. block'[Running].req = Flags
    BY <1>0, <2>2 DEF Block
  <2>4. core0 = "poll"
    BY <2>1 DEF Park, ParkedWhileHandled
  <2>5. ASSUME NEW b \in Blocks, b = Running PROVE ~Handled(b)' /\ ~Copied(b)'
    <3>1. pc'[b] = "stack" /\ core0' = "poll" /\ "COPYIN" \notin Flags /\ Flags # {}
      BY <2>1, <2>4, <2>5 DEF Flags
    <3> QED BY <2>3, <2>5, <3>1 DEF Handled, Copied
  <2>6. ASSUME NEW b \in Blocks \ {Running}
        PROVE  /\ Handled(b)' <=> Handled(b)
               /\ Copied(b)' <=> Copied(b)
               /\ block'[b] = block[b]
    BY <2>1, <2>2 DEF Handled, Copied
  <2>7. ASSUME NEW b \in Blocks
        PROVE  /\ Handled(b)' => (Handled(b) /\ block'[b] = block[b])
               /\ Copied(b)' => (Copied(b) /\ block'[b] = block[b])
    BY <2>5, <2>6
  <2>8. window' = window /\ UNCHANGED <<native, numPages, screen, name>>
    BY <1>3 DEF Issue, memory
  <2> QED BY <2>7, <2>8 DEF UnderWay
<1>4. ASSUME DummyWrite \/ Attach \/ TickPasses \/ RaiseDeferred \/ UNCHANGED vars
      PROVE  /\ \A b \in Blocks : UnderWay(b)' =>
                    UnderWay(b) /\ block'[b] = block[b]
             /\ \A b \in Blocks : Handled(b)' => Handled(b)
             /\ \A b \in Blocks : Copied(b)' => Copied(b)
             /\ window' = window /\ UNCHANGED <<native, numPages, screen, name>>
  <2>1. /\ UNCHANGED <<pc, block, window, memory, screen, name>>
        /\ (core0' = "poll") <=> (core0 = "poll")
    BY <1>4 DEF DummyWrite, Attach, TickPasses, RaiseDeferred, vars
  <2> QED BY <2>1 DEF UnderWay, Handled, Copied, memory
<1>5. ASSUME LeaveStack \/ CopyOut \/ Complete
      PROVE  /\ \A b \in Blocks : UnderWay(b)' =>
                    UnderWay(b) /\ block'[b] = block[b]
             /\ \A b \in Blocks : Handled(b)' => Handled(b)
             /\ \A b \in Blocks : Copied(b)' => Copied(b)
             /\ window' = window /\ UNCHANGED <<native, numPages, screen, name>>
  <2>1. /\ \/ pc'[Running] = "check" /\ Request.req = {} /\ pc[Running] = "stack"
           \/ pc'[Running] = "idle"
        /\ \A b \in Blocks \ {Running} : pc'[b] = pc[b]
        /\ UNCHANGED <<block, window, core0, memory, screen, name>>
    BY <1>5 DEF LeaveStack, CopyOut, Complete, Goto, Types
  <2>2. \A b \in Blocks : (Handled(b)' => Handled(b)) /\ (Copied(b)' => Copied(b))
    BY <2>1 DEF Handled, Copied, Request
  <2> QED BY <2>1, <2>2 DEF UnderWay, memory
<1>6. ASSUME CopyIn
      PROVE  /\ \A b \in Blocks : UnderWay(b)' =>
                    /\ UnderWay(b)
                    /\ block'[b].result = block[b].result /\ block'[b].cmd = block[b].cmd
                    /\ block'[b].copybuf = block[b].copybuf
                    /\ block'[b].copylen = block[b].copylen
             /\ \A b \in Blocks : Handled(b)' => Handled(b)
             /\ UNCHANGED <<native, numPages, screen, name>>
  <2>1. /\ pc[Running] = "check" /\ pc'[Running] = "stack" /\ core0' = core0
        /\ \A b \in Blocks \ {Running} : pc'[b] = pc[b]
    BY <1>6 DEF CopyIn, Goto, Types
  <2>2. /\ block'[Running] = [block[Running] EXCEPT !.req = Flags \cup {"COPYIN"}]
        /\ \A d \in Blocks \ {Running} : block'[d] = block[d]
    BY <1>6, RequestIs DEF CopyIn
  <2>3. UnderWay(Running) /\ Handled(Running)
    BY <2>1 DEF UnderWay, Handled
  <2>4. \A b \in Blocks \ {Running} : (Handled(b)' <=> Handled(b)) /\ (Copied(b)' <=> Copied(b))
    BY <2>1, <2>2 DEF Handled, Copied
  <2>5. /\ block'[Running].result = block[Running].result
        /\ block'[Running].cmd = block[Running].cmd
        /\ block'[Running].copybuf = block[Running].copybuf
        /\ block'[Running].copylen = block[Running].copylen
    BY <1>0, <2>2 DEF Block
  <2>6. UNCHANGED <<native, numPages, screen, name>>
    BY <1>6 DEF CopyIn, memory
  <2> QED BY <2>2, <2>3, <2>4, <2>5, <2>6 DEF UnderWay
<1>7. ASSUME Release
      PROVE  /\ \A b \in Blocks : UnderWay(b)' =>
                    /\ UnderWay(b)
                    /\ block'[b].result = block[b].result /\ block'[b].cmd = block[b].cmd
                    /\ block'[b].copybuf = block[b].copybuf
                    /\ block'[b].copylen = block[b].copylen
             /\ \A b \in Blocks : Handled(b)' => Handled(b)
             /\ \A b \in Blocks : Copied(b)' => Copied(b)
             /\ window' = window /\ UNCHANGED <<native, numPages, screen, name>>
  <2>1. /\ UNCHANGED <<pc, window, memory, screen, name>>
        /\ core0 = "attached" /\ core0' = "poll" /\ pc[Running] = "stack"
    BY <1>7 DEF Release, Park, ParkedWhileHandled
  <2>2. /\ block'[Running] = [block[Running] EXCEPT !.req = {}]
        /\ \A d \in Blocks \ {Running} : block'[d] = block[d]
    <3>1. {} \in SUBSET (Flags \cup {"COPYIN"}) /\ block' = [block EXCEPT ![Running].req = {}]
      BY <1>7 DEF Release
    <3> QED BY <3>1, RequestIs
  <2>3. Handled(Running)
    BY <2>1 DEF Handled
  <2>4. /\ block'[Running].result = block[Running].result
        /\ block'[Running].cmd = block[Running].cmd
        /\ block'[Running].copybuf = block[Running].copybuf
        /\ block'[Running].copylen = block[Running].copylen
        /\ block'[Running].req = {}
    BY <1>0, <2>2 DEF Block
  <2>5. \A b \in Blocks \ {Running} : pc[b] \notin {"stack", "check"}
    BY OnlyRunning
  <2>6. \A b \in Blocks \ {Running} : ~Handled(b)' /\ ~Copied(b)'
    BY <2>1, <2>5 DEF Handled, Copied
  <2>7. \A b \in Blocks : ~Copied(b)'
    BY <2>4, <2>6 DEF Copied
  <2>8. \A b \in Blocks : UnderWay(b)' => b = Running
    BY <2>6, <2>7 DEF UnderWay
  <2>9. \A b \in Blocks : Handled(b)' => Handled(b)
    BY <2>3, <2>6
  <2> QED BY <2>1, <2>3, <2>4, <2>7, <2>8, <2>9 DEF UnderWay, memory
<1> QED BY <1>1, <1>2, <1>3, <1>4, <1>5, <1>6, <1>7 DEF Next, Cpu, Core0

(* A block that the program copies in for holds what was asked for. *)
LEMMA StepFilled == Types /\ Park /\ Filled /\ [Next]_vars => Filled'
<1> SUFFICES ASSUME Types, Park, Filled, [Next]_vars PROVE Filled'
  OBVIOUS
<1>1. CASE Handle
  <2>1. core0' = "detached"
    BY <1>1 DEF Handle
  <2> QED BY <2>1 DEF Filled, Copied
<1>2. CASE ~Handle
  <2>1. /\ \A b \in Blocks : Copied(b)' =>
                /\ block'[b].result = block[b].result
                /\ block'[b].copybuf = block[b].copybuf
                /\ block'[b].copylen = block[b].copylen
        /\ \/ window' = window /\ \A b \in Blocks : Copied(b)' => Copied(b)
           \/ CopyIn
    BY <1>2, Kept DEF UnderWay
  <2>2. CASE window' = window /\ \A b \in Blocks : Copied(b)' => Copied(b)
    BY <2>1, <2>2 DEF Filled, Holds
  <2>3. CASE CopyIn
    <3>1. /\ "NEED_COPYIN" \in Request.result /\ pc[Running] = "check"
          /\ window' = Pages(Request.copybuf, Request.copylen)
                            \o SubSeq(window, Request.copylen + 1, MaxCopy)
          /\ pc' = [pc EXCEPT ![Running] = "stack"]
      BY <2>3 DEF CopyIn, Goto
    <3>2. Request.copybuf \in PageRef /\ Request.copylen \in 0 .. MaxCopy
      BY RunningIsBlock DEF Types, Block, Request
    <3>3. \A i \in 1 .. Request.copylen :
                window'[i] = <<Request.copybuf[1], Request.copybuf[2] + i - 1>>
      <4>1. ASSUME NEW from \in PageRef, NEW n \in 0 .. MaxCopy,
                   window' = Pages(from, n) \o SubSeq(window, n + 1, MaxCopy)
            PROVE  \A i \in 1 .. n : window'[i] = <<from[1], from[2] + i - 1>>
        BY <4>1, Fill, Zenon
      <4> QED BY <3>1, <3>2, <4>1, Zenon
    <3>4. \A b \in Blocks : Copied(b)' => b = Running
      BY <3>1, OnlyRunning DEF Copied, Types
    <3>5. ASSUME NEW b \in Blocks, Copied(b)'
          PROVE  /\ "NEED_COPYIN" \in block'[b].result
                 /\ \A i \in 1 .. block'[b].copylen :
                        window'[i] = <<block'[b].copybuf[1], block'[b].copybuf[2] + i - 1>>
      <4>1. /\ b = Running /\ block'[b].result = Request.result
            /\ block'[b].copybuf = Request.copybuf /\ block'[b].copylen = Request.copylen
        BY <2>1, <3>4, <3>5 DEF Request
      <4> QED BY <3>1, <3>3, <4>1
    <3> QED BY <3>5 DEF Filled, Holds
  <2> QED BY <2>1, <2>2, <2>3
<1> QED BY <1>1, <1>2

LEMMA AnswerFields ==
    ASSUME Types, NEW flags \in SUBSET {"COMPLETE", "NEED_COPYIN", "COPYOUT"},
           NEW from \in PageRef, NEW n \in 0 .. MaxCopy, Answered(flags, from, n)
    PROVE  /\ block'[Running].result = flags /\ block'[Running].copybuf = from
           /\ block'[Running].copylen = n /\ block'[Running].cmd = Request.cmd
<1>1. block'[Running] = [Request EXCEPT !.result = flags, !.copybuf = from, !.copylen = n]
  BY AnsweredIs
<1>2. Request \in Block
  BY RunningIsBlock DEF Types, Request
<1> QED BY <1>1, <1>2 DEF Block

(* A chunk that is stored continues the copy. *)
LEMMA ChunkContinues ==
    ASSUME Types, Park, ScreenInv, Handle, StoreChunk, ~screenMemMapped, "screen" \in native
    PROVE  /\ Offset \in Nat /\ Request.copylen \in Nat /\ Offset < numPages
           /\ \A i \in DOMAIN screenMem' : i < NextAt => screenMem'[i] = <<"screen", i>>
<1>1. Copied(Running) /\ "COPYIN" \in Request.req
  BY TakenUp DEF StoreChunk
<1>2. UnderWay(Running) /\ Running \in Blocks
  BY <1>1, RunningIsBlock DEF UnderWay
<1>3. /\ Request.copybuf[1] = "screen" /\ Offset < numPages
      /\ \A i \in 0 .. Offset - 1 : screenMem[i] = <<"screen", i>>
  BY <1>2 DEF ScreenInv, CopyUnderWay, Request, Offset
<1>4. \A i \in 1 .. Request.copylen : window[i] = <<"screen", Offset + i - 1>>
  BY <1>1, <1>2, <1>3 DEF ScreenInv, Filled, Holds, Request, Offset
<1>5. Offset \in Nat /\ Request.copylen \in Nat
  BY <1>2, PbiAssumption DEF Types, Block, PageRef, Request, Offset
<1>6. DOMAIN screenMem = 0 .. 3 * MaxCopy - 1 /\ DOMAIN screenMem' = DOMAIN screenMem
  BY DEF Types, StoreChunk
<1>7. ASSUME NEW i \in DOMAIN screenMem', i < NextAt PROVE screenMem'[i] = <<"screen", i>>
  <2>1. CASE i \in Offset .. NextAt - 1
    <3>1. screenMem'[i] = window[i - Offset + 1]
      BY <1>6, <2>1 DEF StoreChunk
    <3>2. i - Offset + 1 \in 1 .. Request.copylen
      BY <1>5, <2>1 DEF NextAt
    <3> QED BY <1>4, <1>5, <2>1, <3>1, <3>2 DEF NextAt
  <2>2. CASE i \notin Offset .. NextAt - 1
    <3>1. screenMem'[i] = screenMem[i]
      BY <1>6, <2>2 DEF StoreChunk
    <3>2. i \in 0 .. Offset - 1
      BY <1>5, <1>6, <1>7, <2>2, PbiAssumption DEF NextAt
    <3> QED BY <1>3, <3>1, <3>2
  <2> QED BY <2>1, <2>2
<1> QED BY <1>3, <1>5, <1>7

LEMMA StepScreen == Types /\ Park /\ ScreenInv /\ [Next]_vars => ScreenInv'
<1> SUFFICES ASSUME Types, Park, ScreenInv, [Next]_vars PROVE ScreenInv'
  OBVIOUS
<1>0. Filled'
  BY StepFilled DEF ScreenInv
<1>1. CASE ~Handle
  <2>1. /\ \A b \in Blocks : UnderWay(b)' =>
                /\ UnderWay(b)
                /\ block'[b].result = block[b].result
                /\ block'[b].copybuf = block[b].copybuf
        /\ UNCHANGED <<native, numPages, screenMem, screenMemMapped>>
    BY <1>1, Kept DEF screen
  <2> QED BY <1>0, <2>1 DEF ScreenInv, CopyUnderWay, NoCopy, ScreenIsCopied
<1>2. CASE Handle
  <2>0. /\ \A b \in Blocks : UnderWay(b)' => b = Running
        /\ UNCHANGED <<native, numPages>>
    BY <1>2, TakenUp DEF Handle, memory
  <2>00. numPages \in Nat \ {0} /\ numPages <= 2 * MaxCopy /\ MaxCopy \in Nat
         /\ DOMAIN screenMem = 0 .. 3 * MaxCopy - 1
    BY PbiAssumption DEF Types
  <2>1. CASE ~screenMemMapped /\ "screen" \in native /\ AskForScreen
    <3>1. /\ UNCHANGED <<screenMem, screenMemMapped>>
          /\ Answered({"NEED_COPYIN"}, <<"screen", 0>>, Min({MaxCopy, numPages}))
      BY <2>1 DEF AskForScreen, NeedCopyIn, screen
    <3>2. <<"screen", 0>> \in PageRef /\ Min({MaxCopy, numPages}) \in 0 .. MaxCopy
      BY ChunkFits
    <3>3. block'[Running].result = {"NEED_COPYIN"} /\ block'[Running].copybuf = <<"screen", 0>>
      <4>1. ASSUME NEW n \in 0 .. MaxCopy, Answered({"NEED_COPYIN"}, <<"screen", 0>>, n)
            PROVE  /\ block'[Running].result = {"NEED_COPYIN"}
                   /\ block'[Running].copybuf = <<"screen", 0>>
        BY <3>2, <4>1, AnswerFields
      <4> QED BY <3>1, <3>2, <4>1
    <3>4. CopyUnderWay'
      BY <2>0, <2>00, <3>3 DEF CopyUnderWay
    <3> QED BY <1>0, <2>0, <2>1, <3>1, <3>4 DEF ScreenInv, NoCopy, ScreenIsCopied
  <2>2. CASE ~screenMemMapped /\ "screen" \in native /\ NextChunk
    <3>1. /\ StoreChunk /\ NextAt < numPages /\ UNCHANGED screenMemMapped
          /\ Answered({"NEED_COPYIN"}, <<"screen", NextAt>>, Min({MaxCopy, numPages - Offset}))
      BY <2>2 DEF NextChunk, NeedCopyIn
    <3>2. /\ <<"screen", NextAt>> \in PageRef
          /\ Min({MaxCopy, numPages - Offset}) \in 0 .. MaxCopy
      BY <3>1, ChunkFits
    <3>3. /\ block'[Running].result = {"NEED_COPYIN"}
          /\ block'[Running].copybuf = <<"screen", NextAt>>
      <4>1. ASSUME NEW n \in 0 .. MaxCopy, Answered({"NEED_COPYIN"}, <<"screen", NextAt>>, n)
            PROVE  /\ block'[Running].result = {"NEED_COPYIN"}
                   /\ block'[Running].copybuf = <<"screen", NextAt>>
        BY <3>2, <4>1, AnswerFields
      <4> QED BY <3>1, <3>2, <4>1
    <3>4. /\ \A i \in DOMAIN screenMem' : i < NextAt => screenMem'[i] = <<"screen", i>>
          /\ NextAt \in Nat
      BY <1>2, <2>2, <3>1, ChunkContinues DEF NextAt
    <3>5. DOMAIN screenMem' = DOMAIN screenMem
      BY <3>1 DEF StoreChunk
    <3>6. \A i \in 0 .. NextAt - 1 : screenMem'[i] = <<"screen", i>>
      BY <2>00, <3>1, <3>4, <3>5
    <3>7. CopyUnderWay'
      BY <2>0, <3>1, <3>3, <3>6 DEF CopyUnderWay
    <3> QED BY <1>0, <2>0, <2>2, <3>1, <3>7 DEF ScreenInv, NoCopy, ScreenIsCopied
  <2>3. CASE ~screenMemMapped /\ "screen" \in native /\ LastChunk
    <3>1. StoreChunk /\ NextAt >= numPages /\ screenMemMapped' = TRUE
      BY <2>3 DEF LastChunk
    <3>2. /\ \A i \in DOMAIN screenMem' : i < NextAt => screenMem'[i] = <<"screen", i>>
          /\ NextAt \in Nat
      BY <1>2, <2>3, <3>1, ChunkContinues DEF NextAt
    <3>3. DOMAIN screenMem' = DOMAIN screenMem
      BY <3>1 DEF StoreChunk
    <3>4. \A i \in 0 .. numPages' - 1 : screenMem'[i] = <<"screen", i>>
      BY <2>0, <2>00, <3>1, <3>2, <3>3
    <3> QED BY <1>0, <3>1, <3>4 DEF ScreenInv, CopyUnderWay, NoCopy, ScreenIsCopied
  <2>4. CASE (screenMemMapped \/ "screen" \notin native)
                /\ screenMemMapped' = TRUE /\ UNCHANGED screenMem
    BY <1>0, <2>0, <2>4 DEF ScreenInv, CopyUnderWay, NoCopy, ScreenIsCopied
  <2> QED BY <1>2, <2>1, <2>2, <2>3, <2>4 DEF Handle
<1> QED BY <1>1, <1>2

(* ScreenIsCopied: the copy that core0 works with once the screen is       *)
(* mapped is the screen, chunk after chunk, whatever its size, the window  *)
(* and the requests between which the chunks come (pbi.cpp:240-283).       *)
THEOREM ScreenAlways == Spec => []ScreenIsCopied
<1>1. ScreenInv => ScreenIsCopied
  BY DEF ScreenInv
<1> QED BY <1>1, InitTypes, StepTypes, InitPark, StepPark, InitScreen, StepScreen, PTL DEF Spec

-----------------------------------------------------------------------------
(* A command's memory. *)

(* The name that is kept is the program's; a sector asked for is the       *)
(* caller's buffer; a sector read lies in the window until it is taken.    *)
Data ==
    /\ name = <<>> \/ name = Area("name")
    /\ \A b \in Blocks :
        /\ UnderWay(b) /\ screenMemMapped /\ block[b].cmd = "write"
                /\ "NEED_COPYIN" \in block[b].result =>
            block[b].copybuf = <<"buffer", 0>> /\ block[b].copylen = Size["buffer"]
        /\ Handled(b) /\ "COPYOUT" \in block[b].result =>
            /\ block[b].cmd = "read" /\ block[b].copylen = Size["buffer"]
            /\ Holds(<<"sector", 0>>, Size["buffer"])

LEMMA InitData == Init => Data
BY DEF Init, Data, UnderWay, Handled, Copied, Blocks

(* What a command leaves in the block and the window. *)
LEMMA ExecuteAnswer ==
    ASSUME Types, Execute
    PROVE  /\ block'[Running].cmd = Request.cmd
           /\ Request.cmd = "write" /\ "NEED_COPYIN" \in block'[Running].result =>
                /\ block'[Running].copybuf = <<"buffer", 0>>
                /\ block'[Running].copylen = Size["buffer"]
           /\ "COPYOUT" \in block'[Running].result =>
                /\ Request.cmd = "read" /\ block'[Running].copylen = Size["buffer"]
                /\ \A i \in 1 .. Size["buffer"] : window'[i] = <<"sector", i - 1>>
<1>1. /\ Size["buffer"] \in 0 .. MaxCopy /\ Size["name"] \in 0 .. MaxCopy
      /\ Size["text"] \in 0 .. MaxCopy
      /\ <<"buffer", 0>> \in PageRef /\ <<"name", 0>> \in PageRef /\ <<"text", 0>> \in PageRef
      /\ <<"sector", 0>> \in PageRef
  BY AreaSize DEF Areas, PageRef
<1>2. Request.copybuf \in PageRef /\ Request.copylen \in 0 .. MaxCopy
  BY RunningIsBlock DEF Types, Block, Request
<1>3. ASSUME NEW flags \in SUBSET {"COMPLETE", "NEED_COPYIN", "COPYOUT"},
             NEW from \in PageRef, NEW n \in 0 .. MaxCopy, Answered(flags, from, n)
      PROVE  /\ block'[Running].result = flags /\ block'[Running].copybuf = from
             /\ block'[Running].copylen = n /\ block'[Running].cmd = Request.cmd
  BY <1>3, AnswerFields, Zenon
<1>4. CASE WriteSector
  <2>1. \/ Answered({"NEED_COPYIN"}, <<"buffer", 0>>, Size["buffer"])
        \/ Answered({"COMPLETE"}, <<"buffer", 0>>, Size["buffer"])
    BY <1>4 DEF WriteSector, NeedCopyIn
  <2> QED BY <1>1, <1>3, <2>1
<1>5. CASE ReadSector
  <2>1. Request.cmd = "read"
    BY <1>5 DEF ReadSector
  <2>2. CASE /\ Answered({"COPYOUT"}, <<"buffer", 0>>, Size["buffer"])
             /\ window' = Pages(<<"sector", 0>>, Size["buffer"])
                            \o SubSeq(window, Size["buffer"] + 1, MaxCopy)
    <3>1. ASSUME NEW from \in PageRef, NEW n \in 0 .. MaxCopy,
                 window' = Pages(from, n) \o SubSeq(window, n + 1, MaxCopy)
          PROVE  \A i \in 1 .. n : window'[i] = <<from[1], from[2] + i - 1>>
      BY <3>1, Fill, Zenon
    <3>2. \A i \in 1 .. Size["buffer"] :
                window'[i] = <<<<"sector", 0>>[1], <<"sector", 0>>[2] + i - 1>>
      BY <1>1, <2>2, <3>1, Zenon
    <3>3. \A i \in 1 .. Size["buffer"] : window'[i] = <<"sector", i - 1>>
      BY <1>1, <3>2
    <3> QED BY <1>1, <1>3, <2>1, <2>2, <3>3
  <2>3. CASE Answered({"COMPLETE"}, <<"buffer", 0>>, Size["buffer"])
    BY <1>1, <1>3, <2>1, <2>3
  <2> QED BY <1>5, <2>2, <2>3 DEF ReadSector
<1>6. CASE OpenDump
  <2>1. /\ \/ Answered({"NEED_COPYIN"}, <<"name", 0>>, Size["name"])
           \/ Answered({"NEED_COPYIN"}, <<"text", 0>>, Size["text"])
           \/ Answered({"COMPLETE"}, Request.copybuf, Request.copylen)
        /\ Request.cmd = "dump"
    BY <1>6 DEF OpenDump, NeedCopyIn, Answer
  <2> QED BY <1>1, <1>2, <1>3, <2>1
<1>7. CASE Nop \/ Interrupt
  <2>1. /\ Answered({"COMPLETE"}, Request.copybuf, Request.copylen)
        /\ Request.cmd \in {"none", "irq"}
    BY <1>7 DEF Nop, Interrupt, Answer
  <2> QED BY <1>2, <1>3, <2>1
<1> QED BY <1>4, <1>5, <1>6, <1>7 DEF Execute

(* An area that core0 has is the window's first pages, or its own memory.  *)
LEMMA HaveIs ==
    ASSUME Types, Park, Filled, Handle, NEW a \in Areas, Have(a)
    PROVE  (IF a \in native THEN WindowHas(Size[a]) ELSE Area(a)) = Area(a)
<1> SUFFICES ASSUME a \in native PROVE WindowHas(Size[a]) = Area(a)
  OBVIOUS
<1>1. /\ "COPYIN" \in Request.req
      /\ Request.copybuf = <<a, 0>> /\ Request.copylen >= Size[a]
  BY DEF Have
<1>2. Copied(Running) /\ Running \in Blocks
  BY <1>1, TakenUp, RunningIsBlock
<1>3. \A i \in 1 .. Request.copylen : window[i] = <<<<a, 0>>[1], <<a, 0>>[2] + i - 1>>
  BY <1>1, <1>2 DEF Filled, Holds, Request
<1>4. Size[a] \in 0 .. MaxCopy /\ <<a, 0>> \in PageRef /\ Request.copylen \in 0 .. MaxCopy
  BY <1>2, AreaSize DEF Types, Block, Request
<1>5. \A i \in 1 .. Size[a] : window[i] = <<<<a, 0>>[1], <<a, 0>>[2] + i - 1>>
  BY <1>1, <1>3, <1>4, PbiAssumption
<1>6. WindowHas(Size[a]) = Pages(<<a, 0>>, Size[a])
  BY <1>4, <1>5, Has
<1> QED BY <1>6 DEF Area

(* The command keeps a right name, and works on the memory it names. *)
LEMMA ExecuteTakes ==
    ASSUME Types, Park, Filled, Data, Handle, Execute
    PROVE  /\ name' = <<>> \/ name' = Area("name")
           /\ taken' # taken /\ (Request.cmd = "write" => screenMemMapped) =>
                taken' = Named(Request.cmd)
<1>1. CASE WriteSector
  <2>1. UNCHANGED name /\ Request.cmd = "write"
    BY <1>1 DEF WriteSector
  <2>2. ASSUME taken' # taken, screenMemMapped PROVE taken' = Area("buffer")
    <3>1. CASE "buffer" \notin native
      BY <1>1, <2>2, <3>1 DEF WriteSector
    <3>2. CASE "buffer" \in native
      <4>1. "COPYIN" \in Request.req /\ taken' = WindowHas(Size["buffer"])
        BY <1>1, <2>2, <3>2 DEF WriteSector
      <4>2. Copied(Running) /\ Running \in Blocks
        BY <4>1, TakenUp, RunningIsBlock
      <4>3. "NEED_COPYIN" \in Request.result
        BY <4>2 DEF Filled, Request
      <4>4. Request.copybuf = <<"buffer", 0>> /\ Request.copylen = Size["buffer"]
        BY <2>1, <2>2, <4>2, <4>3 DEF Data, UnderWay, Request
      <4>5. Size["buffer"] \in 0 .. MaxCopy
        BY AreaSize DEF Areas
      <4>6. Have("buffer")
        BY <4>1, <4>4, <4>5, PbiAssumption DEF Have
      <4> QED BY <3>2, <4>1, <4>6, HaveIs DEF Areas
    <3> QED BY <3>1, <3>2
  <2> QED BY <2>1, <2>2 DEF Data, Named
<1>2. CASE ReadSector
  <2>1. UNCHANGED name /\ Request.cmd = "read"
        /\ (taken' # taken => taken' = Pages(<<"sector", 0>>, Size["buffer"]))
    BY <1>2 DEF ReadSector
  <2> QED BY <2>1 DEF Data, Named
<1>3. CASE OpenDump
  <2> DEFINE named == IF name # <<>> THEN name
                      ELSE IF "name" \in native THEN WindowHas(Size["name"])
                      ELSE Area("name")
  <2>1. ASSUME name # <<>> \/ Have("name") PROVE named = Area("name")
    <3>1. CASE name # <<>>
      BY <3>1 DEF Data
    <3>2. CASE name = <<>>
      BY <2>1, <3>2, HaveIs DEF Areas
    <3> QED BY <3>1, <3>2
  <2>2. Request.cmd = "dump"
    BY <1>3 DEF OpenDump
  <2>3. CASE UNCHANGED <<name, taken>>
    BY <2>3 DEF Data
  <2>4. CASE (name # <<>> \/ Have("name")) /\ name' = named /\ UNCHANGED taken
    BY <2>1, <2>4
  <2>5. CASE /\ name # <<>> \/ Have("name")
             /\ Have("text") /\ name' = <<>>
             /\ taken' = named \o IF "text" \in native THEN WindowHas(Size["text"])
                                                       ELSE Area("text")
    <3>1. (IF "text" \in native THEN WindowHas(Size["text"]) ELSE Area("text")) = Area("text")
      BY <2>5, HaveIs DEF Areas
    <3>2. taken' = Area("name") \o Area("text")
      BY <2>1, <2>5, <3>1
    <3> QED BY <2>2, <2>5, <3>2 DEF Named
  <2> QED BY <1>3, <2>3, <2>4, <2>5 DEF OpenDump
<1>4. CASE Nop \/ Interrupt
  BY <1>4 DEF Nop, Interrupt, Data
<1> QED BY <1>1, <1>2, <1>3, <1>4 DEF Execute

LEMMA StepData == Types /\ Park /\ ScreenInv /\ Data /\ [Next]_vars => Data'
<1> SUFFICES ASSUME Types, Park, ScreenInv, Data, [Next]_vars PROVE Data'
  OBVIOUS
<1>1. CASE ~Handle
  <2>1. /\ \A b \in Blocks : UnderWay(b)' =>
                /\ UnderWay(b)
                /\ block'[b].result = block[b].result /\ block'[b].cmd = block[b].cmd
                /\ block'[b].copybuf = block[b].copybuf
                /\ block'[b].copylen = block[b].copylen
        /\ \A b \in Blocks : Handled(b)' => Handled(b)
        /\ UNCHANGED <<screenMemMapped, name>>
    BY <1>1, Kept DEF screen
  <2>2. window' = window \/ CopyIn
    BY <1>1, Kept
  <2>3. ASSUME NEW b \in Blocks, Handled(b)', "COPYOUT" \in block'[b].result
        PROVE  /\ block'[b].cmd = "read" /\ block'[b].copylen = Size["buffer"]
               /\ Holds(<<"sector", 0>>, Size["buffer"])'
    <3>1. /\ block[b].cmd = "read" /\ block[b].copylen = Size["buffer"]
          /\ Holds(<<"sector", 0>>, Size["buffer"])
          /\ block'[b].cmd = block[b].cmd /\ block'[b].copylen = block[b].copylen
      BY <2>1, <2>3 DEF Data, UnderWay
    <3>2. ~CopyIn
      <4>1. SUFFICES ASSUME CopyIn PROVE FALSE
        OBVIOUS
      <4>2. /\ pc' = [pc EXCEPT ![Running] = "stack"] /\ core0' = core0
            /\ pc[Running] = "check"
        BY <4>1 DEF CopyIn, Goto
      <4>3. pc[b] \in {"stack", "check"}
        BY <2>1, <2>3 DEF Handled
      <4>4. b = Running
        BY <4>3, OnlyRunning
      <4>5. core0 = "poll"
        BY <4>2 DEF Park, ParkedWhileHandled
      <4>6. block' = [block EXCEPT ![Running].req = Flags \cup {"COPYIN"}]
        BY <4>1 DEF CopyIn
      <4>7. block'[Running] = [block[Running] EXCEPT !.req = Flags \cup {"COPYIN"}]
        BY <4>6, RequestIs, RunningIsBlock
      <4>8. block'[b].req = Flags \cup {"COPYIN"}
        BY <4>4, <4>7, RunningIsBlock DEF Types, Block
      <4>9. pc'[b] = "stack"
        BY <4>2, <4>4, RunningIsBlock DEF Types
      <4> QED BY <2>3, <4>2, <4>5, <4>8, <4>9 DEF Handled
    <3> QED BY <2>2, <3>1, <3>2 DEF Holds
  <2> QED BY <2>1, <2>3 DEF Data
<1>2. CASE Handle
  <2>0. /\ \A b \in Blocks : UnderWay(b)' => b = Running
        /\ \A b \in Blocks : Handled(b)' => UnderWay(b)'
        /\ Filled
    BY <1>2, TakenUp DEF UnderWay, ScreenInv
  <2>1. CASE ~screenMemMapped /\ (AskForScreen \/ NextChunk)
    <3>1. /\ UNCHANGED <<screenMemMapped, name>>
          /\ \E from \in PageRef, n \in 0 .. MaxCopy : Answered({"NEED_COPYIN"}, from, n)
      BY <2>1, ChunkFits DEF AskForScreen, NextChunk, NeedCopyIn, screen
    <3>2. block'[Running].result = {"NEED_COPYIN"}
      BY <3>1, AnswerFields
    <3> QED BY <2>0, <2>1, <3>1, <3>2 DEF Data
  <2>2. CASE Execute
    <3>1. name' = <<>> \/ name' = Area("name")
      BY <1>2, <2>0, <2>2, ExecuteTakes
    <3> QED BY <2>0, <2>2, <3>1, ExecuteAnswer DEF Data, Holds
  <2> QED BY <1>2, <2>1, <2>2 DEF Handle, LastChunk
<1> QED BY <1>1, <1>2

(* RightData: every command works on the memory it names, whichever areas  *)
(* the ESP32 holds, whatever the chunks the screen is copied in before it, *)
(* and whatever an interrupt's request left in the shared window           *)
(* (pbi.cpp:497-506, cio.cpp:103, 206).                                    *)
THEOREM RightDataAlways == Spec => RightData
<1>1. ASSUME Types, Park, ScreenInv, Data, [Next]_vars, taken' # taken,
             Request.cmd = "write" => screenMemMapped
      PROVE  taken' = Named(Request.cmd)
  <2>1. CASE Handle
    <3>1. Execute
      BY <1>1, <2>1 DEF Handle, AskForScreen, NextChunk, LastChunk
    <3> QED BY <1>1, <2>1, <3>1, ExecuteTakes DEF ScreenInv
  <2>2. CASE CopyOut
    <3>1. /\ "COPYOUT" \in Request.result /\ pc[Running] = "check"
          /\ taken' = WindowHas(Request.copylen)
      BY <2>2 DEF CopyOut, Goto
    <3>2. /\ Request.cmd = "read" /\ Request.copylen = Size["buffer"]
          /\ Holds(<<"sector", 0>>, Size["buffer"])
      BY <1>1, <3>1, RunningIsBlock DEF Data, Handled, Request
    <3>3. Size["buffer"] \in 0 .. MaxCopy /\ <<"sector", 0>> \in PageRef
      BY AreaSize DEF Areas, PageRef
    <3>4. WindowHas(Size["buffer"]) = Pages(<<"sector", 0>>, Size["buffer"])
      BY <1>1, <3>2, <3>3, Has DEF Holds
    <3> QED BY <3>1, <3>2, <3>4 DEF Named
  <2>3. ASSUME ~Handle, ~CopyOut PROVE FALSE
    BY <1>1, <2>3 DEF Next, Cpu, Core0, Enter, TakeInterrupt, Issue, DummyWrite, LeaveStack,
        CopyIn, Complete, Attach, Release, TickPasses, RaiseDeferred, vars
  <2> QED BY <2>1, <2>2, <2>3
<1>2. Types /\ Park /\ ScreenInv /\ Data /\ [Next]_vars =>
        [taken' # taken /\ (Request.cmd = "write" => screenMemMapped) =>
            taken' = Named(Request.cmd)]_vars
  BY <1>1
<1> QED BY <1>2, InitTypes, StepTypes, InitPark, StepPark, InitScreen, StepScreen,
           InitData, StepData, PTL DEF Spec, RightData
=============================================================================
