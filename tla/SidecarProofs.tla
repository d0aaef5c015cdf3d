---------------------------- MODULE SidecarProofs ----------------------------
(***************************************************************************)
(* The sidecar protocol, for any number of commands, faults and restarts   *)
(* of either end: no command is run twice, an answer is the command's own, *)
(* a probed service drops no command, and what nothing disturbs is         *)
(* answered.  The last three hold as long as no response of an earlier     *)
(* session bears the number of the pending command.                        *)
(***************************************************************************)
EXTENDS Sidecar, TLAPS

LEMMA NoneType == None \in Commands /\ None.id = 0
BY DEF Commands, None

LEMMA IdType ==
    ASSUME NEW command \in Commands
    PROVE  command.id \in 0 .. MaxCommands
BY SidecarAssumption DEF Commands, None

LEMMA InitOnce == Init => OnceInv
<1> SUFFICES ASSUME Init PROVE OnceInv
  OBVIOUS
<1>1. TypeOK
  <2>1. /\ present \in BOOLEAN /\ primed \in BOOLEAN
        /\ backoff \in BOOLEAN /\ probed \in BOOLEAN
    BY DEF Init
  <2> QED BY <2>1, SidecarAssumption, NoneType DEF Init, TypeOK
<1> QED BY <1>1, NoneType DEF Init, OnceInv, ReadPast, AtMostOnce

(* A transaction writes a command of the next id. *)
LEMMA TransactType ==
    ASSUME TypeOK, NEW kind \in Kinds, Transact(kind)
    PROVE  /\ issued' = issued + 1 /\ issued' \in 0 .. MaxCommands
           /\ nextSequence' \in 0 .. SeqMod - 1
           /\ pending' \in Commands /\ cmdOut' = pending'
           /\ cmdOut'.id = issued'
<1>1. issued' = issued + 1 /\ issued' \in 1 .. MaxCommands
  BY SidecarAssumption DEF TypeOK, Transact
<1>2. nextSequence' \in 0 .. SeqMod - 1
  BY SidecarAssumption DEF TypeOK, Transact
<1>3. pending' \in Commands /\ pending'.id = issued' /\ cmdOut' = pending'
  BY <1>1 DEF TypeOK, Transact, Commands
<1> QED BY <1>1, <1>2, <1>3

(* Every step keeps the types. *)
LEMMA StepType == TypeOK /\ [Next]_vars => TypeOK'
<1> SUFFICES ASSUME TypeOK, [Next]_vars PROVE TypeOK'
  OBVIOUS
<1> USE SidecarAssumption, NoneType
<1>1. CASE CarryCommand
  BY <1>1 DEF CarryCommand, TypeOK, host, service, counts
<1>2. CASE CarryResponse
  BY <1>2 DEF CarryResponse, TypeOK, host, service, counts
<1>3. CASE Probe
  <2>1. Transact(Nop)
    BY <1>3 DEF Probe
  <2>2. tries' \in 0 .. Tries
    BY <1>3 DEF Probe
  <2> QED BY <1>3, <2>1, <2>2, TransactType DEF Probe, TypeOK, wire, service, counts
<1>4. ASSUME NEW kind \in Kinds \ {Nop}, Command(kind)
      PROVE  TypeOK'
  <2>1. Transact(kind)
    BY <1>4 DEF Command
  <2> QED BY <1>4, <2>1, TransactType DEF Command, TypeOK, wire, service, counts
<1>5. CASE Accept
  <2>1. rspRead' \in 0 .. MaxCommands
    BY <1>5, IdType DEF Accept, TypeOK
  <2>2. present' \in BOOLEAN /\ probed' \in BOOLEAN
    BY <1>5 DEF Accept, TypeOK
  <2> QED BY <1>5, <2>1, <2>2 DEF Accept, TypeOK, wire, service, counts
<1>6. CASE Ignore
  <2>1. rspRead' \in 0 .. MaxCommands
    BY <1>6, IdType DEF Ignore, TypeOK
  <2> QED BY <1>6, <2>1 DEF Ignore, TypeOK, host, wire, service, counts
<1>7. ASSUME GiveUp
      PROVE  /\ nextSequence' \in 0 .. SeqMod - 1
             /\ present' \in BOOLEAN
             /\ {pending', cmdOut'} \subseteq Commands
             /\ tries' \in 0 .. Tries
             /\ issued' \in 0 .. MaxCommands
  <2>1. CASE Transact(Nop) /\ tries > 0 /\ tries' = tries - 1 /\ UNCHANGED present
    BY <2>1, TransactType DEF TypeOK
  <2>2. CASE /\ pending' = None /\ present' = (present /\ ~Probing)
             /\ UNCHANGED <<nextSequence, tries, issued, cmdOut>>
    BY <2>2 DEF TypeOK
  <2> QED BY <1>7, <2>1, <2>2 DEF GiveUp
<1>8. CASE Timeout
  BY <1>7, <1>8 DEF Timeout, TypeOK, wire, service, counts
<1>9. CASE Fault
  <2>1. faults' \in 0 .. MaxFaults
    BY <1>9 DEF Fault, TypeOK
  <2> QED BY <1>7, <1>9, <2>1 DEF Fault, TypeOK, wire, service
<1>10. CASE HostRestart
  <2>1. hostRestarts' \in 0 .. MaxHostRestarts
    BY <1>10 DEF HostRestart, TypeOK
  <2>2. present' \in BOOLEAN /\ probed' \in BOOLEAN
    BY <1>10 DEF HostRestart
  <2> QED BY <1>10, <2>1, <2>2 DEF HostRestart, TypeOK, service
<1>11. CASE Read
  <2>1. cmdRead' \in 0 .. MaxCommands
    BY <1>11, IdType DEF Read, TypeOK
  <2> QED BY <1>11, <2>1 DEF Read, TypeOK, host, wire, counts
<1>12. CASE Handle
  <2>1. ran' \subseteq 0 .. MaxCommands
    BY <1>12, IdType DEF Handle, TypeOK
  <2> QED BY <1>12, <2>1 DEF Handle, TypeOK, host, wire, counts
<1>13. CASE Reply
  BY <1>13 DEF Reply, TypeOK, host, wire, counts
<1>14. CASE ReadFault
  <2>1. faults' \in 0 .. MaxFaults
    BY <1>14 DEF ReadFault, TypeOK
  <2> QED BY <1>14, <2>1 DEF ReadFault, TypeOK, host, wire
<1>15. CASE BackoffEnds
  BY <1>15 DEF BackoffEnds, TypeOK, host, wire, counts
<1>16. CASE ServiceRestart
  <2>1. serviceRestarts' \in 0 .. MaxServiceRestarts
    BY <1>16 DEF ServiceRestart, TypeOK
  <2>2. primed' \in BOOLEAN /\ backoff' \in BOOLEAN /\ probed' \in BOOLEAN
    BY <1>16 DEF ServiceRestart
  <2> QED BY <1>16, <2>1, <2>2 DEF ServiceRestart, TypeOK, host
<1>17. CASE UNCHANGED vars
  BY <1>17 DEF vars, TypeOK, host, wire, service, counts
<1> QED BY <1>1, <1>2, <1>3, <1>4, <1>5, <1>6, <1>8, <1>9, <1>10, <1>11, <1>12,
           <1>13, <1>14, <1>15, <1>16, <1>17 DEF Next, Host, Service

(* The ids of the commands on the way to the service are numbers. *)
LEMMA IdNats ==
    ASSUME TypeOK
    PROVE  /\ {cmdOut.id, cmdIn.id, rx.id, cmdRead, issued} \subseteq Nat
           /\ ran \subseteq Nat
           /\ primed \in BOOLEAN /\ phase \in {"poll", "handle", "reply"}
BY SidecarAssumption, IdType DEF TypeOK

(* No step undoes what keeps a command from running twice. *)
LEMMA StepReadPast == OnceInv /\ [Next]_vars => (ReadPast /\ AtMostOnce)'
<1> SUFFICES ASSUME OnceInv, [Next]_vars PROVE (ReadPast /\ AtMostOnce)'
  OBVIOUS
<1> USE NoneType, IdNats DEF OnceInv, ReadPast, AtMostOnce
<1>1. CASE CarryCommand
  BY <1>1 DEF CarryCommand, host, service
<1>2. ASSUME NEW kind \in Kinds, Transact(kind),
             UNCHANGED <<cmdIn, cmdRead, primed, phase, rx, ran>>
      PROVE  (ReadPast /\ AtMostOnce)'
  BY <1>2, TransactType
<1>3. CASE Probe
  BY <1>2, <1>3, SidecarAssumption DEF Probe, wire, service
<1>4. ASSUME NEW kind \in Kinds \ {Nop}, Command(kind)
      PROVE  (ReadPast /\ AtMostOnce)'
  BY <1>2, <1>4 DEF Command, wire, service
<1>5. ASSUME UNCHANGED <<cmdOut, cmdIn, cmdRead, issued, primed, phase, rx, ran>>
      PROVE  (ReadPast /\ AtMostOnce)'
  BY <1>5
<1>6. ASSUME GiveUp, UNCHANGED <<cmdIn, cmdRead, primed, phase, rx, ran>>
      PROVE  (ReadPast /\ AtMostOnce)'
  BY <1>2, <1>5, <1>6, SidecarAssumption DEF GiveUp
<1>7. CASE Timeout \/ Fault
  BY <1>6, <1>7 DEF Timeout, Fault, wire, service
<1>8. CASE HostRestart
  BY <1>8 DEF HostRestart, service
<1>9. CASE Read
  <2>1. /\ cmdRead' = cmdIn.id /\ cmdIn.id > cmdRead
        /\ UNCHANGED <<cmdOut, cmdIn, issued, ran>>
    BY <1>9 DEF Read, CommandIsNew, host, wire
  <2>2. CASE primed /\ phase' = "handle" /\ rx' = cmdIn /\ UNCHANGED primed
    BY <2>1, <2>2
  <2>3. CASE ~primed /\ primed' = TRUE /\ UNCHANGED <<phase, rx>>
    BY <2>1, <2>3
  <2> QED BY <1>9, <2>2, <2>3 DEF Read
<1>10. CASE Handle
  BY <1>10 DEF Handle, host, wire
<1>11. CASE Reply
  BY <1>11 DEF Reply, host, wire
<1>12. CASE ServiceRestart
  BY <1>12 DEF ServiceRestart, host
<1>13. CASE CarryResponse \/ Accept \/ Ignore \/ ReadFault \/ BackoffEnds
  BY <1>5, <1>13
     DEF CarryResponse, Accept, Ignore, ReadFault, BackoffEnds, host, wire, service
<1>14. CASE UNCHANGED vars
  BY <1>5, <1>14 DEF vars, host, wire, service
<1> QED BY <1>1, <1>3, <1>4, <1>7, <1>8, <1>9, <1>10, <1>11, <1>12, <1>13, <1>14
        DEF Next, Host, Service

LEMMA OnceInvariant == Spec => []OnceInv
<1>1. OnceInv /\ [Next]_vars => OnceInv'
  BY StepType, StepReadPast DEF OnceInv
<1> QED BY InitOnce, <1>1, PTL DEF Spec

(* Every variable keeps its type, whatever the number of restarts, faults  *)
(* and commands (sidecar.cpp:134-241).                                     *)
THEOREM TypesAlways == Spec => []TypeOK
BY OnceInvariant, PTL DEF OnceInv

(* The service never runs a command again, nor one older than a command it *)
(* ran (sidecar.cpp:211-214), whichever end restarts and however often.    *)
THEOREM AtMostOnceAlways == Spec => []AtMostOnce
BY OnceInvariant, PTL DEF OnceInv

-----------------------------------------------------------------------------
(* What a probe and a transaction promise. *)

(* The response in the host's ring that bears the number of the pending    *)
(* command is the one to it.  Numbers are 32 bits from a random start, so  *)
(* that this fails, after a restart of the host, about once in 2^32.       *)
NumbersApart ==
    ~Idle /\ rspIn.id # 0 /\ rspIn.sequence = pending.sequence => rspIn.id = pending.id

InFlight == {cmdOut, cmdIn, rx, rspOut, rspIn}

(* The pending command is the last one and an id tells commands apart;     *)
(* what is echoed has run.                                                 *)
Echo ==
    /\ ~Idle => pending.id = issued /\ issued > 0 /\ cmdOut = pending
    /\ \A c \in InFlight : c.id <= issued /\ (~Idle /\ c.id = pending.id => c = pending)
    /\ rspRead <= issued
    /\ \A c \in {rspOut, rspIn} : c.id # 0 => c.id \in ran
    /\ phase = "reply" => rx.id \in ran
    /\ cmdRead # 0 => primed

(* A probe that succeeds, or is about to, has primed the service. *)
Primed ==
    /\ probed => primed
    /\ Probing /\ trouble # "restart" /\ pending.id \in ran => primed

(* Past the first Nop nothing is dropped, so that the service has the      *)
(* command before it, works on it, or its response is on its way.          *)
Undisturbed ==
    /\ trouble = "none"
    /\ \/ Probing /\ tries < Tries - 1
       \/ ~Probing /\ probed

Answering ==
    ~Idle /\ Undisturbed =>
        /\ primed
        /\ \/ cmdRead # pending.id
           \/ phase # "poll" /\ rx = pending
           \/ rspOut = pending
        /\ rspRead # pending.id

AnswerInv == Echo /\ Primed /\ Answering

LEMMA InitAnswer == Init => AnswerInv
BY SidecarAssumption, NoneType
   DEF Init, AnswerInv, Echo, Primed, Answering, Undisturbed, InFlight, Idle, Probing

(* The ids and counters are numbers, and only the template's is 0. *)
LEMMA AllNats ==
    ASSUME TypeOK
    PROVE  /\ \A c \in InFlight \cup {pending} : c.id \in Nat /\ c \in Commands
           /\ rspRead \in Nat /\ cmdRead \in Nat /\ issued \in Nat /\ tries \in Nat
           /\ None.id = 0
           /\ {primed, probed, present} \subseteq BOOLEAN
BY SidecarAssumption, IdType, NoneType DEF TypeOK, InFlight

(* A new command is newer than all that is in flight. *)
LEMMA TransactAnswer ==
    ASSUME OnceInv, AnswerInv, NEW kind \in Kinds, Transact(kind),
           UNCHANGED <<cmdIn, rspOut, rspIn, cmdRead, rspRead, primed, phase, rx, ran>>
    PROVE  /\ Echo'
           /\ pending'.id = issued' /\ pending'.kind = kind /\ pending'.id \notin ran
           /\ ~Idle' /\ cmdRead # pending'.id /\ rspRead # pending'.id
<1>1. /\ issued' = issued + 1 /\ cmdOut' = pending' /\ pending'.id = issued'
      /\ pending'.kind = kind
  <2>1. TypeOK
    BY DEF OnceInv
  <2>2. issued' = issued + 1 /\ cmdOut' = pending' /\ cmdOut'.id = issued'
    BY <2>1, TransactType
  <2>3. pending'.kind = kind
    BY DEF Transact
  <2> QED BY <2>2, <2>3
<1>2. /\ \A c \in InFlight : c.id \in Nat /\ c.id <= issued
      /\ issued \in Nat /\ rspRead \in Nat /\ rspRead <= issued
      /\ cmdRead \in Nat /\ cmdRead <= issued
  BY AllNats DEF OnceInv, AnswerInv, Echo, ReadPast
<1>3. ran \subseteq Nat /\ \A id \in ran : id <= issued
  BY IdNats DEF OnceInv, ReadPast
<1>4. ~Idle'
  BY <1>1, <1>2, NoneType DEF Idle
<1>5. \A c \in InFlight' : c = pending' \/ c \in InFlight
  BY <1>1 DEF InFlight
<1>6. Echo'
  BY <1>1, <1>2, <1>5 DEF AnswerInv, Echo
<1> QED BY <1>1, <1>2, <1>3, <1>4, <1>6

(* What leaves the pending command and what was read alone, and takes what *)
(* is in flight from what was, keeps Echo.                                 *)
LEMMA CarryEcho ==
    ASSUME AnswerInv, InFlight' \subseteq InFlight \cup {None}, TypeOK,
           ~Idle' => ~Idle /\ pending' = pending /\ cmdOut' = cmdOut,
           issued' = issued, rspRead' <= issued, ran \subseteq ran',
           {rspOut', rspIn'} \subseteq {rspOut, rspIn, None},
           phase' = "reply" => rx'.id \in ran',
           cmdRead' # 0 => primed'
    PROVE  Echo'
<1>1. None.id = 0 /\ issued \in Nat
  BY AllNats
<1>2. \A c \in InFlight' : c \in InFlight \/ c = None
  OBVIOUS
<1>3. ~Idle => issued > 0 /\ pending.id = issued
  BY DEF AnswerInv, Echo
<1> QED BY <1>1, <1>2, <1>3 DEF AnswerInv, Echo

(* A wait that is given up ends, or a probe writes its next Nop. *)
LEMMA GiveUpCases ==
    ASSUME GiveUp
    PROVE  \/ /\ Idle' /\ UNCHANGED <<nextSequence, tries, issued, cmdOut>>
              /\ pending.kind # Nop \/ tries = 0
           \/ Probing /\ tries > 0 /\ Transact(Nop) /\ tries' = tries - 1
BY DEF GiveUp, Idle

LEMMA StepEcho == OnceInv /\ AnswerInv /\ [Next]_vars => Echo'
<1> SUFFICES ASSUME OnceInv, AnswerInv, [Next]_vars PROVE Echo'
  OBVIOUS
<1>0. /\ TypeOK /\ Echo /\ issued \in Nat /\ rspRead \in Nat /\ rspRead <= issued
      /\ rspIn.id <= issued /\ None.id = 0
  BY AllNats DEF OnceInv, AnswerInv, Echo, InFlight
<1> USE <1>0
<1>1. CASE CarryCommand
  BY <1>1, CarryEcho DEF CarryCommand, InFlight, Idle, host, service, Echo
<1>2. CASE CarryResponse
  BY <1>2, CarryEcho DEF CarryResponse, InFlight, Idle, host, service, Echo
<1>3. CASE Probe
  BY <1>3, TransactAnswer, SidecarAssumption DEF Probe, wire, service
<1>4. ASSUME NEW kind \in Kinds \ {Nop}, Command(kind) PROVE Echo'
  BY <1>4, TransactAnswer DEF Command, wire, service
<1>5. CASE Accept \/ Ignore
  <2>1. /\ UNCHANGED <<cmdOut, cmdIn, rspOut, rspIn, cmdRead, primed, phase, rx, ran, issued>>
        /\ rspRead' = rspIn.id
        /\ Idle' \/ UNCHANGED pending
    BY <1>5 DEF Accept, Ignore, Idle, host, wire, service
  <2> QED BY <2>1, CarryEcho DEF InFlight, Idle, Echo
<1>6. CASE Timeout \/ Fault
  <2>1. /\ UNCHANGED <<cmdIn, rspOut, rspIn, cmdRead, rspRead, primed, phase, rx, ran>>
        /\ GiveUp
    BY <1>6 DEF Timeout, Fault, wire, service
  <2>2. CASE Transact(Nop)
    BY <2>1, <2>2, TransactAnswer, SidecarAssumption
  <2>3. CASE Idle' /\ UNCHANGED <<issued, cmdOut>>
    BY <2>1, <2>3, CarryEcho DEF InFlight, Echo
  <2> QED BY <2>1, <2>2, <2>3, GiveUpCases
<1>7. CASE HostRestart
  <2>1. /\ UNCHANGED <<issued, cmdIn, rspOut, cmdRead, primed, phase, rx, ran>>
        /\ cmdOut' = None /\ rspIn' = None /\ rspRead' = 0 /\ Idle'
    BY <1>7 DEF HostRestart, Idle, service
  <2> QED BY <2>1, CarryEcho DEF InFlight, Echo
<1>8. CASE Read
  <2>1. /\ UNCHANGED <<issued, pending, cmdOut, cmdIn, rspOut, rspIn, rspRead, ran>>
        /\ rx' \in {rx, cmdIn} /\ primed' = TRUE
        /\ phase' # "reply"
    BY <1>8 DEF Read, host, wire, OnceInv, TypeOK
  <2> QED BY <2>1, CarryEcho DEF InFlight, Idle
<1>9. CASE Handle
  <2>1. /\ UNCHANGED <<issued, pending, cmdOut, cmdIn, rspOut, rspIn, cmdRead, rspRead, primed,
                       rx>>
        /\ ran' = ran \cup {rx.id}
    BY <1>9 DEF Handle, host, wire
  <2> QED BY <2>1, CarryEcho DEF InFlight, Idle, Echo
<1>10. CASE Reply
  <2>1. /\ UNCHANGED <<issued, pending, cmdOut, cmdIn, rspIn, cmdRead, rspRead, primed, rx, ran>>
        /\ rspOut' = rx /\ phase = "reply" /\ phase' = "poll"
    BY <1>10 DEF Reply, host, wire
  <2>2. rx.id \in ran
    BY <2>1 DEF Echo
  <2>3. \A c \in InFlight' : c \in InFlight
    BY <2>1 DEF InFlight
  <2> QED BY <2>1, <2>2, <2>3 DEF Echo, Idle
<1>11. CASE ReadFault \/ BackoffEnds
  BY <1>11, CarryEcho DEF ReadFault, BackoffEnds, InFlight, Idle, host, wire, Echo
<1>12. CASE ServiceRestart
  <2>1. /\ UNCHANGED <<issued, pending, cmdOut, rspIn, rspRead, ran>>
        /\ cmdIn' = None /\ rspOut' = None /\ rx' = None /\ cmdRead' = 0 /\ phase' = "poll"
    BY <1>12 DEF ServiceRestart, host
  <2> QED BY <2>1, CarryEcho DEF InFlight, Idle
<1>13. CASE UNCHANGED vars
  BY <1>13, CarryEcho DEF vars, InFlight, Idle, host, wire, service, Echo
<1> QED BY <1>1, <1>2, <1>3, <1>4, <1>5, <1>6, <1>7, <1>8, <1>9, <1>10, <1>11, <1>12, <1>13
        DEF Next, Host, Service

(* With the numbers apart, what is accepted is the pending command's own   *)
(* response.                                                               *)
LEMMA AcceptsOwn ==
    ASSUME OnceInv, Echo, NumbersApart, Accept
    PROVE  rspIn.id = pending.id /\ pending.id \in ran
<1>1. ~Idle /\ rspIn.id # 0 /\ rspIn.sequence = pending.sequence
  BY DEF Accept, ResponseIsNew, Answers
<1>2. rspIn.id = pending.id
  BY <1>1 DEF NumbersApart
<1> QED BY <1>1, <1>2 DEF Echo

LEMMA StepPrimed == OnceInv /\ AnswerInv /\ NumbersApart /\ [Next]_vars => Primed'
<1> SUFFICES ASSUME OnceInv, AnswerInv, NumbersApart, [Next]_vars PROVE Primed'
  OBVIOUS
<1>0. Primed /\ Echo /\ {primed, probed} \subseteq BOOLEAN
  BY AllNats DEF AnswerInv, OnceInv
<1>1. ASSUME NEW kind \in Kinds, Transact(kind), probed' => probed,
             UNCHANGED <<cmdIn, rspOut, rspIn, cmdRead, rspRead, primed, phase, rx, ran>>
      PROVE  Primed'
  <2>1. pending'.id \notin ran
    BY <1>1, TransactAnswer
  <2> QED BY <1>0, <1>1, <2>1 DEF Primed
<1>2. CASE Probe
  BY <1>1, <1>2, SidecarAssumption DEF Probe, wire, service
<1>3. ASSUME NEW kind \in Kinds \ {Nop}, Command(kind) PROVE Primed'
  BY <1>1, <1>3 DEF Command, wire, service
<1>4. CASE Accept
  <2>1. pending.id \in ran
    BY <1>0, <1>4, AcceptsOwn
  <2>2. /\ Idle' /\ UNCHANGED primed
        /\ probed' = IF Probing THEN trouble # "restart" ELSE probed
    BY <1>4 DEF Accept, Idle, service
  <2> QED BY <1>0, <2>1, <2>2 DEF Primed, Probing
<1>5. CASE Timeout \/ Fault
  <2>1. /\ UNCHANGED <<cmdIn, rspOut, rspIn, cmdRead, rspRead, primed, phase, rx, ran, probed>>
        /\ GiveUp
    BY <1>5 DEF Timeout, Fault, wire, service
  <2>2. CASE Transact(Nop)
    BY <1>1, <2>1, <2>2, SidecarAssumption
  <2>3. CASE Idle'
    BY <1>0, <2>1, <2>3 DEF Primed, Probing
  <2> QED BY <2>1, <2>2, <2>3, GiveUpCases
<1>6. CASE HostRestart
  BY <1>6 DEF HostRestart, Primed
<1>7. CASE Handle
  <2>1. phase # "poll" /\ UNCHANGED <<probed, primed>>
    BY <1>7 DEF Handle
  <2>2. primed
    BY <2>1 DEF OnceInv, ReadPast
  <2> QED BY <2>1, <2>2 DEF Primed
<1>8. CASE Read
  <2>1. primed' = TRUE
    BY <1>0, <1>8 DEF Read
  <2> QED BY <2>1 DEF Primed
<1>9. CASE ServiceRestart
  BY <1>9 DEF ServiceRestart, Primed
<1>10. CASE Ignore \/ CarryCommand \/ CarryResponse \/ Reply \/ ReadFault \/ BackoffEnds
            \/ UNCHANGED vars
  <2>1. UNCHANGED <<probed, primed, pending, trouble, ran>>
    BY <1>10 DEF Ignore, CarryCommand, CarryResponse, Reply, ReadFault, BackoffEnds, vars, host,
        service
  <2> QED BY <1>0, <2>1 DEF Primed, Probing, Idle
<1> QED BY <1>2, <1>3, <1>4, <1>5, <1>6, <1>7, <1>8, <1>9, <1>10 DEF Next, Host, Service

(* When nothing is on its way any more, the pending command was read.      *)
LEMMA QuietWasRead ==
    ASSUME OnceInv, AnswerInv, ~Idle, Quiet
    PROVE  cmdRead = pending.id /\ primed /\ phase = "poll"
<1>1. /\ cmdOut = pending /\ pending.id = issued /\ issued > 0 /\ issued \in Nat
      /\ cmdRead # 0 => primed
  BY AllNats DEF OnceInv, AnswerInv, Echo
<1>2. cmdIn = cmdOut /\ cmdIn.id \in {0, cmdRead} /\ phase = "poll"
  BY DEF Quiet, CommandIsNew
<1> QED BY <1>1, <1>2

(* A command that nothing disturbs is not left without its response.       *)
LEMMA QuietMeansAnswered ==
    ASSUME OnceInv, AnswerInv, ~Idle, Quiet
    PROVE  ~Undisturbed
<1>1. SUFFICES ASSUME Undisturbed PROVE FALSE
  OBVIOUS
<1>2. rspOut = pending /\ rspRead # pending.id
  BY <1>1, QuietWasRead DEF AnswerInv, Answering
<1>3. rspIn = rspOut /\ rspIn.id \in {0, rspRead}
  BY DEF Quiet, ResponseIsNew
<1>4. pending.id = issued /\ issued > 0 /\ issued \in Nat
  BY AllNats DEF OnceInv, AnswerInv, Echo
<1> QED BY <1>2, <1>3, <1>4

LEMMA StepAnswering == OnceInv /\ AnswerInv /\ Primed' /\ [Next]_vars => Answering'
<1> SUFFICES ASSUME OnceInv, AnswerInv, Primed', [Next]_vars PROVE Answering'
  OBVIOUS
<1>0. /\ TypeOK /\ Echo /\ Answering /\ ReadPast
      /\ issued \in Nat /\ cmdRead \in Nat /\ tries \in Nat
      /\ cmdIn.id \in Nat /\ {primed, probed} \subseteq BOOLEAN
  BY AllNats DEF OnceInv, AnswerInv, InFlight
<1>1. CASE Idle'
  BY <1>1 DEF Answering
<1>2. CASE Probe
  <2>1. /\ Transact(Nop)
        /\ UNCHANGED <<cmdIn, rspOut, rspIn, cmdRead, rspRead, primed, phase, rx, ran>>
        /\ tries' = Tries - 1 /\ ~probed'
    BY <1>2 DEF Probe, wire, service
  <2> QED BY <2>1 DEF Answering, Undisturbed
<1>3. ASSUME NEW kind \in Kinds \ {Nop}, Command(kind) PROVE Answering'
  <2>1. /\ Transact(kind) /\ UNCHANGED <<probed, tries>>
        /\ UNCHANGED <<cmdIn, rspOut, rspIn, cmdRead, rspRead, primed, phase, rx, ran>>
    BY <1>3 DEF Command, wire, service
  <2>2. pending'.kind = kind /\ cmdRead # pending'.id /\ rspRead # pending'.id
    BY <2>1, TransactAnswer
  <2>3. ~Probing' /\ (probed' => primed')
    BY <2>2 DEF Probing, Primed
  <2> QED BY <2>1, <2>2, <2>3 DEF Answering, Undisturbed
<1>4. CASE Timeout /\ ~Idle'
  <2>1. /\ ~Idle /\ Quiet /\ GiveUp
        /\ UNCHANGED <<cmdIn, rspOut, rspIn, cmdRead, rspRead, primed, phase, rx, ran>>
    BY <1>4 DEF Timeout, wire, service
  <2>2. Transact(Nop)
    BY <1>4, <2>1, GiveUpCases
  <2>3. cmdRead # pending'.id /\ rspRead # pending'.id /\ primed
    BY <2>1, <2>2, TransactAnswer, QuietWasRead, SidecarAssumption
  <2> QED BY <2>1, <2>3 DEF Answering
<1>5. CASE Fault \/ HostRestart \/ ServiceRestart
  <2>1. trouble' # "none"
    BY <1>0, <1>5 DEF Fault, HostRestart, ServiceRestart
  <2> QED BY <2>1 DEF Answering, Undisturbed
<1>6. CASE Accept
  BY <1>1, <1>6 DEF Accept, Idle
<1>7. CASE Ignore
  <2>1. /\ UNCHANGED <<pending, tries, rspOut, cmdRead, primed, phase, rx, trouble, probed>>
        /\ rspRead' = rspIn.id /\ ~Idle /\ ~Answers(rspIn)
    BY <1>7 DEF Ignore, host, service
  <2>2. rspIn.id # pending.id
    BY <1>0, <2>1 DEF Echo, InFlight, Answers
  <2> QED BY <1>0, <2>1, <2>2 DEF Answering, Undisturbed, Probing, Idle
<1>8. CASE Read /\ ~Idle' /\ Undisturbed'
  <2>1. /\ UNCHANGED <<pending, tries, rspOut, rspRead, trouble, probed>>
        /\ cmdRead' = cmdIn.id /\ cmdIn.id # cmdRead /\ cmdIn.id # 0 /\ phase = "poll"
        /\ \/ primed /\ phase' = "handle" /\ rx' = cmdIn /\ UNCHANGED primed
           \/ ~primed
    BY <1>8 DEF Read, CommandIsNew, host
  <2>2. ~Idle /\ Undisturbed
    BY <1>8, <2>1 DEF Idle, Undisturbed, Probing
  <2>3. /\ primed /\ rspRead # pending.id
        /\ cmdRead # pending.id \/ rspOut = pending
    BY <1>0, <2>1, <2>2 DEF Answering
  <2>4. cmdIn.id = pending.id => cmdIn = pending
    BY <1>0, <2>2 DEF Echo, InFlight
  <2> QED BY <2>1, <2>3, <2>4 DEF Answering
<1>9. CASE Handle
  <2>1. /\ UNCHANGED <<pending, tries, rspOut, rspRead, cmdRead, primed, rx, trouble, probed>>
        /\ phase' = "reply" /\ phase = "handle"
    BY <1>9 DEF Handle, host
  <2> QED BY <1>0, <2>1 DEF Answering, Undisturbed, Probing, Idle
<1>10. CASE Reply /\ ~Idle' /\ Undisturbed'
  <2>1. /\ UNCHANGED <<pending, tries, rspRead, cmdRead, primed, rx, trouble, probed>>
        /\ rspOut' = rx /\ phase = "reply"
    BY <1>10 DEF Reply, host
  <2>2. ~Idle /\ Undisturbed
    BY <1>10, <2>1 DEF Idle, Undisturbed, Probing
  <2>3. primed /\ rspRead # pending.id
    BY <1>0, <2>2 DEF Answering
  <2>4. rx.id = cmdRead
    BY <1>0, <2>1 DEF ReadPast
  <2>5. rx.id = pending.id => rx = pending
    BY <1>0, <2>2 DEF Echo, InFlight
  <2> QED BY <2>1, <2>3, <2>4, <2>5 DEF Answering
<1>11. CASE CarryCommand \/ CarryResponse \/ ReadFault \/ BackoffEnds \/ UNCHANGED vars
  <2>1. UNCHANGED <<pending, tries, rspOut, rspRead, cmdRead, primed, phase, rx, trouble, probed>>
    BY <1>11 DEF CarryCommand, CarryResponse, ReadFault, BackoffEnds, vars, host, service
  <2> QED BY <1>0, <2>1 DEF Answering, Undisturbed, Probing, Idle
<1> QED BY <1>1, <1>2, <1>3, <1>4, <1>5, <1>6, <1>7, <1>8, <1>9, <1>10, <1>11
        DEF Next, Host, Service, Answering

LEMMA AnswerInvariant == Spec /\ []NumbersApart => []AnswerInv
<1>1. OnceInv /\ AnswerInv /\ NumbersApart /\ [Next]_vars => AnswerInv'
  BY StepEcho, StepPrimed, StepAnswering DEF AnswerInv
<1> QED BY <1>1, InitAnswer, OnceInvariant, PTL DEF Spec

(* What transact() returns as Ok is the response to this very command, and *)
(* its handler ran (sidecar.cpp:158-172, sidecar.h:19-20), with any number *)
(* of faults and of restarts of either end.                                *)
THEOREM OwnResponseAlways == Spec /\ []NumbersApart => OwnResponse
<1>1. OnceInv /\ AnswerInv /\ NumbersApart =>
        [Accept => rspIn.id = pending.id /\ pending.id \in ran]_vars
  BY AcceptsOwn DEF AnswerInv
<1> QED BY <1>1, AnswerInvariant, OnceInvariant, PTL DEF OwnResponse

(* A command after a probe() that succeeded is not the first the service   *)
(* sees (sidecar.cpp:211-214, sidecar.h:96), whatever the restarts before  *)
(* the probe began and the faults at any time.                             *)
THEOREM NoDropAlways == Spec /\ []NumbersApart => NoDropAfterProbe
<1>1. AnswerInv => [Read /\ ~primed => ~probed]_vars
  BY DEF AnswerInv, Primed
<1> QED BY <1>1, AnswerInvariant, PTL DEF NoDropAfterProbe

(* A probe with time for a second Nop, or a command after it, that nothing *)
(* disturbs gets its response (sidecar.cpp:60-97, 134-180).                *)
THEOREM UndisturbedAlways == Spec /\ []NumbersApart => UndisturbedIsAnswered
<1>1. ASSUME OnceInv, AnswerInv, Next, Tries > 1, ~Idle, pending' = None,
             Probing \/ probed, trouble' = "none"
      PROVE  Accept
  <2>1. SUFFICES ASSUME ~Accept PROVE FALSE
    OBVIOUS
  <2>2. ASSUME NEW kind \in Kinds, Transact(kind) PROVE FALSE
    <3>1. TypeOK
      BY <1>1 DEF OnceInv
    <3>2. pending'.id = issued + 1 /\ issued \in Nat
      BY <2>2, <3>1, TransactType, AllNats
    <3> QED BY <1>1, <3>2, NoneType
  <2>3. CASE Timeout
    <3>1. GiveUp /\ Quiet /\ UNCHANGED trouble
      BY <2>3 DEF Timeout
    <3>2. pending.kind # Nop \/ tries = 0
      BY <2>2, <3>1, GiveUpCases, SidecarAssumption
    <3>3. Undisturbed
      BY <1>1, <3>1, <3>2, SidecarAssumption DEF Undisturbed, Probing
    <3> QED BY <1>1, <3>1, <3>3, QuietMeansAnswered
  <2>4. CASE Fault \/ HostRestart
    BY <1>1, <2>4 DEF Fault, HostRestart
  <2>5. CASE Probe \/ \E kind \in Kinds \ {Nop} : Command(kind)
    BY <1>1, <2>5 DEF Probe, Command
  <2>6. ASSUME ~Timeout, ~Fault, ~HostRestart, ~Probe,
               ~ \E kind \in Kinds \ {Nop} : Command(kind)
        PROVE  UNCHANGED pending
    BY <1>1, <2>1, <2>6 DEF Next, Host, Service, CarryCommand, CarryResponse, Ignore, Read,
        Handle, Reply, ReadFault, BackoffEnds, ServiceRestart, host
  <2> QED BY <1>1, <2>3, <2>4, <2>5, <2>6 DEF Idle
<1>2. OnceInv /\ AnswerInv /\ [Next]_vars =>
        [/\ Tries > 1 /\ ~Idle /\ pending' = None
         /\ Probing \/ probed
         /\ trouble' = "none"
         => Accept]_vars
  BY <1>1
<1> QED BY <1>2, AnswerInvariant, OnceInvariant, PTL DEF UndisturbedIsAnswered, Spec

-----------------------------------------------------------------------------
(* In one session of the host the numbers are apart by themselves, as long *)
(* as they do not come round: id and sequence go up together.              *)

NumberOf(s, id, number) == number = s + id - 1 \/ number = s + id - 1 - SeqMod

Numbered(s) ==
    /\ NumberOf(s, issued + 1, nextSequence)
    /\ \A c \in InFlight \cup {pending} : c.id # 0 => NumberOf(s, c.id, c.sequence)

OneSession == \E s \in Starts : Numbered(s)

LEMMA InitOneSession == Init => OneSession
<1> SUFFICES ASSUME Init PROVE OneSession
  OBVIOUS
<1>1. \A c \in InFlight \cup {pending} : c.id = 0
  BY NoneType DEF Init, InFlight
<1>2. nextSequence \in Starts /\ issued = 0 /\ nextSequence \in Int
  BY SidecarAssumption DEF Init
<1>3. Numbered(nextSequence)
  BY <1>1, <1>2 DEF Numbered, NumberOf
<1> QED BY <1>2, <1>3 DEF OneSession

LEMMA StepOneSession ==
    ASSUME MaxHostRestarts = 0, MaxCommands <= SeqMod
    PROVE  TypeOK /\ OneSession /\ [Next]_vars => OneSession'
<1> SUFFICES ASSUME TypeOK, OneSession, [Next]_vars PROVE OneSession'
  OBVIOUS
<1>1. PICK s \in Starts : Numbered(s)
  BY DEF OneSession
<1>2. /\ s \in 0 .. SeqMod - 1 /\ SeqMod \in Nat \ {0}
      /\ nextSequence \in 0 .. SeqMod - 1 /\ issued \in Nat
  BY SidecarAssumption DEF TypeOK
<1>3. ASSUME NEW kind \in Kinds, Transact(kind), UNCHANGED <<cmdIn, rspOut, rspIn, rx>>
      PROVE  Numbered(s)'
  <2>1. /\ issued' = issued + 1 /\ cmdOut' = pending'
        /\ pending'.id = issued + 1 /\ pending'.sequence = nextSequence
        /\ nextSequence' = (nextSequence + 1) % SeqMod
    BY <1>3 DEF Transact
  <2>2. nextSequence' = nextSequence + 1 \/ nextSequence' = nextSequence + 1 - SeqMod
    <3>1. CASE nextSequence + 1 < SeqMod
      <4>1. (nextSequence + 1) % SeqMod = nextSequence + 1
        BY <1>2, <3>1
      <4> QED BY <2>1, <4>1
    <3>2. CASE nextSequence + 1 = SeqMod
      <4>1. SeqMod % SeqMod = 0
        BY <1>2
      <4> QED BY <1>2, <2>1, <3>2, <4>1
    <3> QED BY <1>2, <3>1, <3>2
  <2>3. 0 <= nextSequence' /\ nextSequence' < SeqMod /\ nextSequence' \in Int
    <3>1. nextSequence' \in 0 .. SeqMod - 1
      BY <1>3, TransactType
    <3> QED BY <1>2, <3>1
  <2>4. NumberOf(s, issued' + 1, nextSequence')
    <3>1. issued + 1 <= SeqMod
      BY <1>2, <1>3, SidecarAssumption DEF Transact
    <3>2. nextSequence = s + issued \/ nextSequence = s + issued - SeqMod
      BY <1>1, <1>2 DEF Numbered, NumberOf
    <3> QED BY <1>2, <2>1, <2>2, <2>3, <3>1, <3>2 DEF NumberOf
  <2>5. \A c \in InFlight' \cup {pending'} : c \in InFlight \/ c = pending'
    BY <1>3, <2>1 DEF InFlight
  <2>6. NumberOf(s, pending'.id, pending'.sequence)
    BY <1>1, <2>1 DEF Numbered
  <2> QED BY <1>1, <2>4, <2>5, <2>6 DEF Numbered
<1>4. ASSUME UNCHANGED <<nextSequence, issued>>,
             InFlight' \cup {pending'} \subseteq InFlight \cup {pending, None}
      PROVE  Numbered(s)'
  BY <1>1, <1>4, NoneType DEF Numbered
<1>5. ASSUME Numbered(s)' PROVE OneSession'
  BY <1>5 DEF OneSession
<1>6. CASE Probe
  BY <1>3, <1>5, <1>6, SidecarAssumption DEF Probe, wire, service
<1>7. ASSUME NEW kind \in Kinds \ {Nop}, Command(kind) PROVE OneSession'
  BY <1>3, <1>5, <1>7 DEF Command, wire, service
<1>8. CASE Timeout \/ Fault
  <2>1. GiveUp /\ UNCHANGED <<cmdIn, rspOut, rspIn, rx>>
    BY <1>8 DEF Timeout, Fault, wire, service
  <2>2. CASE Transact(Nop)
    BY <1>3, <1>5, <2>1, <2>2, SidecarAssumption
  <2>3. CASE pending' = None /\ UNCHANGED <<nextSequence, issued, cmdOut>>
    BY <1>4, <1>5, <2>1, <2>3 DEF InFlight
  <2> QED BY <2>1, <2>2, <2>3 DEF GiveUp
<1>9. ~HostRestart
  BY SidecarAssumption DEF HostRestart, TypeOK
<1>10. CASE CarryCommand
  BY <1>4, <1>5, <1>10 DEF CarryCommand, InFlight, host, service
<1>11. CASE CarryResponse
  BY <1>4, <1>5, <1>11 DEF CarryResponse, InFlight, host, service
<1>12. CASE Accept \/ Ignore
  BY <1>4, <1>5, <1>12 DEF Accept, Ignore, InFlight, host, wire, service
<1>13. CASE Read
  BY <1>4, <1>5, <1>13 DEF Read, InFlight, host, wire
<1>14. CASE Handle \/ Reply
  BY <1>4, <1>5, <1>14 DEF Handle, Reply, InFlight, host, wire
<1>15. CASE ReadFault \/ BackoffEnds
  BY <1>4, <1>5, <1>15 DEF ReadFault, BackoffEnds, InFlight, host, wire
<1>16. CASE ServiceRestart
  BY <1>4, <1>5, <1>16 DEF ServiceRestart, InFlight, host
<1>17. CASE UNCHANGED vars
  BY <1>4, <1>5, <1>17 DEF vars, InFlight, host, wire, service
<1> QED BY <1>6, <1>7, <1>8, <1>9, <1>10, <1>11, <1>12, <1>13, <1>14, <1>15, <1>16, <1>17
        DEF Next, Host, Service

LEMMA OneSessionApart ==
    ASSUME MaxCommands <= SeqMod, TypeOK, Echo, OneSession
    PROVE  NumbersApart
<1> SUFFICES ASSUME ~Idle, rspIn.id # 0, rspIn.sequence = pending.sequence
             PROVE  rspIn.id = pending.id
  BY DEF NumbersApart
<1>1. PICK s \in Starts : Numbered(s)
  BY DEF OneSession
<1>2. /\ rspIn.id \in 1 .. MaxCommands /\ pending.id \in 1 .. MaxCommands
      /\ s \in Int /\ SeqMod \in Int /\ MaxCommands \in Int
  <2>1. rspIn.id \in 0 .. MaxCommands /\ pending.id \in 0 .. MaxCommands
    BY IdType DEF TypeOK
  <2>2. pending.id # 0
    BY AllNats DEF Echo
  <2> QED BY <2>1, <2>2, SidecarAssumption
<1>3. /\ NumberOf(s, rspIn.id, rspIn.sequence)
      /\ NumberOf(s, pending.id, pending.sequence)
  BY <1>1, <1>2 DEF Numbered, InFlight
<1> QED BY <1>2, <1>3 DEF NumberOf

(* A host that is not restarted needs no luck with its numbers: it never   *)
(* takes another command's response for the pending one's, however often   *)
(* the service restarts and the link faults (sidecar.cpp:134-180).         *)
THEOREM OneSessionOwnResponse ==
    ASSUME MaxHostRestarts = 0, MaxCommands <= SeqMod
    PROVE  Spec => OwnResponse
<1>1. OnceInv => TypeOK
  BY DEF OnceInv
<1>2. OnceInv /\ AnswerInv /\ OneSession => NumbersApart
  BY OneSessionApart DEF OnceInv, AnswerInv
<1>3. OnceInv /\ AnswerInv /\ OneSession /\ [Next]_vars => AnswerInv' /\ OneSession'
  BY <1>2, StepEcho, StepPrimed, StepAnswering, StepOneSession DEF AnswerInv, OnceInv
<1>4. Spec => [](OnceInv /\ AnswerInv /\ OneSession)
  BY <1>3, InitAnswer, InitOneSession, OnceInvariant, PTL DEF Spec
<1>5. Spec => []NumbersApart
  BY <1>2, <1>4, PTL
<1> QED BY <1>5, OwnResponseAlways, PTL
=============================================================================
