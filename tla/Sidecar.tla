------------------------------- MODULE Sidecar -------------------------------
(***************************************************************************)
(* The sidecar command protocol (components/sidecar_link/sidecar.cpp): a   *)
(* host that writes a command and reads responses until one echoes it, and *)
(* the SidecarService that reads commands, runs them and writes responses. *)
(*                                                                         *)
(* Each direction is an i2slink, taken at what I2sLink shows of it where   *)
(* no bit error changes a stamp: the reader is given the version in its    *)
(* ring, whole, and no version twice.  (One that does can make the reader  *)
(* take the last version again: service() would run that command again.)   *)
(* A version is known by the command in it, so the ring of one direction   *)
(* holds a command, the ring of the other the command that a response      *)
(* echoes.                                                                 *)
(***************************************************************************)
EXTENDS Integers

CONSTANTS
    Kinds,          \* the command bytes: Nop, Sio, Cio
    Nop,
    SeqMod,         \* header.sequence is 32 bits: 2^32
    Starts,         \* nextSequence_ after begin(): esp_random()
    Tries,          \* Nops that fit in one probe(): timeoutUs / retryUs
    MaxCommands,    \* bound: commands the host writes
    MaxHostRestarts, MaxServiceRestarts,        \* bounds
    MaxFaults       \* bound: link faults and answers later than the timeout

None == [id |-> 0]      \* the template's H = T = 0: no version yet

ASSUME SidecarAssumption ==
    /\ Nop \in Kinds
    /\ SeqMod \in Nat \ {0}
    /\ Starts \subseteq 0 .. SeqMod - 1
    /\ Tries \in Nat \ {0}
    /\ MaxCommands \in Nat /\ MaxHostRestarts \in Nat
    /\ MaxServiceRestarts \in Nat /\ MaxFaults \in Nat

VARIABLES
    nextSequence,   \* nextSequence_
    present,        \* present_
    pending,        \* the command transact() waits on, or None
    tries,          \* Nops the probe() in progress may still write
    issued,         \* number of commands written: the last one's id
    cmdOut, cmdIn,  \* the command in the host's TX cycle, the service's ring
    rspOut, rspIn,  \* the response in the service's TX cycle, the host's ring
    cmdRead,        \* the service reader's last_read: an id
    rspRead,        \* the host reader's last_read: an id
    primed,         \* primed_
    backoff,        \* retryAfterUs_ is in the future
    phase,          \* where service() is: "poll", "handle" or "reply"
    rx,             \* the command service() works on
    ran,            \* ids of the commands whose handler was called (history)
    trouble,        \* the worst since the last probe() began (history)
    probed,         \* probe() succeeded and no end restarted since it began
    hostRestarts, serviceRestarts, faults

host    == <<nextSequence, present, pending, tries, issued>>
wire    == <<cmdIn, rspIn>>
service == <<primed, backoff, phase, rx>>
counts  == <<hostRestarts, serviceRestarts, faults>>
vars == <<host, cmdOut, rspOut, wire, cmdRead, rspRead, service, ran, trouble,
          probed, counts>>

Init ==
    /\ nextSequence \in Starts
    /\ present = FALSE /\ pending = None /\ tries = 0 /\ issued = 0
    /\ cmdOut = None /\ cmdIn = None /\ rspOut = None /\ rspIn = None
    /\ cmdRead = 0 /\ rspRead = 0
    /\ primed = FALSE /\ backoff = FALSE /\ phase = "poll" /\ rx = None
    /\ ran = {}
    /\ trouble = "none" /\ probed = FALSE
    /\ hostRestarts = 0 /\ serviceRestarts = 0 /\ faults = 0

-----------------------------------------------------------------------------
(* The wire: a lap brings the writer's version to the reader. *)

CarryCommand ==
    /\ cmdIn # cmdOut
    /\ cmdIn' = cmdOut
    /\ UNCHANGED <<host, cmdOut, rspOut, rspIn, cmdRead, rspRead, service, ran,
                   trouble, probed, counts>>

CarryResponse ==
    /\ rspIn # rspOut
    /\ rspIn' = rspOut
    /\ UNCHANGED <<host, cmdOut, rspOut, cmdIn, cmdRead, rspRead, service, ran,
                   trouble, probed, counts>>

CommandIsNew  == cmdIn.id \notin {0, cmdRead}
ResponseIsNew == rspIn.id \notin {0, rspRead}

-----------------------------------------------------------------------------
(* The host. *)

(* transact() up to its wait. *)
Transact(kind) ==
    /\ issued < MaxCommands
    /\ issued' = issued + 1
    /\ pending' = [id |-> issued', sequence |-> nextSequence, kind |-> kind]
    /\ nextSequence' = (nextSequence + 1) % SeqMod
    /\ cmdOut' = pending'

Idle == pending = None

Probe ==
    /\ Idle
    /\ Transact(Nop)
    /\ tries' = Tries - 1
    /\ trouble' = "none"
    /\ probed' = FALSE
    /\ UNCHANGED <<present, rspOut, wire, cmdRead, rspRead, service, ran, counts>>

Command(kind) ==
    /\ Idle
    /\ Transact(kind)
    /\ UNCHANGED <<present, tries, rspOut, wire, cmdRead, rspRead, service, ran,
                   trouble, probed, counts>>

Probing == ~Idle /\ pending.kind = Nop

(* Faulty: only the command byte is compared. *)
AnswersKind(response) == response.kind = pending.kind

(* A NEW response that echoes the pending command's sequence and command.  *)
Answers(response) ==
    /\ response.sequence = pending.sequence
    /\ response.kind = pending.kind

Accept ==
    /\ ~Idle /\ ResponseIsNew /\ Answers(rspIn)
    /\ rspRead' = rspIn.id
    /\ pending' = None
    /\ tries' = 0
    /\ present' = (present \/ Probing)
    /\ probed' = IF Probing THEN trouble # "restart" ELSE probed
    /\ UNCHANGED <<nextSequence, issued, cmdOut, rspOut, wire, cmdRead, service,
                   ran, trouble, counts>>

(* "A response to some other (earlier) command: keep waiting." *)
Ignore ==
    /\ ~Idle /\ ResponseIsNew /\ ~Answers(rspIn)
    /\ rspRead' = rspIn.id
    /\ UNCHANGED <<host, cmdOut, rspOut, wire, cmdRead, service, ran, trouble,
                   probed, counts>>

(* Nothing is on its way to the host any more.  The timeouts, at least     *)
(* 5 ms, are far longer than two laps of the wire and a service() poll.    *)
Quiet == /\ cmdIn = cmdOut /\ rspIn = rspOut
         /\ ~CommandIsNew /\ ~ResponseIsNew
         /\ phase = "poll"

(* Faulty: probe's retry waits again without writing a new Nop. *)
GiveUpNoRewrite ==
    \/ /\ pending.kind # Nop \/ tries = 0
       /\ pending' = None
       /\ present' = (present /\ ~Probing)
       /\ UNCHANGED <<nextSequence, tries, issued, cmdOut>>
    \/ /\ Probing /\ tries > 0
       /\ tries' = tries - 1
       /\ UNCHANGED <<nextSequence, pending, issued, cmdOut, present>>

(* Faulty: one Nop more than the timeout has time for. *)
GiveUpLate ==
    \/ /\ pending.kind # Nop \/ tries < 0
       /\ pending' = None
       /\ present' = (present /\ ~Probing)
       /\ UNCHANGED <<nextSequence, tries, issued, cmdOut>>
    \/ /\ Probing /\ tries >= 0
       /\ Transact(Nop)
       /\ tries' = tries - 1
       /\ UNCHANGED present

GiveUp ==
    \/ /\ pending.kind # Nop \/ tries = 0          \* transact or probe fails
       /\ pending' = None
       /\ present' = (present /\ ~Probing)
       /\ UNCHANGED <<nextSequence, tries, issued, cmdOut>>
    \/ /\ Probing /\ tries > 0                     \* probe's next Nop
       /\ Transact(Nop)
       /\ tries' = tries - 1
       /\ UNCHANGED present

Timeout ==
    /\ ~Idle /\ Quiet
    /\ GiveUp
    /\ UNCHANGED <<rspOut, wire, cmdRead, rspRead, service, ran, trouble, probed,
                   counts>>

(* A link fault ends the wait, or the answer is slower than the timeout.   *)
Fault ==
    /\ ~Idle /\ faults < MaxFaults
    /\ faults' = faults + 1
    /\ trouble' = IF trouble = "none" THEN "fault" ELSE trouble
    /\ GiveUp
    /\ UNCHANGED <<rspOut, wire, cmdRead, rspRead, service, ran, probed,
                   hostRestarts, serviceRestarts>>

(* A restart and begin(): the link's template, an empty ring, no last_read. *)
HostRestart ==
    /\ hostRestarts < MaxHostRestarts
    /\ hostRestarts' = hostRestarts + 1
    /\ nextSequence' \in Starts
    /\ present' = FALSE /\ pending' = None /\ tries' = 0
    /\ cmdOut' = None /\ rspIn' = None /\ rspRead' = 0
    /\ trouble' = "restart" /\ probed' = FALSE
    /\ UNCHANGED <<issued, cmdIn, rspOut, cmdRead, service, ran,
                   serviceRestarts, faults>>

-----------------------------------------------------------------------------
(* The service. *)

(* Faulty: the first command after begin() is handled like any other. *)
ReadUnprimed ==
    /\ phase = "poll" /\ ~backoff /\ CommandIsNew
    /\ cmdRead' = cmdIn.id
    /\ phase' = "handle" /\ rx' = cmdIn /\ primed' = TRUE
    /\ UNCHANGED <<host, cmdOut, rspOut, wire, rspRead, backoff, ran, trouble,
                   probed, counts>>

(* service() reads a NEW version: the first since begin() is dropped.      *)
Read ==
    /\ phase = "poll" /\ ~backoff /\ CommandIsNew
    /\ cmdRead' = cmdIn.id
    /\ \/ primed /\ phase' = "handle" /\ rx' = cmdIn /\ UNCHANGED primed
       \/ ~primed /\ primed' = TRUE /\ UNCHANGED <<phase, rx>>
    /\ UNCHANGED <<host, cmdOut, rspOut, wire, rspRead, backoff, ran, trouble,
                   probed, counts>>

Handle ==
    /\ phase = "handle"
    /\ phase' = "reply"
    /\ ran' = ran \cup {rx.id}
    /\ UNCHANGED <<host, cmdOut, rspOut, wire, cmdRead, rspRead, primed, backoff,
                   rx, trouble, probed, counts>>

Reply ==
    /\ phase = "reply"
    /\ phase' = "poll"
    /\ rspOut' = rx
    /\ UNCHANGED <<host, cmdOut, wire, cmdRead, rspRead, primed, backoff, rx, ran,
                   trouble, probed, counts>>

(* Faulty: a link fault makes the service drop the next command. *)
ReadFaultUnprimes ==
    /\ phase = "poll" /\ ~backoff
    /\ faults < MaxFaults
    /\ faults' = faults + 1
    /\ backoff' = TRUE /\ primed' = FALSE
    /\ UNCHANGED <<host, cmdOut, rspOut, wire, cmdRead, rspRead, phase, rx,
                   ran, trouble, probed, hostRestarts, serviceRestarts>>

(* read() ends in a link fault: not before kFaultBackoffUs again.          *)
ReadFault ==
    /\ phase = "poll" /\ ~backoff
    /\ faults < MaxFaults
    /\ faults' = faults + 1
    /\ backoff' = TRUE
    /\ UNCHANGED <<host, cmdOut, rspOut, wire, cmdRead, rspRead, primed, phase, rx,
                   ran, trouble, probed, hostRestarts, serviceRestarts>>

BackoffEnds ==
    /\ backoff
    /\ backoff' = FALSE
    /\ UNCHANGED <<host, cmdOut, rspOut, wire, cmdRead, rspRead, primed, phase, rx,
                   ran, trouble, probed, counts>>

(* A restart, at any point of service(), and begin(). *)
ServiceRestart ==
    /\ serviceRestarts < MaxServiceRestarts
    /\ serviceRestarts' = serviceRestarts + 1
    /\ primed' = FALSE /\ backoff' = FALSE /\ phase' = "poll" /\ rx' = None
    /\ rspOut' = None /\ cmdIn' = None /\ cmdRead' = 0
    /\ trouble' = "restart" /\ probed' = FALSE
    /\ UNCHANGED <<host, cmdOut, rspIn, rspRead, ran, hostRestarts, faults>>

-----------------------------------------------------------------------------

Host    == \/ Probe \/ Accept \/ Ignore \/ Timeout \/ Fault \/ HostRestart
           \/ \E kind \in Kinds \ {Nop} : Command(kind)
Service == Read \/ Handle \/ Reply \/ ReadFault \/ BackoffEnds \/ ServiceRestart

Next == CarryCommand \/ CarryResponse \/ Host \/ Service

Spec == Init /\ [][Next]_vars

-----------------------------------------------------------------------------

Commands == {None} \cup
            [id : 1 .. MaxCommands, sequence : 0 .. SeqMod - 1, kind : Kinds]

TypeOK ==
    /\ nextSequence \in 0 .. SeqMod - 1
    /\ present \in BOOLEAN /\ primed \in BOOLEAN
    /\ backoff \in BOOLEAN /\ probed \in BOOLEAN
    /\ pending \in Commands /\ rx \in Commands
    /\ cmdOut \in Commands /\ cmdIn \in Commands
    /\ rspOut \in Commands /\ rspIn \in Commands
    /\ tries \in 0 .. Tries
    /\ issued \in 0 .. MaxCommands
    /\ cmdRead \in 0 .. MaxCommands /\ rspRead \in 0 .. MaxCommands
    /\ phase \in {"poll", "handle", "reply"}
    /\ ran \subseteq 0 .. MaxCommands
    /\ trouble \in {"none", "fault", "restart"}
    /\ hostRestarts \in 0 .. MaxHostRestarts
    /\ serviceRestarts \in 0 .. MaxServiceRestarts
    /\ faults \in 0 .. MaxFaults

(* "it may already have run it, so it drops the first command it sees"     *)
(* (sidecar.h:22-24): no command is run a second time, or after a later    *)
(* one, whichever end restarts and whenever (sidecar.cpp:211-214).         *)
AtMostOnce == phase = "handle" => \A id \in ran : id < rx.id

(* What makes AtMostOnce inductive: the ids on the way to the service only *)
(* grow, a primed service has read past every command that ran, and what   *)
(* an unprimed one can read, and will drop, is no older than those.        *)
ReadPast ==
    /\ cmdOut.id \in {0, issued}
    /\ cmdIn.id # 0 => cmdRead <= cmdIn.id
    /\ cmdIn.id <= issued /\ cmdRead <= issued
    /\ \A id \in ran : id <= issued
    /\ primed => \A id \in ran : id <= cmdRead
    /\ ~primed /\ cmdIn.id # 0 => \A id \in ran : id <= cmdIn.id
    /\ phase # "poll" => primed /\ rx.id = cmdRead

OnceInv == TypeOK /\ ReadPast /\ AtMostOnce

(* "Responses to other commands (e.g. left on the wire from before a       *)
(* restart) are ignored" (sidecar.h:19-20): what transact() returns as Ok  *)
(* is the response to this very command, and its handler was called.       *)
OwnResponse == [][Accept => rspIn.id = pending.id /\ pending.id \in ran]_vars

(* "A command sent before a successful probe() may be dropped"             *)
(* (sidecar.h:96): one sent after it is not, unless an end restarts.       *)
NoDropAfterProbe == [][Read /\ ~primed => ~probed]_vars

(* probe() tells the host "whether a Sidecar is there at all"              *)
(* (sidecar.h:25-26): a probe with time for a second Nop misses a Sidecar, *)
(* and a command sent after the probe goes without its response, only when *)
(* the link faults, an answer is late or an end restarts meanwhile.        *)
UndisturbedIsAnswered ==
    [][/\ Tries > 1 /\ ~Idle /\ pending' = None
       /\ Probing \/ probed
       /\ trouble' = "none"
       => Accept]_vars
=============================================================================
