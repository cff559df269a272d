---------------------------- MODULE DeviceControl ----------------------------
(***************************************************************************)
(* Setpoint and mode commands to heat pumps: validation, the throttle, the *)
(* row of control_commands and the channel that carries the command away   *)
(* (backend/src/services/deviceControlService.ts and                       *)
(* repositories/controlCommandsRepository.ts).  setDeviceSetpoint and      *)
(* setDeviceMode take the same steps and share one throttle.               *)
(*                                                                         *)
(* The channel is the vendor's HTTP endpoint, or an MQTT client of its own *)
(* that reconnects by itself and publishes with qos 1: a packet nobody has *)
(* acknowledged is sent again.  What the server learns is the broker's     *)
(* PUBACK or a 2xx, never what the pump did.                               *)
(*                                                                         *)
(* Every statement commits by itself; other requests run between two.      *)
(* Time is in ticks, and a row only knows its age, counted up to Window.   *)
(* Left out: a channel that is not configured, for which nothing but a     *)
(* status is written, and system_status.                                   *)
(***************************************************************************)
EXTENDS Naturals

CONSTANTS
  Device,     \* devices with an external id
  Command,    \* ids of rows of control_commands
  Request,    \* slots for requests being served at the same time
  None,       \* SQL null
  Window,     \* CONTROL_COMMAND_THROTTLE_MS
  MaxAhead,   \* bound: how far the server's clock is ahead of the database's
  MaxCopies,  \* bound: how often the channel sends one command
  MayFail     \* may a statement throw, or the process die

ASSUME IdsAssumption == None \notin Device \cup Command
ASSUME WindowAssumption == Window \in Nat /\ MaxAhead \in 0 .. Window
ASSUME CopiesAssumption == MaxCopies \in Nat
ASSUME FailAssumption == MayFail \in BOOLEAN

VARIABLES
  commands,   \* control_commands; a row whose device is None has not been inserted
  reqs,       \* the requests being served
  channel     \* the commands whose packet the channel still has to send, or to send again

vars == <<commands, reqs, channel>>

Status == {"pending", "success", "failed"}
Cause  == {"none", "VALIDATION", "THROTTLED", "SEND_FAILED"}
Pc     == {"idle", "check", "refuse", "insert", "send", "wait", "succeed", "fail"}

\* SEND_FAILED stands for EXTERNAL_ERROR too.  The last three fields are history: how many
\* copies of the command have left for the broker or the vendor, which rows the throttle had
\* seen, and which were recent when the row was inserted
CommandRow == [device : Device \cup {None}, status : Status, cause : Cause,
               age : 0 .. Window,
               sent : 0 .. MaxCopies, saw : SUBSET Command, recent : SUBSET Command]
Req == [pc : Pc, device : Device \cup {None}, cause : Cause,
        command : Command \cup {None}, saw : SUBSET Command]

TypeOK ==
  /\ commands \in [Command -> CommandRow]
  /\ reqs \in [Request -> Req]
  /\ channel \in SUBSET Command

NoCommand == [device |-> None, status |-> "pending", cause |-> "none", age |-> 0,
              sent |-> 0, saw |-> {}, recent |-> {}]
NoRequest == [pc |-> "idle", device |-> None, cause |-> "none", command |-> None,
              saw |-> {}]

Init ==
  /\ commands = [c \in Command |-> NoCommand]
  /\ reqs = [r \in Request |-> NoRequest]
  /\ channel = {}

OfDevice(d)     == {c \in Command : commands[c].device = d}
At(r, pc)       == reqs[r].pc = pc
Become(r, now)  == reqs' = [reqs EXCEPT ![r] = now]
Goto(r, pc)     == Become(r, [reqs[r] EXCEPT !.pc = pc])

\* validateSetpointCommand or validateModeCommand against the device's row
Begin(r, d) ==
  /\ At(r, "idle")
  /\ \/ Become(r, [NoRequest EXCEPT !.pc = "check", !.device = d])
     \/ Become(r, [NoRequest EXCEPT !.pc = "refuse", !.device = d, !.cause = "VALIDATION"])
  /\ UNCHANGED <<commands, channel>>

\* mutant: only commands that were carried out count
CheckSuccesses(r) ==
  LET rows == {c \in OfDevice(reqs[r].device) : commands[c].status = "success"} IN
  /\ At(r, "check")
  /\ \E ahead \in 0 .. MaxAhead :
       IF \E c \in rows : commands[c].age + ahead < Window
       THEN Become(r, [reqs[r] EXCEPT !.pc = "refuse", !.cause = "THROTTLED"])
       ELSE Become(r, [reqs[r] EXCEPT !.pc = "insert", !.saw = OfDevice(reqs[r].device)])
  /\ UNCHANGED <<commands, channel>>

\* enforceCommandThrottle: the newest row counts, whatever became of it
Check(r) ==
  LET rows == OfDevice(reqs[r].device) IN
  /\ At(r, "check")
  /\ \E ahead \in 0 .. MaxAhead :
       IF \E c \in rows : commands[c].age + ahead < Window
       THEN Become(r, [reqs[r] EXCEPT !.pc = "refuse", !.cause = "THROTTLED"])
       ELSE Become(r, [reqs[r] EXCEPT !.pc = "insert", !.saw = rows])
  /\ UNCHANGED <<commands, channel>>

\* insertCommandRow
NewCommand(r, status) ==
  [NoCommand EXCEPT
     !.device = reqs[r].device, !.status = status, !.cause = reqs[r].cause,
     !.saw = reqs[r].saw,
     !.recent = {c \in OfDevice(reqs[r].device) : commands[c].age < Window - MaxAhead}]

\* a refused command leaves a failed row, and the next throttle counts from it
Refuse(r, c) ==
  /\ At(r, "refuse")
  /\ commands[c].device = None
  /\ commands' = [commands EXCEPT ![c] = NewCommand(r, "failed")]
  /\ Become(r, NoRequest)
  /\ UNCHANGED channel

Insert(r, c) ==
  /\ At(r, "insert")
  /\ commands[c].device = None
  /\ commands' = [commands EXCEPT ![c] = NewCommand(r, "pending")]
  /\ Become(r, [reqs[r] EXCEPT !.pc = "send", !.command = c, !.saw = {}])
  /\ UNCHANGED channel

\* sendSetpointToExternal or sendModeToExternal: the command is handed to the channel
Publish(r) ==
  /\ At(r, "send")
  /\ channel' = channel \cup {reqs[r].command}
  /\ Goto(r, "wait")
  /\ UNCHANGED commands

\* a copy leaves: at once, when the broker is back, or once more because the
\* acknowledgement of the one before was lost; by then its request may be over
Transmit(c) ==
  /\ c \in channel
  /\ commands[c].sent < MaxCopies
  /\ commands' = [commands EXCEPT ![c].sent = @ + 1]
  /\ UNCHANGED <<reqs, channel>>

\* the broker acknowledges, or the vendor answers 2xx
Acknowledge(r) ==
  /\ At(r, "wait")
  /\ commands[reqs[r].command].sent > 0
  /\ channel' = channel \ {reqs[r].command}
  /\ Goto(r, "succeed")
  /\ UNCHANGED commands

\* the channel has the command no more, or keeps it all the same
MayForget(c) == channel' \in {channel, channel \ {c}}

\* mutant: an error of the channel is logged, and success recorded
SendFailsIgnored(r) ==
  /\ reqs[r].pc \in {"send", "wait"}
  /\ MayForget(reqs[r].command)
  /\ Goto(r, "succeed")
  /\ UNCHANGED commands

\* the client or fetch reports an error, or the vendor an error status; the command may
\* have left before, and a packet the client keeps may leave after
SendFails(r) ==
  /\ reqs[r].pc \in {"send", "wait"}
  /\ MayForget(reqs[r].command)
  /\ Goto(r, "fail")
  /\ UNCHANGED commands

\* mutant: a status that is none of CommandStatus
SucceedPending(r) ==
  /\ At(r, "succeed")
  /\ commands' = [commands EXCEPT ![reqs[r].command].status = "ok"]
  /\ Become(r, NoRequest)
  /\ UNCHANGED channel

\* markCommandSuccess.  If it throws, having taken effect or not, the catch block of the
\* send marks the row failed
Succeed(r) ==
  LET done == [commands EXCEPT ![reqs[r].command].status = "success"] IN
  /\ At(r, "succeed")
  /\ \/ commands' = done /\ Become(r, NoRequest)
     \/ MayFail /\ commands' \in {commands, done} /\ Goto(r, "fail")
  /\ UNCHANGED channel

\* markCommandFailure
RecordFailure(r) ==
  /\ At(r, "fail")
  /\ commands' = [commands EXCEPT ![reqs[r].command].status = "failed",
                                  ![reqs[r].command].cause = "SEND_FAILED"]
  /\ Become(r, NoRequest)
  /\ UNCHANGED channel

\* any other statement throws, or the process dies: a row it has inserted stays pending,
\* and a command it was sending may still leave
CutOff(r) ==
  /\ MayFail
  /\ ~At(r, "idle")
  /\ MayForget(reqs[r].command)
  /\ Become(r, NoRequest)
  /\ UNCHANGED commands

Tick ==
  /\ commands' = [c \in Command |->
       IF commands[c].device # None /\ commands[c].age < Window
       THEN [commands[c] EXCEPT !.age = @ + 1] ELSE commands[c]]
  /\ UNCHANGED <<reqs, channel>>

Step(r) ==
  \/ \E d \in Device : Begin(r, d)
  \/ Check(r)
  \/ \E c \in Command : Refuse(r, c) \/ Insert(r, c)
  \/ Publish(r) \/ Acknowledge(r) \/ SendFails(r)
  \/ Succeed(r) \/ RecordFailure(r)
  \/ CutOff(r)

Next ==
  \/ Tick
  \/ \E c \in Command : Transmit(c)
  \/ \E r \in Request : Step(r)

Spec == Init /\ [][Next]_vars

(***************************************************************************)
(* Properties                                                              *)
(***************************************************************************)

\* The rows tell the truth about the channel: a command recorded as success has left the
\* server, acknowledged, once at least, and none that was refused ever leaves, although
\* the hand-over, the sending and the record of it are far apart, copies leave after the
\* request has ended, and any of the steps may fail.  Nothing is promised of how often an
\* accepted command arrives, nor that one recorded as failed does not.
AuditIsTrue ==
  \A c \in Command :
    /\ commands[c].status = "success" => commands[c].sent > 0
    /\ commands[c].cause \in {"VALIDATION", "THROTTLED"} =>
         commands[c].status = "failed" /\ commands[c].sent = 0 /\ c \notin channel

\* The throttle lets nothing through but what it could not see: a command accepted while
\* another of its device was recent is one whose check had run before the other's insert.
OnlyOverlapEscapes ==
  \A c \in Command :
    commands[c].cause \in {"none", "SEND_FAILED"} => commands[c].saw \cap commands[c].recent = {}

(***************************************************************************)
(* What the documents say and the code does not do                         *)
(***************************************************************************)

\* backend/README.md, "CONTROL_COMMAND_THROTTLE_MS bounds repeat commands to the same
\* device": of two commands to a device within the window, one at most is accepted.
Throttled ==
  \A c \in Command : commands[c].cause = "none" =>
    \A b \in commands[c].recent : commands[b].cause \in {"VALIDATION", "THROTTLED"}
=============================================================================
