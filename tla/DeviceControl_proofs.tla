------------------------ MODULE DeviceControl_proofs ------------------------
(* Proofs about DeviceControl, for any devices, rows, requests and window *)
EXTENDS DeviceControl, TLAPS

(***************************************************************************)
(* The inductive invariant                                                 *)
(***************************************************************************)
Carrying(r) == reqs[r].pc \in {"send", "wait", "succeed", "fail"}

\* what a request that carries a command knows of its row
CarriedInv(r) ==
  LET c == reqs[r].command IN
  /\ c \in Command
  /\ commands[c].device # None
  /\ commands[c].cause = "none"
  /\ reqs[r].pc # "fail" => commands[c].status = "pending"
  /\ reqs[r].pc = "succeed" => commands[c].sent > 0
  /\ commands[c].status # "failed"

\* what a request knows before it inserts: a row its check saw was old then, and ages on
CheckedInv(r) ==
  /\ reqs[r].pc \in {"check", "refuse", "insert"} => reqs[r].device \in Device
  /\ reqs[r].pc = "refuse" => reqs[r].cause \in {"VALIDATION", "THROTTLED"}
  /\ reqs[r].pc \in {"check", "insert"} => reqs[r].cause = "none"
  /\ reqs[r].pc = "insert" =>
       \A c \in reqs[r].saw : /\ commands[c].device # None
                              /\ commands[c].age >= Window - MaxAhead

ReqsInv ==
  /\ \A r \in Request : CheckedInv(r) /\ (Carrying(r) => CarriedInv(r))
  /\ \A q, r \in Request :
       Carrying(q) /\ Carrying(r) /\ reqs[q].command = reqs[r].command => q = r

\* only a command that was accepted is ever handed to the channel
ChannelInv ==
  \A c \in channel : /\ commands[c].device # None
                     /\ commands[c].cause \in {"none", "SEND_FAILED"}

IInv == TypeOK /\ ReqsInv /\ ChannelInv /\ AuditIsTrue /\ OnlyOverlapEscapes

\* what AuditIsTrue and OnlyOverlapEscapes say of a row
RowOK(x) ==
  /\ x.status = "success" => x.sent > 0
  /\ x.cause \in {"VALIDATION", "THROTTLED"} => x.sent = 0 /\ x.status = "failed"
  /\ x.cause \in {"none", "SEND_FAILED"} => x.saw \cap x.recent = {}

USE IdsAssumption, WindowAssumption, CopiesAssumption, FailAssumption

(***************************************************************************)
(* Types                                                                   *)
(***************************************************************************)

\* A row that is inserted, field by field.
LEMMA NewCommandFields ==
  ASSUME TypeOK, NEW r \in Request, reqs[r].device \in Device, NEW s \in Status
  PROVE  LET x == NewCommand(r, s) IN
         /\ x \in CommandRow
         /\ x.device = reqs[r].device /\ x.status = s /\ x.cause = reqs[r].cause
         /\ x.age = 0 /\ x.sent = 0 /\ x.saw = reqs[r].saw
         /\ x.recent = {c \in OfDevice(reqs[r].device) : commands[c].age < Window - MaxAhead}
<1> DEFINE recent == {c \in OfDevice(reqs[r].device) : commands[c].age < Window - MaxAhead}
<1>1. reqs[r] \in Req
  BY DEF TypeOK
<1>2. recent \in SUBSET Command
  BY DEF OfDevice
<1>3. NewCommand(r, s) =
        [NoCommand EXCEPT !.device = reqs[r].device, !.status = s, !.cause = reqs[r].cause,
                          !.saw = reqs[r].saw, !.recent = recent]
  BY Zenon DEF NewCommand
<1> HIDE DEF recent
<1>a. NewCommand(r, s) = [device |-> reqs[r].device, status |-> s, cause |-> reqs[r].cause,
        age |-> 0, sent |-> 0, saw |-> reqs[r].saw, recent |-> recent]
  BY <1>3 DEF NoCommand
<1>4. NewCommand(r, s) \in CommandRow
  BY <1>1, <1>2, <1>a DEF CommandRow, Req
<1> QED
  BY <1>4, <1>a DEF recent

\* The values a request takes have their type.
LEMMA RequestTypes ==
  ASSUME TypeOK, NEW r \in Request
  PROVE  /\ NoRequest \in Req
         /\ \A pc \in Pc : [reqs[r] EXCEPT !.pc = pc] \in Req
         /\ \A c \in Command :
              [reqs[r] EXCEPT !.pc = "send", !.command = c, !.saw = {}] \in Req
         /\ [reqs[r] EXCEPT !.pc = "refuse", !.cause = "THROTTLED"] \in Req
         /\ [reqs[r] EXCEPT !.pc = "insert", !.saw = OfDevice(reqs[r].device)] \in Req
         /\ \A d \in Device : /\ [NoRequest EXCEPT !.pc = "check", !.device = d] \in Req
                              /\ [NoRequest EXCEPT !.pc = "refuse", !.device = d,
                                                   !.cause = "VALIDATION"] \in Req
<1>1. reqs[r] \in Req
  BY DEF TypeOK
<1>2. OfDevice(reqs[r].device) \in SUBSET Command
  BY DEF OfDevice
<1>3. NoRequest \in Req
  BY DEF NoRequest, Req, Pc, Cause
<1>4. \A d \in Device : /\ [NoRequest EXCEPT !.pc = "check", !.device = d] \in Req
                        /\ [NoRequest EXCEPT !.pc = "refuse", !.device = d,
                                             !.cause = "VALIDATION"] \in Req
  BY <1>3 DEF Req, Pc, Cause
<1> QED
  BY <1>1, <1>2, <1>3, <1>4 DEF Req, Pc, Cause

(***************************************************************************)
(* What a step leaves to the other requests                                *)
(***************************************************************************)

\* The rows may change so that no other request notices: those inserted stay and age,
\* and those the others carry are not touched.
RowsKept(r) ==
  /\ \A c \in Command : commands[c].device # None =>
       commands'[c].device # None /\ commands'[c].age >= commands[c].age
  /\ \A q \in Request \ {r} : Carrying(q) =>
       commands'[reqs[q].command] = commands[reqs[q].command]

\* A request that moves disturbs no other.
LEMMA OthersKept ==
  ASSUME TypeOK, ReqsInv, NEW r \in Request, NEW y \in Req, reqs' = [reqs EXCEPT ![r] = y],
         TypeOK', RowsKept(r)
  PROVE  \A q \in Request \ {r} : CheckedInv(q)' /\ (Carrying(q)' => CarriedInv(q)')
<1> SUFFICES ASSUME NEW q \in Request \ {r}
             PROVE  CheckedInv(q)' /\ (Carrying(q)' => CarriedInv(q)')
  OBVIOUS
<1>1. reqs'[q] = reqs[q] /\ reqs[q] \in Req
  BY DEF TypeOK
<1>2. CheckedInv(q) /\ (Carrying(q) => CarriedInv(q))
  BY DEF ReqsInv
<1>3. CheckedInv(q)'
  <2>1. ASSUME reqs[q].pc = "insert", NEW c \in reqs[q].saw
        PROVE  commands'[c].device # None /\ commands'[c].age >= Window - MaxAhead
    <3>1. c \in Command /\ commands[c].device # None /\ commands[c].age >= Window - MaxAhead
      BY <1>1, <1>2, <2>1 DEF CheckedInv, Req
    <3>2. commands'[c].device # None /\ commands'[c].age >= commands[c].age
      BY <3>1 DEF RowsKept
    <3>3. commands[c].age \in Nat /\ commands'[c].age \in Nat
      BY <3>1 DEF TypeOK, CommandRow
    <3> QED
      BY <3>1, <3>2, <3>3
  <2> QED
    BY <1>1, <1>2, <2>1 DEF CheckedInv
<1>4. Carrying(q)' => CarriedInv(q)'
  BY <1>1, <1>2 DEF RowsKept, Carrying, CarriedInv
<1> QED
  BY <1>3, <1>4

\* A step of a request that leaves the rows alone.
LEMMA RequestStep ==
  ASSUME IInv, NEW r \in Request, NEW y \in Req, reqs' = [reqs EXCEPT ![r] = y],
         commands' = commands,
         \/ channel' \in {channel, channel \ {reqs[r].command}}
         \/ Carrying(r) /\ channel' = channel \cup {reqs[r].command},
         CheckedInv(r)', Carrying(r)' => CarriedInv(r)',
         Carrying(r)' => Carrying(r) /\ y.command = reqs[r].command
  PROVE  IInv'
<1>a. Carrying(r) => CarriedInv(r)
  BY DEF IInv, ReqsInv
<1>1. TypeOK'
  BY <1>a DEF IInv, TypeOK, CarriedInv
<1>2. RowsKept(r)
  BY DEF IInv, TypeOK, CommandRow, RowsKept
<1>b. ChannelInv'
  BY <1>a DEF IInv, ChannelInv, CarriedInv
<1>c. AuditIsTrue'
  <2>1. \A c \in channel' : commands'[c].cause \in {"none", "SEND_FAILED"}
    BY <1>b DEF ChannelInv
  <2> QED
    BY <2>1 DEF IInv, AuditIsTrue
<1>3. \A q \in Request \ {r} : CheckedInv(q)' /\ (Carrying(q)' => CarriedInv(q)')
  BY <1>1, <1>2, OthersKept DEF IInv
<1>4. \A p, q \in Request :
        Carrying(p)' /\ Carrying(q)' /\ reqs'[p].command = reqs'[q].command => p = q
  BY DEF IInv, TypeOK, ReqsInv, Carrying
<1>5. ReqsInv'
  BY <1>3, <1>4 DEF ReqsInv
<1> QED
  BY <1>1, <1>5, <1>b, <1>c DEF IInv, OnlyOverlapEscapes

\* A step of a request that writes a row: a new one, or the one it carries.
LEMMA RowStep ==
  ASSUME IInv, NEW r \in Request, NEW y \in Req, reqs' = [reqs EXCEPT ![r] = y],
         NEW c \in Command, NEW x \in CommandRow, commands' = [commands EXCEPT ![c] = x],
         \/ commands[c].device = None
         \/ Carrying(r) /\ reqs[r].command = c /\ x.age = commands[c].age,
         x.device # None, RowOK(x),
         c \in channel => x.cause \in {"none", "SEND_FAILED"},
         channel' = channel,
         CheckedInv(r)', Carrying(r)' => CarriedInv(r)' /\ y.command = c
  PROVE  IInv'
<1>1. TypeOK'
  BY DEF IInv, TypeOK
<1>2. \A q \in Request \ {r} : Carrying(q) => reqs[q].command # c
  BY DEF IInv, ReqsInv, CarriedInv
<1>3. RowsKept(r)
  <2>1. \A b \in Command : commands'[b] = IF b = c THEN x ELSE commands[b]
    BY DEF IInv, TypeOK
  <2>2. \A q \in Request : Carrying(q) => reqs[q].command \in Command
    BY DEF IInv, ReqsInv, CarriedInv
  <2>3. \A b \in Command : commands[b].age \in Nat
    BY DEF IInv, TypeOK, CommandRow
  <2>4. \A b \in Command : commands[b].device # None =>
          commands'[b].device # None /\ commands'[b].age >= commands[b].age
    BY <2>1, <2>3
  <2> QED
    BY <1>2, <2>1, <2>2, <2>4 DEF RowsKept
<1>4. \A q \in Request \ {r} : CheckedInv(q)' /\ (Carrying(q)' => CarriedInv(q)')
  BY <1>1, <1>3, OthersKept DEF IInv
<1>5. \A p, q \in Request :
        Carrying(p)' /\ Carrying(q)' /\ reqs'[p].command = reqs'[q].command => p = q
  BY <1>2 DEF IInv, TypeOK, ReqsInv, Carrying
<1>6. ReqsInv'
  BY <1>4, <1>5 DEF ReqsInv
<1>7. ChannelInv'
  BY DEF IInv, TypeOK, ChannelInv
<1>8. AuditIsTrue'
  BY DEF IInv, TypeOK, AuditIsTrue, RowOK
<1>9. OnlyOverlapEscapes'
  BY DEF IInv, TypeOK, OnlyOverlapEscapes, RowOK
<1> QED
  BY <1>1, <1>6, <1>7, <1>8, <1>9 DEF IInv

(***************************************************************************)
(* The steps                                                               *)
(***************************************************************************)

\* Nothing is inserted and nobody is served.
LEMMA InitIInv == Init => IInv
<1> SUFFICES ASSUME Init PROVE IInv
  OBVIOUS
<1>1. TypeOK
  BY DEF Init, NoCommand, NoRequest, TypeOK, CommandRow, Status, Cause, Req, Pc
<1>2. ReqsInv
  BY DEF Init, NoRequest, ReqsInv, CheckedInv, Carrying
<1> QED
  BY <1>1, <1>2 DEF IInv, Init, NoCommand, ChannelInv, AuditIsTrue, OnlyOverlapEscapes

LEMMA BeginKeeps ==
  ASSUME IInv, NEW r \in Request, NEW d \in Device, Begin(r, d)
  PROVE  IInv'
<1>1. PICK y \in {[NoRequest EXCEPT !.pc = "check", !.device = d],
                  [NoRequest EXCEPT !.pc = "refuse", !.device = d, !.cause = "VALIDATION"]} :
        reqs' = [reqs EXCEPT ![r] = y]
  BY DEF Begin, Become
<1>2. y \in Req
  BY <1>1, RequestTypes DEF IInv
<1>3. reqs'[r] = y /\ commands' = commands /\ channel' = channel
  BY <1>1 DEF Begin, IInv, TypeOK
<1>4. CheckedInv(r)' /\ ~Carrying(r)'
  BY <1>1, <1>3 DEF CheckedInv, Carrying, NoRequest
<1> QED
  BY <1>1, <1>2, <1>3, <1>4, RequestStep

LEMMA CheckKeeps ==
  ASSUME IInv, NEW r \in Request, Check(r)
  PROVE  IInv'
<1>1. /\ TypeOK /\ reqs[r] \in Req /\ reqs[r].pc = "check"
      /\ reqs[r].device \in Device /\ reqs[r].cause = "none" /\ commands' = commands
      /\ channel' = channel
  BY DEF Check, At, IInv, TypeOK, ReqsInv, CheckedInv
<1>2. PICK ahead \in 0 .. MaxAhead :
        \/ Become(r, [reqs[r] EXCEPT !.pc = "refuse", !.cause = "THROTTLED"])
        \/ /\ \A c \in OfDevice(reqs[r].device) : ~(commands[c].age + ahead < Window)
           /\ Become(r, [reqs[r] EXCEPT !.pc = "insert", !.saw = OfDevice(reqs[r].device)])
  BY DEF Check
<1>3. CASE Become(r, [reqs[r] EXCEPT !.pc = "refuse", !.cause = "THROTTLED"])
  <2>1. CheckedInv(r)' /\ ~Carrying(r)'
    BY <1>1, <1>3 DEF Become, TypeOK, Req, CheckedInv, Carrying
  <2> QED
    BY <1>1, <1>3, <2>1, RequestTypes, RequestStep DEF Become
<1>4. CASE /\ \A c \in OfDevice(reqs[r].device) : ~(commands[c].age + ahead < Window)
           /\ Become(r, [reqs[r] EXCEPT !.pc = "insert", !.saw = OfDevice(reqs[r].device)])
  <2>1. \A c \in OfDevice(reqs[r].device) :
          commands[c].device # None /\ commands[c].age >= Window - MaxAhead
    BY <1>1, <1>4 DEF OfDevice, TypeOK, CommandRow
  <2>2. /\ reqs'[r].pc = "insert" /\ reqs'[r].device = reqs[r].device
        /\ reqs'[r].cause = reqs[r].cause /\ reqs'[r].saw = OfDevice(reqs[r].device)
    BY <1>1, <1>4 DEF Become, TypeOK, Req
  <2>3. CheckedInv(r)' /\ ~Carrying(r)'
    BY <1>1, <2>1, <2>2 DEF CheckedInv, Carrying
  <2> QED
    BY <1>1, <1>4, <2>3, RequestTypes, RequestStep DEF Become
<1> QED
  BY <1>2, <1>3, <1>4

LEMMA RefuseKeeps ==
  ASSUME IInv, NEW r \in Request, NEW c \in Command, Refuse(r, c)
  PROVE  IInv'
<1>1. /\ TypeOK /\ reqs[r].device \in Device
      /\ reqs[r].cause \in {"VALIDATION", "THROTTLED"}
  BY DEF Refuse, At, IInv, ReqsInv, CheckedInv
<1>2. /\ commands[c].device = None /\ commands' = [commands EXCEPT ![c] = NewCommand(r, "failed")]
      /\ reqs' = [reqs EXCEPT ![r] = NoRequest] /\ channel' = channel /\ c \notin channel
  BY DEF Refuse, Become, IInv, ChannelInv
<1>3. NewCommand(r, "failed") \in CommandRow /\ RowOK(NewCommand(r, "failed"))
      /\ NewCommand(r, "failed").device # None
  BY <1>1, NewCommandFields DEF Status, RowOK
<1>4. CheckedInv(r)' /\ ~Carrying(r)'
  BY <1>1, <1>2 DEF TypeOK, NoRequest, CheckedInv, Carrying
<1>5. NoRequest \in Req
  BY <1>1, RequestTypes
<1> QED
  BY <1>2, <1>3, <1>4, <1>5, RowStep

LEMMA InsertKeeps ==
  ASSUME IInv, NEW r \in Request, NEW c \in Command, Insert(r, c)
  PROVE  IInv'
<1> DEFINE x == NewCommand(r, "pending")
           y == [reqs[r] EXCEPT !.pc = "send", !.command = c, !.saw = {}]
<1>1. /\ TypeOK /\ reqs[r] \in Req /\ reqs[r].device \in Device /\ reqs[r].cause = "none"
      /\ \A b \in reqs[r].saw : commands[b].age >= Window - MaxAhead
  BY DEF Insert, At, IInv, TypeOK, ReqsInv, CheckedInv
<1>2. /\ commands[c].device = None /\ commands' = [commands EXCEPT ![c] = x]
      /\ reqs' = [reqs EXCEPT ![r] = y] /\ channel' = channel
  BY DEF Insert, Become
<1>3. /\ x \in CommandRow /\ x.device = reqs[r].device /\ x.status = "pending"
      /\ x.cause = "none" /\ x.age = 0 /\ x.sent = 0 /\ x.saw = reqs[r].saw
      /\ x.recent = {b \in OfDevice(reqs[r].device) : commands[b].age < Window - MaxAhead}
  BY <1>1, NewCommandFields DEF Status
<1>4. reqs[r].saw \cap {b \in OfDevice(reqs[r].device) : commands[b].age < Window - MaxAhead} = {}
  BY <1>1 DEF OfDevice, TypeOK, CommandRow, Req
<1>5. x.device # None /\ RowOK(x)
  BY <1>1, <1>3, <1>4 DEF RowOK
<1>6. y \in Req /\ y.command = c
  BY <1>1, RequestTypes DEF Req
<1>7. reqs'[r].pc = "send" /\ reqs'[r].command = c /\ commands'[c] = x
  BY <1>1, <1>2 DEF TypeOK, Req
<1>8. CheckedInv(r)' /\ CarriedInv(r)'
  BY <1>3, <1>5, <1>7 DEF CheckedInv, CarriedInv
<1> HIDE DEF x, y
<1> QED
  BY <1>2, <1>3, <1>5, <1>6, <1>8, RowStep

\* What a request that carries a command may make of its row, and may do next.
Becomes(row, x, y) ==
  /\ x.device = row.device /\ x.age = row.age /\ x.saw = row.saw /\ x.recent = row.recent
  /\ x.status = "success" => x.sent > 0
  /\ x.cause \in {"none", "SEND_FAILED"}
  /\ y.pc # "idle" => x.cause = "none" /\ x.status # "failed"

\* A request that carries a command goes on, or comes to its end.
LEMMA CarriedStep ==
  ASSUME IInv, NEW r \in Request, Carrying(r), NEW y \in Req,
         y = NoRequest \/ (y.command = reqs[r].command /\ y.pc = "fail"),
         reqs' = [reqs EXCEPT ![r] = y], channel' = channel,
         NEW x \in CommandRow, commands' = [commands EXCEPT ![reqs[r].command] = x],
         Becomes(commands[reqs[r].command], x, y)
  PROVE  IInv'
<1> DEFINE c == reqs[r].command
<1>1. TypeOK /\ reqs[r] \in Req /\ CarriedInv(r)
  BY DEF IInv, TypeOK, ReqsInv
<1>2. c \in Command /\ commands[c].device # None /\ commands[c].cause = "none"
  BY <1>1 DEF CarriedInv
<1>3. commands[c].saw \cap commands[c].recent = {}
  BY <1>2 DEF IInv, OnlyOverlapEscapes
<1>4. RowOK(x) /\ x.device # None
  BY <1>2, <1>3 DEF RowOK, Becomes
<1>5. reqs'[r] = y /\ commands'[c] = x
  BY <1>1, <1>2 DEF TypeOK
<1>6. CheckedInv(r)' /\ (Carrying(r)' => CarriedInv(r)' /\ y.command = c)
  BY <1>2, <1>4, <1>5 DEF CheckedInv, Carrying, CarriedInv, NoRequest, Becomes
<1>7. c = reqs[r].command /\ commands' = [commands EXCEPT ![c] = x] /\ x.age = commands[c].age
      /\ x.cause \in {"none", "SEND_FAILED"}
  BY DEF Becomes
<1> HIDE DEF c
<1> QED
  BY <1>2, <1>4, <1>6, <1>7, RowStep

\* The values that the sends and the records of them give the row of a request.
LEMMA CarriedRow ==
  ASSUME IInv, NEW r \in Request, Carrying(r)
  PROVE  LET row == commands[reqs[r].command] IN
         /\ TypeOK /\ row \in CommandRow /\ CarriedInv(r)
         /\ reqs[r] \in Req /\ (row.status = "success" => row.sent > 0)
         /\ commands' = commands => commands' = [commands EXCEPT ![reqs[r].command] = row]
BY DEF IInv, TypeOK, ReqsInv, CarriedInv, AuditIsTrue

\* A request goes on, its row as it was, whatever the channel makes of the packet.
LEMMA CarriedGoesOn ==
  ASSUME IInv, NEW r \in Request, reqs[r].pc \in {"send", "wait"}, NEW pc \in Pc,
         Goto(r, pc), commands' = commands,
         pc = "wait" \/ pc = "fail" \/ (pc = "succeed" /\ commands[reqs[r].command].sent > 0),
         \/ channel' \in {channel, channel \ {reqs[r].command}}
         \/ channel' = channel \cup {reqs[r].command}
  PROVE  IInv'
<1> DEFINE y == [reqs[r] EXCEPT !.pc = pc]
<1>1. TypeOK /\ reqs[r] \in Req /\ Carrying(r) /\ CarriedInv(r)
  BY DEF IInv, TypeOK, ReqsInv, Carrying
<1>2. y \in Req /\ y.pc = pc /\ y.command = reqs[r].command
  BY <1>1 DEF Req
<1>3. reqs' = [reqs EXCEPT ![r] = y] /\ reqs'[r] = y
  BY <1>1 DEF Goto, Become, TypeOK
<1>4. CheckedInv(r)' /\ CarriedInv(r)'
  BY <1>1, <1>2, <1>3 DEF CheckedInv, CarriedInv
<1> HIDE DEF y
<1> QED
  BY <1>1, <1>2, <1>3, <1>4, RequestStep

LEMMA PublishKeeps ==
  ASSUME IInv, NEW r \in Request, Publish(r)
  PROVE  IInv'
BY CarriedGoesOn DEF Publish, At, Pc

LEMMA AcknowledgeKeeps ==
  ASSUME IInv, NEW r \in Request, Acknowledge(r)
  PROVE  IInv'
BY CarriedGoesOn DEF Acknowledge, At, Pc

LEMMA SendFailsKeeps ==
  ASSUME IInv, NEW r \in Request, SendFails(r)
  PROVE  IInv'
BY CarriedGoesOn DEF SendFails, MayForget, Pc

\* A copy leaves: whoever carries the row, or nobody any more, its count only grows.
LEMMA TransmitKeeps ==
  ASSUME IInv, NEW c \in Command, Transmit(c)
  PROVE  IInv'
<1> DEFINE x == [commands[c] EXCEPT !.sent = @ + 1]
<1>1. /\ TypeOK /\ c \in channel /\ commands[c] \in CommandRow
      /\ commands[c].cause \in {"none", "SEND_FAILED"}
      /\ commands' = [commands EXCEPT ![c] = x] /\ reqs' = reqs /\ channel' = channel
  BY DEF Transmit, IInv, TypeOK, ChannelInv
<1>2. /\ x \in CommandRow /\ x.device = commands[c].device /\ x.status = commands[c].status
      /\ x.cause = commands[c].cause /\ x.age = commands[c].age /\ x.saw = commands[c].saw
      /\ x.recent = commands[c].recent /\ x.sent > 0
  BY <1>1 DEF CommandRow, Transmit
<1> HIDE DEF x
<1>3. TypeOK'
  BY <1>1, <1>2 DEF TypeOK
<1>4. \A b \in Command :
        /\ commands'[b].device = commands[b].device /\ commands'[b].status = commands[b].status
        /\ commands'[b].cause = commands[b].cause /\ commands'[b].age = commands[b].age
        /\ commands'[b].saw = commands[b].saw /\ commands'[b].recent = commands[b].recent
        /\ commands'[b].sent = commands[b].sent \/ (b = c /\ commands'[b].sent > 0)
  BY <1>1, <1>2 DEF TypeOK
<1>5. ASSUME NEW r \in Request PROVE CheckedInv(r)' /\ (Carrying(r)' => CarriedInv(r)')
  <2>1. CheckedInv(r) /\ (Carrying(r) => CarriedInv(r)) /\ reqs[r] \in Req
    BY DEF IInv, TypeOK, ReqsInv
  <2>2. CheckedInv(r)'
    BY <1>1, <1>4, <2>1 DEF CheckedInv, Req
  <2>3. Carrying(r) => CarriedInv(r)'
    BY <1>1, <1>4, <2>1 DEF CarriedInv
  <2> QED
    BY <1>1, <2>2, <2>3 DEF Carrying
<1>6. ReqsInv'
  BY <1>1, <1>5 DEF IInv, ReqsInv, Carrying
<1>7. ChannelInv'
  BY <1>1, <1>4 DEF IInv, TypeOK, ChannelInv
<1>8. AuditIsTrue'
  BY <1>1, <1>4 DEF IInv, AuditIsTrue
<1>9. OnlyOverlapEscapes'
  BY <1>4 DEF IInv, OnlyOverlapEscapes
<1> QED
  BY <1>3, <1>6, <1>7, <1>8, <1>9 DEF IInv

LEMMA SucceedKeeps ==
  ASSUME IInv, NEW r \in Request, Succeed(r)
  PROVE  IInv'
<1> DEFINE c == reqs[r].command
           row == commands[c]
<1>1. /\ Carrying(r) /\ reqs[r] \in Req /\ row \in CommandRow
      /\ row.sent > 0 /\ row.status = "pending" /\ row.cause = "none" /\ c \in Command
      /\ commands' = commands => commands' = [commands EXCEPT ![c] = row]
      /\ channel' = channel
  BY CarriedRow DEF Succeed, At, Carrying, CarriedInv
<1>2. PICK y \in {NoRequest, [reqs[r] EXCEPT !.pc = "fail"]},
           x \in {row, [row EXCEPT !.status = "success"]} :
        reqs' = [reqs EXCEPT ![r] = y] /\ commands' = [commands EXCEPT ![c] = x]
  BY <1>1 DEF Succeed, Goto, Become
<1>3. y \in Req /\ (y = NoRequest \/ (y.command = c /\ y.pc = "fail"))
  <2>1. NoRequest \in Req /\ NoRequest.pc = "idle"
    BY <1>1, RequestTypes DEF IInv, NoRequest
  <2>2. LET z == [reqs[r] EXCEPT !.pc = "fail"] IN z \in Req /\ z.command = c /\ z.pc = "fail"
    BY <1>1 DEF Req, Pc
  <2> QED
    BY <2>1, <2>2
<1>4. x \in CommandRow /\ Becomes(row, x, y)
  BY <1>1, <1>2, <1>3 DEF CommandRow, Status, Becomes
<1> QED
  BY <1>1, <1>2, <1>3, <1>4, CarriedStep

LEMMA RecordFailureKeeps ==
  ASSUME IInv, NEW r \in Request, RecordFailure(r)
  PROVE  IInv'
<1> DEFINE c == reqs[r].command
           row == commands[c]
           x == [row EXCEPT !.status = "failed", !.cause = "SEND_FAILED"]
<1>1. Carrying(r) /\ row \in CommandRow /\ c \in Command /\ TypeOK /\ channel' = channel
  BY CarriedRow DEF RecordFailure, At, Carrying, CarriedInv
<1>2. reqs' = [reqs EXCEPT ![r] = NoRequest] /\ commands' = [commands EXCEPT ![c] = x]
  BY <1>1 DEF RecordFailure, Become, TypeOK
<1>3. NoRequest.pc = "idle" /\ NoRequest \in Req
  BY <1>1, RequestTypes DEF NoRequest
<1>4. x \in CommandRow /\ Becomes(row, x, NoRequest)
  BY <1>1, <1>3 DEF CommandRow, Status, Cause, Becomes
<1> HIDE DEF x
<1> QED
  BY <1>1, <1>2, <1>3, <1>4, CarriedStep

LEMMA CutOffKeeps ==
  ASSUME IInv, NEW r \in Request, CutOff(r)
  PROVE  IInv'
<1>1. /\ TypeOK /\ NoRequest \in Req /\ reqs' = [reqs EXCEPT ![r] = NoRequest]
      /\ commands' = commands /\ channel' \in {channel, channel \ {reqs[r].command}}
  BY RequestTypes DEF CutOff, MayForget, Become, IInv
<1>2. CheckedInv(r)' /\ ~Carrying(r)'
  BY <1>1 DEF TypeOK, NoRequest, CheckedInv, Carrying
<1> QED
  BY <1>1, <1>2, RequestStep

LEMMA TickKeeps ==
  ASSUME IInv, Tick
  PROVE  IInv'
<1>1. \A c \in Command :
        /\ commands'[c] \in CommandRow /\ commands'[c].device = commands[c].device
        /\ commands'[c].status = commands[c].status /\ commands'[c].cause = commands[c].cause
        /\ commands'[c].sent = commands[c].sent /\ commands'[c].saw = commands[c].saw
        /\ commands'[c].recent = commands[c].recent /\ commands'[c].age >= commands[c].age
  BY DEF Tick, IInv, TypeOK, CommandRow
<1>2. TypeOK' /\ reqs' = reqs /\ channel' = channel
  BY <1>1 DEF Tick, IInv, TypeOK
<1>3. ASSUME NEW r \in Request PROVE CheckedInv(r)' /\ (Carrying(r)' => CarriedInv(r)')
  <2>1. CheckedInv(r) /\ (Carrying(r) => CarriedInv(r)) /\ reqs[r] \in Req
    BY DEF IInv, TypeOK, ReqsInv
  <2>2. ASSUME reqs[r].pc = "insert", NEW c \in reqs[r].saw
        PROVE  commands'[c].device # None /\ commands'[c].age >= Window - MaxAhead
    <3>1. c \in Command /\ commands[c].device # None /\ commands[c].age >= Window - MaxAhead
      BY <2>1, <2>2 DEF CheckedInv, Req
    <3>2. commands[c].age \in Nat /\ commands'[c].age \in Nat
      BY <1>1, <3>1 DEF IInv, TypeOK, CommandRow
    <3> QED
      BY <1>1, <3>1, <3>2
  <2>3. CheckedInv(r)'
    BY <1>2, <2>1, <2>2 DEF CheckedInv
  <2> QED
    BY <1>1, <1>2, <2>1, <2>3 DEF Carrying, CarriedInv
<1>4. ReqsInv'
  BY <1>2, <1>3 DEF IInv, ReqsInv, Carrying
<1>5. ChannelInv'
  BY <1>1, <1>2 DEF IInv, TypeOK, ChannelInv
<1> QED
  BY <1>1, <1>2, <1>4, <1>5 DEF IInv, AuditIsTrue, OnlyOverlapEscapes

LEMMA StepIInv == IInv /\ [Next]_vars => IInv'
<1> SUFFICES ASSUME IInv, [Next]_vars PROVE IInv'
  OBVIOUS
<1>1. CASE Tick
  BY <1>1, TickKeeps
<1>2. ASSUME NEW r \in Request, Step(r) PROVE IInv'
  BY <1>2, BeginKeeps, CheckKeeps, RefuseKeeps, InsertKeeps, PublishKeeps,
     AcknowledgeKeeps, SendFailsKeeps, SucceedKeeps, RecordFailureKeeps, CutOffKeeps DEF Step
<1>4. ASSUME NEW c \in Command, Transmit(c) PROVE IInv'
  BY <1>4, TransmitKeeps
<1>3. CASE UNCHANGED vars
  BY <1>3 DEF vars, IInv, TypeOK, ReqsInv, CheckedInv, Carrying, CarriedInv, ChannelInv, AuditIsTrue,
              OnlyOverlapEscapes
<1> QED
  BY <1>1, <1>2, <1>3, <1>4 DEF Next

\* The induction behind the theorems below.
THEOREM Invariance == Spec => []IInv
BY InitIInv, StepIInv, PTL DEF Spec

\* Rows and requests keep their types whatever fails between two statements.
THEOREM TypeCorrect == Spec => []TypeOK
<1>1. IInv => TypeOK
  BY DEF IInv
<1> QED
  BY <1>1, Invariance, PTL

\* With any number of devices and requests, in any order of their statements and with any
\* of them failing, a row of control_commands that says success is of a command that has
\* left, acknowledged, and nothing that was refused ever leaves, however often the channel
\* repeats a packet.
THEOREM AuditsAreTrue == Spec => []AuditIsTrue
<1>1. IInv => AuditIsTrue
  BY DEF IInv
<1> QED
  BY <1>1, Invariance, PTL

\* Whatever the window and the clocks, enforceCommandThrottle refuses every command that
\* follows a row it can see too closely: only checks that overlap get past it.
THEOREM OnlyOverlapsEscape == Spec => []OnlyOverlapEscapes
<1>1. IInv => OnlyOverlapEscapes
  BY DEF IInv
<1> QED
  BY <1>1, Invariance, PTL
=============================================================================
