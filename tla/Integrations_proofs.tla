------------------------ MODULE Integrations_proofs ------------------------
(***************************************************************************)
(* Proofs about Integrations, for any number of devices, handlers, clients *)
(* and requests, any window, page and range.  Each part has an inductive   *)
(* invariant of its own, which the steps of the other two parts keep, as   *)
(* they touch nothing of it but the clock and their own status columns.    *)
(***************************************************************************)
EXTENDS Integrations, FiniteSetTheorems, SequenceTheorems, TLAPS

-----------------------------------------------------------------------------
(* The message handlers *)

\* What a handler relies on between two statements: its message is not newer
\* than the newest that arrived, its points are stored before the snapshot, and
\* its message is stored before it is marked a success.
HandlerInv(h) ==
    LET m == handling[h] IN
    m # Idle =>
        /\ m.ts <= newest[m.dev]
        /\ m.pc = "upsert" => <<m.dev, m.ts>> \in points
        /\ m.pc = "ok" => [dev |-> m.dev, ts |-> m.ts, at |-> m.at] \in stored
        /\ m.dev \notin disordered => m.ts = newest[m.dev]

\* Messages of an orderly device are handled one at a time.
OneAtATime ==
    \A h, g \in Handlers :
        handling[h] # Idle /\ handling[g] # Idle /\ h # g
            /\ handling[h].dev = handling[g].dev
        => handling[h].dev \in disordered

\* Nothing is stored that did not arrive, and every success that is marked was stored.
StoredArrived == \A s \in stored : s.ts <= newest[s.dev]
MarksAreStored == status["ingestAt"] # Never => \E s \in stored : s.at = status["ingestAt"]

IngestInv ==
    /\ StatusTypeOK
    /\ IngestTypeOK
    /\ \A h \in Handlers : HandlerInv(h)
    /\ OneAtATime
    /\ StoredArrived
    /\ SnapshotHasPoints
    /\ OnlyDisorderSetsBack
    /\ MarksAreStored

LEMMA IngestStarts == StatusInit /\ IngestInit => IngestInv
<1> SUFFICES ASSUME StatusInit, IngestInit PROVE IngestInv OBVIOUS
<1> USE DEF StatusInit, IngestInit
<1>1. StatusTypeOK BY StatusAssumption DEF StatusTypeOK, Clock, Stamp, Never, StatusColumns
<1>2. IngestTypeOK BY DEF IngestTypeOK
<1>3. (\A h \in Handlers : HandlerInv(h)) /\ OneAtATime BY DEF HandlerInv, OneAtATime
<1>4. StoredArrived /\ SnapshotHasPoints /\ OnlyDisorderSetsBack /\ MarksAreStored
  BY DEF StoredArrived, SnapshotHasPoints, OnlyDisorderSetsBack, MarksAreStored, StatusColumns
<1> QED BY <1>1, <1>2, <1>3, <1>4 DEF IngestInv

\* The other parts, and the clock, leave all of it alone.
LEMMA IngestFrame ==
  ASSUME IngestInv, StatusTypeOK', UNCHANGED ingestVars,
         status'["ingestAt"] = status["ingestAt"]
  PROVE  IngestInv'
<1> USE DEF IngestInv, ingestVars
<1>1. IngestTypeOK' BY DEF IngestTypeOK
<1>2. (\A h \in Handlers : HandlerInv(h)')  BY DEF HandlerInv
<1>3. OneAtATime' BY DEF OneAtATime
<1>4. StoredArrived' /\ SnapshotHasPoints' /\ OnlyDisorderSetsBack' /\ MarksAreStored'
  BY DEF StoredArrived, SnapshotHasPoints, OnlyDisorderSetsBack, MarksAreStored
<1> QED BY <1>1, <1>2, <1>3, <1>4

LEMMA DeliverKeeps ==
  ASSUME IngestInv, NEW h \in Handlers, NEW d \in Devices, NEW ts \in Ts, Deliver(h, d, ts)
  PROVE  IngestInv'
<1> DEFINE m == [pc |-> "find", dev |-> d, ts |-> ts, at |-> now]
<1>1. UNCHANGED <<points, snapshot, stored, now, status>> BY DEF Deliver, statusVars
<1>2. /\ handling \in [Handlers -> Message \cup {Idle}]
      /\ newest \in [Devices -> Ts \cup {None}]
      /\ handling[h] = Idle /\ now \in Clock
  BY DEF IngestInv, IngestTypeOK, StatusTypeOK, Deliver
<1>3. m \in Message BY <1>2 DEF Message
<1>4. /\ handling' = [handling EXCEPT ![h] = m]
      /\ newest' = [newest EXCEPT ![d] = IF ts > @ THEN ts ELSE @]
      /\ disordered' = IF ts < newest[d] \/ Busy(d) THEN disordered \cup {d} ELSE disordered
  BY DEF Deliver
<1>5. StatusTypeOK' /\ IngestTypeOK'
  BY <1>1, <1>2, <1>3, <1>4 DEF IngestInv, StatusTypeOK, IngestTypeOK, Ts
<1>6. \A e \in Devices : newest[e] <= newest'[e] /\ (e # d => newest'[e] = newest[e])
  BY <1>2, <1>4, IngestAssumption DEF Ts, None
<1>7. ts <= newest'[d] /\ (d \notin disordered' => ts = newest'[d])
  BY <1>2, <1>4, IngestAssumption DEF Ts, None
<1>8. ASSUME NEW g \in Handlers PROVE HandlerInv(g)'
  <2>1. CASE g = h BY <1>2, <1>3, <1>4, <1>7, <2>1 DEF HandlerInv, Idle
  <2>2. CASE g # h
    <3>1. handling'[g] = handling[g] BY <1>2, <1>4, <2>2
    <3>2. CASE handling[g] = Idle BY <3>1, <3>2 DEF HandlerInv
    <3>3. CASE handling[g] # Idle
      <4>1. handling[g] \in Message BY <1>2, <3>3
      <4>2. handling[g].pc # "idle" BY <4>1 DEF Message
      <4>3. handling[g].dev = d => d \in disordered' BY <1>4, <4>2 DEF Busy
      <4>4. /\ handling[g].ts \in Ts /\ handling[g].dev \in Devices
            /\ newest[handling[g].dev] \in Ts \cup {None}
            /\ newest'[handling[g].dev] \in Ts \cup {None}
        BY <1>2, <1>5, <4>1 DEF Message, IngestTypeOK
      <4>5. handling[g].ts <= newest'[handling[g].dev]
        <5>1. handling[g].ts <= newest[handling[g].dev]
          BY <3>3 DEF IngestInv, HandlerInv
        <5> QED BY <1>6, <4>4, <5>1, IngestAssumption DEF Ts, None
      <4>6. handling[g].dev \notin disordered' =>
              handling[g].ts = newest'[handling[g].dev]
        BY <1>4, <1>6, <3>3, <4>3, <4>4 DEF IngestInv, HandlerInv
      <4>7. /\ handling[g].pc = "upsert" =>
                 <<handling[g].dev, handling[g].ts>> \in points'
            /\ handling[g].pc = "ok" =>
                 [dev |-> handling[g].dev, ts |-> handling[g].ts, at |-> handling[g].at]
                   \in stored'
        BY <1>1, <3>3 DEF IngestInv, HandlerInv
      <4> QED BY <3>1, <4>5, <4>6, <4>7 DEF HandlerInv
    <3> QED BY <3>2, <3>3
  <2> QED BY <2>1, <2>2
<1>9. OneAtATime'
  <2>1. ASSUME NEW f \in Handlers, NEW g \in Handlers, f # g, handling'[f] # Idle,
               handling'[g] # Idle, handling'[f].dev = handling'[g].dev
        PROVE  handling'[f].dev \in disordered'
    <3>1. CASE f # h /\ g # h
      BY <1>2, <1>4, <2>1, <3>1 DEF IngestInv, OneAtATime
    <3>2. ASSUME NEW x \in Handlers, x # h, handling[x] # Idle, handling[x].dev = d
          PROVE  d \in disordered'
      <4>1. handling[x].pc # "idle" BY <1>2, <3>2 DEF Message
      <4> QED BY <1>4, <3>2, <4>1 DEF Busy
    <3>3. CASE f = h BY <1>2, <1>4, <2>1, <3>2, <3>3
    <3>4. CASE g = h BY <1>2, <1>4, <2>1, <3>2, <3>4
    <3> QED BY <3>1, <3>3, <3>4
  <2> QED BY <2>1 DEF OneAtATime
<1>10. StoredArrived'
  <2>1. ASSUME NEW s \in stored PROVE s.ts <= newest'[s.dev]
    <3>1. s.ts \in Ts /\ s.dev \in Devices BY DEF IngestInv, IngestTypeOK
    <3>2. s.ts <= newest[s.dev] BY DEF IngestInv, StoredArrived
    <3> QED BY <1>2, <1>5, <1>6, <3>1, <3>2, IngestAssumption DEF Ts, None, IngestTypeOK
  <2> QED BY <1>1, <2>1 DEF StoredArrived
<1>11. SnapshotHasPoints' /\ OnlyDisorderSetsBack' /\ MarksAreStored'
  BY <1>1, <1>4 DEF IngestInv, SnapshotHasPoints, OnlyDisorderSetsBack, MarksAreStored
<1> QED BY <1>5, <1>8, <1>9, <1>10, <1>11 DEF IngestInv

\* A statement of handler h for its message m: the tables grow by what it writes,
\* and only h moves, to a message of the same device.
LEMMA StatementKeeps ==
  ASSUME IngestInv, NEW h \in Handlers, NEW n \in Message \cup {Idle},
         handling[h] # Idle,
         handling' = [handling EXCEPT ![h] = n],
         n # Idle => n.dev = handling[h].dev /\ n.ts = handling[h].ts,
         n.pc = "upsert" => <<n.dev, n.ts>> \in points',
         n.pc = "ok" => [dev |-> n.dev, ts |-> n.ts, at |-> n.at] \in stored',
         UNCHANGED <<newest, disordered>>,
         points \subseteq points', stored \subseteq stored',
         StatusTypeOK', IngestTypeOK', StoredArrived', SnapshotHasPoints',
         OnlyDisorderSetsBack', MarksAreStored'
  PROVE  IngestInv'
<1>1. handling \in [Handlers -> Message \cup {Idle}] BY DEF IngestInv, IngestTypeOK
<1>2. ASSUME NEW g \in Handlers PROVE HandlerInv(g)'
  <2>1. CASE g = h
    <3>1. handling'[g] = n BY <1>1, <2>1
    <3>2. CASE n = Idle BY <3>1, <3>2 DEF HandlerInv
    <3>3. CASE n # Idle
      <4>1. /\ handling[h].ts <= newest[handling[h].dev]
            /\ handling[h].dev \notin disordered => handling[h].ts = newest[handling[h].dev]
        BY DEF IngestInv, HandlerInv
      <4>2. /\ n.ts <= newest'[n.dev]
            /\ n.dev \notin disordered' => n.ts = newest'[n.dev]
        BY <3>3, <4>1
      <4> QED BY <3>1, <4>2 DEF HandlerInv
    <3> QED BY <3>2, <3>3
  <2>2. CASE g # h BY <1>1, <2>2 DEF IngestInv, HandlerInv
  <2> QED BY <2>1, <2>2
<1>3. OneAtATime' BY <1>1 DEF IngestInv, OneAtATime
<1> QED BY <1>2, <1>3 DEF IngestInv

LEMMA HandlerStepKeeps ==
  ASSUME IngestInv, NEW h \in Handlers,
         \/ Find(h) \/ InsertTelemetryBatch(h) \/ UpsertDeviceSnapshot(h)
         \/ MarkOutcome(h) \/ Throw(h)
  PROVE  IngestInv'
<1> DEFINE m == handling[h]
<1>1. /\ handling \in [Handlers -> Message \cup {Idle}]
      /\ status \in [StatusColumns -> Stamp] /\ now \in Clock
  BY DEF IngestInv, IngestTypeOK, StatusTypeOK
<1>2. m # Idle
  BY DEF Find, InsertTelemetryBatch, UpsertDeviceSnapshot, MarkOutcome, Throw, Idle
<1>3. m \in Message BY <1>1, <1>2
<1>4. m.dev \in Devices /\ m.ts \in Ts /\ m.at \in Clock BY <1>3 DEF Message
<1>5. CASE Find(h) \/ Throw(h)
  <2>1. PICK n \in Message :
           /\ handling' = [handling EXCEPT ![h] = n]
           /\ n.dev = m.dev /\ n.ts = m.ts /\ n.pc \in {"insert", "error"}
    <3>1. CASE Find(h)
      BY <1>1, <1>3, <3>1 DEF Find, Goto, Message
    <3>2. CASE Throw(h)
      <4> DEFINE n == [m EXCEPT !.pc = "error", !.at = now]
      <4>1. n \in Message /\ n.dev = m.dev /\ n.ts = m.ts /\ n.pc = "error"
        BY <1>1, <1>3 DEF Message
      <4>2. handling' = [handling EXCEPT ![h] = n] BY <3>2 DEF Throw
      <4> HIDE DEF n
      <4> QED BY <4>1, <4>2
    <3> QED BY <1>5, <3>1, <3>2
  <2>2. UNCHANGED <<points, snapshot, newest, disordered, stored, now, status>>
    BY <1>5 DEF Find, Throw, statusVars
  <2>3. StatusTypeOK' /\ IngestTypeOK'
    BY <1>1, <2>1, <2>2 DEF IngestInv, StatusTypeOK, IngestTypeOK
  <2>4. StoredArrived' /\ SnapshotHasPoints' /\ OnlyDisorderSetsBack' /\ MarksAreStored'
    BY <2>2 DEF IngestInv, StoredArrived, SnapshotHasPoints, OnlyDisorderSetsBack,
                MarksAreStored
  <2> QED BY <1>2, <2>1, <2>2, <2>3, <2>4, StatementKeeps
<1>6. CASE InsertTelemetryBatch(h)
  <2> DEFINE n == [m EXCEPT !.pc = "upsert"]
  <2>1. n \in Message /\ n.dev = m.dev /\ n.ts = m.ts /\ n.pc = "upsert"
    BY <1>3 DEF Message
  <2>2. /\ handling' = [handling EXCEPT ![h] = n]
        /\ points' = points \cup {<<m.dev, m.ts>>}
        /\ UNCHANGED <<snapshot, newest, disordered, stored, now, status>>
    BY <1>6 DEF InsertTelemetryBatch, Goto, statusVars
  <2>3. StatusTypeOK' /\ IngestTypeOK'
    BY <1>1, <1>4, <2>1, <2>2 DEF IngestInv, StatusTypeOK, IngestTypeOK
  <2>4. StoredArrived' /\ SnapshotHasPoints' /\ OnlyDisorderSetsBack' /\ MarksAreStored'
    BY <2>2 DEF IngestInv, StoredArrived, SnapshotHasPoints, OnlyDisorderSetsBack,
                MarksAreStored
  <2>5. <<n.dev, n.ts>> \in points' BY <2>1, <2>2
  <2> HIDE DEF n
  <2> QED BY <1>2, <2>1, <2>2, <2>3, <2>4, <2>5, StatementKeeps
<1>7. CASE UpsertDeviceSnapshot(h)
  <2> DEFINE n == [m EXCEPT !.pc = "ok"]
             s == [dev |-> m.dev, ts |-> m.ts, at |-> m.at]
  <2>1. n \in Message /\ n.dev = m.dev /\ n.ts = m.ts /\ n.at = m.at /\ n.pc = "ok"
    BY <1>3 DEF Message
  <2>2. /\ m.pc = "upsert"
        /\ handling' = [handling EXCEPT ![h] = n]
        /\ snapshot' = [snapshot EXCEPT ![m.dev] = m.ts]
        /\ stored' = stored \cup {s}
        /\ UNCHANGED <<points, newest, disordered, now, status>>
    BY <1>7 DEF UpsertDeviceSnapshot, Goto, statusVars
  <2>3. StatusTypeOK' /\ IngestTypeOK'
    BY <1>1, <1>4, <2>1, <2>2 DEF IngestInv, StatusTypeOK, IngestTypeOK
  <2>4. /\ m.ts <= newest[m.dev] /\ <<m.dev, m.ts>> \in points
        /\ m.dev \notin disordered => m.ts = newest[m.dev]
    BY <1>2, <2>2 DEF IngestInv, HandlerInv
  <2>5. StoredArrived' BY <2>2, <2>4 DEF IngestInv, StoredArrived
  <2>6. SnapshotHasPoints'
    BY <1>4, <2>2, <2>4 DEF IngestInv, IngestTypeOK, SnapshotHasPoints
  <2>7. MarksAreStored' BY <2>2 DEF IngestInv, MarksAreStored
  <2>8. OnlyDisorderSetsBack'
    <3>1. ASSUME NEW x \in stored', x.dev \notin disordered
          PROVE  snapshot'[x.dev] >= x.ts
      <4>1. x.dev \in Devices /\ x.ts \in Ts BY <2>3 DEF IngestTypeOK
      <4>2. snapshot \in [Devices -> Ts \cup {None}] BY DEF IngestInv, IngestTypeOK
      <4>3. CASE x.dev # m.dev
        BY <2>2, <3>1, <4>1, <4>2, <4>3 DEF IngestInv, OnlyDisorderSetsBack
      <4>4. CASE x.dev = m.dev
        <5>1. x.ts <= newest[m.dev] BY <2>2, <2>5, <4>4 DEF StoredArrived
        <5>2. snapshot'[x.dev] = m.ts /\ m.ts = newest[m.dev]
          BY <2>2, <2>4, <3>1, <4>1, <4>2, <4>4
        <5> QED BY <1>4, <4>1, <5>1, <5>2, IngestAssumption DEF Ts
      <4> QED BY <4>3, <4>4
    <3> QED BY <2>2, <3>1 DEF OnlyDisorderSetsBack
  <2>9. [dev |-> n.dev, ts |-> n.ts, at |-> n.at] \in stored' BY <2>1, <2>2
  <2> HIDE DEF n, s
  <2> QED BY <1>2, <2>1, <2>2, <2>3, <2>5, <2>6, <2>7, <2>8, <2>9, StatementKeeps
<1>8. CASE MarkOutcome(h)
  <2>1. /\ handling' = [handling EXCEPT ![h] = Idle]
        /\ UNCHANGED <<points, snapshot, newest, disordered, stored, now>>
        /\ \/ m.pc = "ok" /\ status' = [status EXCEPT !["ingestAt"] = m.at]
           \/ status' = [status EXCEPT !["ingestErrorAt"] = m.at]
           \/ status' = status
    BY <1>8 DEF MarkOutcome, MarkMqttIngestSuccess, MarkMqttIngestError
  <2>2. StatusTypeOK' /\ IngestTypeOK'
    BY <1>1, <1>4, <2>1
    DEF IngestInv, StatusTypeOK, IngestTypeOK, StatusColumns, Stamp
  <2>3. StoredArrived' /\ SnapshotHasPoints' /\ OnlyDisorderSetsBack'
    BY <2>1 DEF IngestInv, StoredArrived, SnapshotHasPoints, OnlyDisorderSetsBack
  <2>4. MarksAreStored'
    <3>1. CASE m.pc = "ok" /\ status' = [status EXCEPT !["ingestAt"] = m.at]
      <4>1. [dev |-> m.dev, ts |-> m.ts, at |-> m.at] \in stored
        BY <1>2, <3>1 DEF IngestInv, HandlerInv
      <4> QED BY <1>1, <2>1, <3>1, <4>1 DEF MarksAreStored, StatusColumns
    <3>2. CASE status' = status \/ status' = [status EXCEPT !["ingestErrorAt"] = m.at]
      BY <1>1, <2>1, <3>2 DEF IngestInv, MarksAreStored, StatusColumns
    <3> QED BY <2>1, <3>1, <3>2
  <2>5. Idle.pc = "idle" BY DEF Idle
  <2> QED BY <1>2, <2>1, <2>2, <2>3, <2>4, <2>5, StatementKeeps
<1> QED BY <1>5, <1>6, <1>7, <1>8

LEMMA IngestKeeps ==
  ASSUME IngestInv, IngestNext
  PROVE  IngestInv'
<1>1. CASE CrashWorker
  <2>1. /\ handling' = [h \in Handlers |-> Idle]
        /\ UNCHANGED <<points, snapshot, newest, disordered, stored, now, status>>
    BY <1>1 DEF CrashWorker, statusVars
  <2>2. StatusTypeOK' /\ IngestTypeOK'
    BY <2>1 DEF IngestInv, StatusTypeOK, IngestTypeOK
  <2>3. (\A h \in Handlers : HandlerInv(h)') /\ OneAtATime'
    BY <2>1 DEF HandlerInv, OneAtATime
  <2> QED BY <2>1, <2>2, <2>3 DEF IngestInv, StoredArrived, SnapshotHasPoints,
          OnlyDisorderSetsBack, MarksAreStored
<1>2. CASE Tick /\ UNCHANGED ingestVars
  <2>1. StatusTypeOK' BY <1>2, StatusAssumption
    DEF IngestInv, StatusTypeOK, Tick, Clock, Stamp
  <2> QED BY <1>2, <2>1, IngestFrame DEF Tick
<1> QED BY <1>1, <1>2, DeliverKeeps, HandlerStepKeeps DEF IngestNext

-----------------------------------------------------------------------------
(* The connection *)

\* NeverStranded is all but inductive as it stands: every event that breaks one of
\* its cases makes another.
ConnectionInv ==
    /\ StatusTypeOK
    /\ ConnectionTypeOK
    /\ conn[client] # "none"
    /\ NeverStranded

LEMMA ConnectionStarts == StatusInit /\ ConnectionInit => ConnectionInv
<1> SUFFICES ASSUME StatusInit, ConnectionInit PROVE ConnectionInv OBVIOUS
<1> USE ConnectionAssumption DEF ConnectionInit
<1>1. StatusTypeOK
  BY StatusAssumption DEF StatusInit, StatusTypeOK, Clock, Stamp, Never, StatusColumns
<1>2. ConnectionTypeOK
  <2>1. conn \in [Clients -> {"none", "connecting", "refused", "open", "closed"}] OBVIOUS
  <2>2. reconnectDelay \in 1..MaxDelay OBVIOUS
  <2>3. reconnectTimer \in BOOLEAN /\ unheard \in BOOLEAN /\ calm \in BOOLEAN OBVIOUS
  <2> QED BY <2>1, <2>2, <2>3 DEF ConnectionTypeOK
<1>3. conn[client] = "connecting" OBVIOUS
<1>4. NeverStranded BY <1>3 DEF NeverStranded
<1> QED BY <1>1, <1>2, <1>3, <1>4 DEF ConnectionInv

LEMMA ConnectionFrame ==
  ASSUME ConnectionInv, StatusTypeOK', UNCHANGED connectionVars
  PROVE  ConnectionInv'
BY DEF ConnectionInv, ConnectionTypeOK, NeverStranded, Stuck, connectionVars

LEMMA ConnectionKeeps ==
  ASSUME ConnectionInv, ConnectionNext
  PROVE  ConnectionInv'
<1> USE DEF ConnectionInv
<1>1. /\ conn \in [Clients -> {"none", "connecting", "refused", "open", "closed"}]
      /\ reconnectDelay \in 1..MaxDelay /\ now \in Clock
  BY DEF ConnectionTypeOK, StatusTypeOK
<1>2. Doubled \in 1..MaxDelay BY <1>1, ConnectionAssumption DEF Doubled
<1>3. ASSUME NEW c \in Clients, OnConnect(c) PROVE ConnectionInv'
  <2>1. StatusTypeOK' BY <1>3 DEF OnConnect, StatusTypeOK, statusVars
  <2>2. ConnectionTypeOK'
    <3>1. conn' \in [Clients -> {"none", "connecting", "refused", "open", "closed"}]
      BY <1>1, <1>3 DEF OnConnect
    <3>2. reconnectTimer' = FALSE /\ reconnectDelay' \in 1..MaxDelay
      BY <1>3, ConnectionAssumption DEF OnConnect, ResetBackoff
    <3>3. subscribed' \subseteq Clients BY <1>3 DEF OnConnect, ConnectionTypeOK
    <3>4. unheard' \in BOOLEAN BY Zenon, <1>3 DEF OnConnect, ConnectionTypeOK
    <3>5. UNCHANGED <<client, errorMarks, calm>> BY <1>3 DEF OnConnect
    <3> QED BY <3>1, <3>2, <3>3, <3>4, <3>5 DEF ConnectionTypeOK
  <2>3. conn'[c] = "open" /\ (c # client => conn'[client] = conn[client])
    BY <1>1, <1>3 DEF OnConnect, ConnectionTypeOK
  <2>4. /\ client' = client /\ reconnectTimer' = FALSE /\ client \in Clients
        /\ client \in subscribed' \/ unheard' = TRUE
    BY <1>3 DEF OnConnect, ResetBackoff, ConnectionTypeOK
  <2>5. conn'[client'] # "none" BY <2>3, <2>4
  <2>6. NeverStranded'
    <3>1. CASE conn'[client] = "open" BY <2>4, <3>1 DEF NeverStranded, Stuck
    <3>2. CASE c # client /\ conn[client] = "closed"
      BY <2>3, <2>4, <3>2 DEF NeverStranded, Stuck
    <3>3. CASE c # client /\ conn[client] \in {"connecting", "refused"}
      BY <2>3, <2>4, <3>3 DEF NeverStranded
    <3> QED BY <1>1, <2>3, <2>4, <3>1, <3>2, <3>3
  <2> QED BY <2>1, <2>2, <2>5, <2>6
<1>4. ASSUME NEW c \in Clients, OnError(c) \/ OnClose(c) PROVE ConnectionInv'
  <2>1. StatusTypeOK' BY <1>4 DEF OnError, OnClose, StatusTypeOK, statusVars
  <2>2. reconnectTimer' = TRUE /\ reconnectDelay' \in 1..MaxDelay
    BY <1>1, <1>2, <1>4 DEF OnError, OnClose, ScheduleReconnect
  <2>3. conn' \in [Clients -> {"none", "connecting", "refused", "open", "closed"}]
    BY <1>1, <1>4 DEF OnError, OnClose
  <2>4. errorMarks' \subseteq Clock /\ UNCHANGED <<subscribed, client, unheard, calm>>
    BY <1>1, <1>4 DEF OnError, OnClose, ConnectionTypeOK
  <2>5. ConnectionTypeOK' BY <2>2, <2>3, <2>4 DEF ConnectionTypeOK
  <2>6. conn'[client'] # "none" BY <1>1, <1>4, <2>4 DEF OnError, OnClose, ConnectionTypeOK
  <2> QED BY <2>1, <2>2, <2>5, <2>6 DEF NeverStranded
<1>5. ASSUME NEW c \in Clients, InitConnection(c) PROVE ConnectionInv'
  <2>1. StatusTypeOK' BY <1>5 DEF InitConnection, StatusTypeOK, statusVars
  <2>2. ConnectionTypeOK' BY <1>5 DEF InitConnection, ConnectionTypeOK
  <2>3. conn'[client'] = "connecting" BY <1>1, <1>5 DEF InitConnection
  <2> QED BY <2>1, <2>2, <2>3 DEF NeverStranded
<1>6. ASSUME NEW at \in Clock, SafeMarkMqttError(at) PROVE ConnectionInv'
  <2>1. StatusTypeOK'
    BY <1>6 DEF SafeMarkMqttError, MarkMqttIngestError, StatusTypeOK, StatusColumns, Stamp
  <2>2. ConnectionTypeOK' BY <1>6 DEF SafeMarkMqttError, ConnectionTypeOK
  <2>3. NeverStranded' /\ conn'[client'] # "none"
    BY <1>6 DEF SafeMarkMqttError, NeverStranded, Stuck
  <2> QED BY <2>1, <2>2, <2>3
<1>7. CASE NetworkSettles
  <2>1. StatusTypeOK' BY <1>7 DEF NetworkSettles, StatusTypeOK, statusVars
  <2>2. ConnectionTypeOK' BY <1>7 DEF NetworkSettles, ConnectionTypeOK
  <2>3. NeverStranded' /\ conn'[client'] # "none"
    BY <1>7 DEF NetworkSettles, NeverStranded, Stuck
  <2> QED BY <2>1, <2>2, <2>3
<1>8. CASE Tick /\ UNCHANGED connectionVars
  <2>1. StatusTypeOK' BY <1>8, StatusAssumption DEF StatusTypeOK, Tick, Clock, Stamp
  <2> QED BY <1>8, <2>1, ConnectionFrame
<1> QED BY <1>3, <1>4, <1>5, <1>6, <1>7, <1>8 DEF ConnectionNext

-----------------------------------------------------------------------------
(* The pages of a history request *)

Times(series) == {series[i] : i \in DOMAIN series}

\* The points of the first n pages, but for those without a series.
Covered(q, n) ==
    {t \in q.from..q.to : \E i \in (1..n) \ q.blank : InPage(q, i, t)}

\* Before page n has come, the points of pages 1..n-1 are there.
Gathered(q) == Times(q.points) = Covered(q, q.page - 1)

InOrder(series) == \A i, j \in DOMAIN series : i < j => series[i] < series[j]

PagesOf(q) ==
    /\ q.pc \in Steps \ {"idle", "answered", "failed"} =>
         /\ <<q.from, q.to>> \in Ranges
         /\ q.page \in 1..PageCount(q.from, q.to)
         /\ Gathered(q)
    /\ q.pc = "answered" =>
         InOrder(q.points) /\ Times(q.points) = Covered(q, PageCount(q.from, q.to))

\* Rounding up: n pages of size p cover d, and no fewer do.
LEMMA RoundedUp ==
  ASSUME NEW d \in Nat \ {0}, NEW p \in Nat \ {0}
  PROVE  /\ (d + p - 1) \div p \in Nat \ {0}
         /\ d <= ((d + p - 1) \div p) * p
         /\ \A n \in Nat : n < (d + p - 1) \div p => n * p < d
<1> DEFINE n == (d + p - 1) \div p
<1>1. n \in Nat /\ n * p <= d + p - 1 /\ d + p - 1 < n * p + p OBVIOUS
<1>2. n # 0 BY <1>1
<1>3. ASSUME NEW k \in Nat, k < n PROVE k * p < d
  <2>1. k + 1 <= n BY <1>1, <1>3
  <2>2. (k + 1) * p <= n * p BY <1>1, <2>1
  <2>3. k * p + p <= n * p BY <2>2
  <2> QED BY <1>1, <2>3
<1> QED BY <1>1, <1>2, <1>3

LEMMA PagesCover ==
  ASSUME NEW f \in Nat, NEW to \in Nat, f <= to
  PROVE  /\ PageCount(f, to) \in Nat \ {0}
         /\ to <= f + PageCount(f, to) * PageRange
         /\ \A n \in Nat \ {0} : n < PageCount(f, to) => f + n * PageRange < to
<1>1. CASE to - f <= PageRange
  <2>1. PageCount(f, to) = 1 /\ 1 * PageRange = PageRange BY <1>1, HistoryAssumption DEF PageCount
  <2> QED BY <1>1, <2>1, HistoryAssumption
<1>2. CASE ~(to - f <= PageRange)
  <2>1. PageRange \in Nat \ {0} BY HistoryAssumption
  <2>2. to - f \in Nat \ {0} BY <1>2, <2>1
  <2> DEFINE d == to - f
             k == (d + PageRange - 1) \div PageRange
  <2>3. PageCount(f, to) = k BY <1>2 DEF PageCount
  <2>4. /\ k \in Nat \ {0}
        /\ d <= k * PageRange
        /\ \A n \in Nat : n < k => n * PageRange < d
    BY <2>1, <2>2, RoundedUp
  <2> HIDE DEF k
  <2>5. to <= f + k * PageRange BY <2>1, <2>4
  <2>6. ASSUME NEW n \in Nat \ {0}, n < k PROVE f + n * PageRange < to
    <3>1. n * PageRange < d BY <2>4, <2>6
    <3> QED BY <2>1, <3>1
  <2> QED BY <2>3, <2>4, <2>5, <2>6
<1> QED BY <1>1, <1>2

\* Sorting: the rank of a time is an injection into the positions, of which there are
\* as many as times, so every position holds one time, and later ones later times.
Ranked(T) ==
    [i \in 1..Cardinality(T) |-> CHOOSE t \in T : Cardinality({x \in T : x <= t}) = i]

LEMMA RanksSort ==
  ASSUME NEW T, NEW m \in Nat, T \subseteq 0..m
  PROVE  Ranked(T) \in Seq(T) /\ Times(Ranked(T)) = T /\ InOrder(Ranked(T))
<1> DEFINE n == Cardinality(T)
           C(t) == Cardinality({x \in T : x <= t})
           rank == [t \in T |-> C(t)]
           s == [i \in 1..n |-> CHOOSE t \in T : C(t) = i]
<1>1. IsFiniteSet(T) /\ n \in Nat /\ \A t \in T : t \in Nat
  <2>1. IsFiniteSet(0..m) BY FS_Interval
  <2>2. IsFiniteSet(T) BY <2>1, FS_Subset
  <2>3. n \in Nat BY <2>2, FS_CardinalityType
  <2> QED BY <2>2, <2>3
<1>2. \A t \in T : IsFiniteSet({x \in T : x <= t}) /\ C(t) \in 1..n
  <2> SUFFICES ASSUME NEW t \in T
               PROVE  IsFiniteSet({x \in T : x <= t}) /\ C(t) \in 1..n
    OBVIOUS
  <2> DEFINE U == {x \in T : x <= t}
  <2>1. U \in SUBSET T /\ t \in U BY <1>1
  <2> HIDE DEF U
  <2>2. IsFiniteSet(U) /\ Cardinality(U) <= n BY <1>1, <2>1, FS_Subset
  <2>3. Cardinality(U) # 0 BY <2>1, <2>2, FS_EmptySet
  <2>4. Cardinality(U) \in Nat BY <2>2, FS_CardinalityType
  <2>5. Cardinality(U) \in 1..n BY <1>1, <2>2, <2>3, <2>4
  <2> QED BY <2>2, <2>5 DEF U
<1>3. \A t, u \in T : t < u => C(t) < C(u)
  <2> SUFFICES ASSUME NEW t \in T, NEW u \in T, t < u PROVE C(t) < C(u) OBVIOUS
  <2> DEFINE A == {x \in T : x <= t}
             B == {x \in T : x <= u}
  <2>1. A \in SUBSET B /\ u \in B /\ u \notin A
    <3>1. t \in Nat /\ u \in Nat BY <1>1
    <3>2. \A x \in T : x \in Nat /\ (x <= t => x <= u) BY <1>1, <3>1
    <3>3. ~(u <= t) BY <3>1
    <3>4. \A x \in A : x \in B BY <3>2
    <3>5. u \in B BY <3>1
    <3>6. u \notin A BY <3>3
    <3> QED BY <3>4, <3>5, <3>6
  <2>2. IsFiniteSet(B) /\ Cardinality(A) \in 1..n /\ Cardinality(B) \in 1..n BY <1>2
  <2>3. C(t) = Cardinality(A) /\ C(u) = Cardinality(B) OBVIOUS
  <2> HIDE DEF A, B, C
  <2>4. A \in SUBSET B /\ A # B BY <2>1
  <2>5. Cardinality(A) <= Cardinality(B) /\ Cardinality(A) # Cardinality(B)
    BY <2>2, <2>4, FS_Subset
  <2> QED BY <1>1, <2>2, <2>3, <2>5
<1>4. \A t \in T : C(t) \in 1..n BY <1>2
<1> HIDE DEF n, C
<1>5. \A t, u \in T : C(t) = C(u) => t = u BY <1>1, <1>3, <1>4
<1>6. rank \in Injection(T, 1..n)
  <2>1. rank \in [T -> 1..n] /\ \A t, u \in T : rank[t] = rank[u] => t = u BY <1>4, <1>5
  <2> HIDE DEF rank
  <2> QED BY <2>1 DEF Injection, IsInjective
<1>7. \A i \in 1..n : \E t \in T : C(t) = i
  <2>1. IsFiniteSet(1..n) /\ Cardinality(1..n) = n BY <1>1, FS_Interval
  <2> HIDE DEF rank
  <2>2. rank \in Surjection(T, 1..n) BY <1>1, <1>6, <2>1, FS_Injection DEF n
  <2>3. \A i \in 1..n : \E t \in T : rank[t] = i BY <2>2 DEF Surjection
  <2> QED BY <2>3 DEF rank
<1>8. \A i \in 1..n : s[i] \in T /\ C(s[i]) = i BY <1>7
<1>9. s \in Seq(T) /\ DOMAIN s = 1..n BY <1>1, <1>7
<1> HIDE DEF s
<1>10. \A t \in T : \E i \in 1..n : s[i] = t BY <1>4, <1>5, <1>8
<1>11. \A i, j \in 1..n : i < j => s[i] < s[j]
  <2> SUFFICES ASSUME NEW i \in 1..n, NEW j \in 1..n, i < j PROVE s[i] < s[j] OBVIOUS
  <2>1. s[i] \in T /\ s[j] \in T /\ C(s[i]) = i /\ C(s[j]) = j BY <1>8
  <2>2. s[i] # s[j] BY <2>1
  <2>3. s[j] < s[i] => j < i BY <1>3, <2>1
  <2>4. s[i] \in Nat /\ s[j] \in Nat
    <3>1. \A t \in T : t \in Nat BY <1>1
    <3> QED BY <2>1, <3>1, Zenon
  <2>5. i \in Nat /\ j \in Nat BY <1>1
  <2> HIDE DEF C
  <2> QED BY <2>5, <2>2, <2>3, <2>4
<1>12. Times(s) = T BY <1>8, <1>9, <1>10 DEF Times
<1>13. InOrder(s) BY <1>9, <1>11 DEF InOrder
<1>14. Ranked(T) = s BY DEF Ranked, s, n, C
<1> QED BY <1>9, <1>12, <1>13, <1>14

LEMMA NormalizedSorted ==
  ASSUME NEW series, NEW m \in Nat, Times(series) \subseteq 0..m
  PROVE  LET s == Normalized(series)
         IN  /\ s \in Seq(Times(series))
             /\ Times(s) = Times(series)
             /\ InOrder(s)
<1>1. Normalized(series) = Ranked(Times(series)) BY DEF Normalized, Ranked, Times
<1> QED BY <1>1, RanksSort

-----------------------------------------------------------------------------
(* The history client *)

\* While the circuit is closed the failures are below the limit; once it is open,
\* every call under way was sent before that.
BreakerInv ==
    /\ circuitOpenedAt = Never => consecutiveFailures < MaxFailures
    /\ circuitOpenedAt <= now
    /\ \A r \in Requests : sentAt[r] <= now
    /\ circuitOpenedAt # Never =>
         \A r \in Requests : requests[r].pc = "sent" => sentAt[r] <= circuitOpenedAt

HistoryInv ==
    /\ StatusTypeOK
    /\ HistoryTypeOK
    /\ \A r \in Requests : PagesOf(requests[r])
    /\ BreakerInv

LEMMA FreshTyped ==
  Fresh \in Progress /\ Fresh.page = 1 /\ Fresh.points = <<>> /\ Fresh.blank = {}
<1>1. <<>> \in Seq(Instants) OBVIOUS
<1>2. 0 \in Instants /\ 1 \in Nat /\ Never \in Stamp
  BY HistoryAssumption DEF Instants, Stamp
<1> QED BY <1>1, <1>2 DEF Fresh, Progress, Steps

LEMMA HistoryStarts == StatusInit /\ HistoryInit => HistoryInv
<1> SUFFICES ASSUME StatusInit, HistoryInit PROVE HistoryInv OBVIOUS
<1> USE DEF HistoryInit
<1>1. StatusTypeOK /\ now = 1
  BY StatusAssumption DEF StatusInit, StatusTypeOK, Clock, Stamp, Never, StatusColumns
<1>2. Fresh \in Progress BY FreshTyped
<1>3. HistoryTypeOK BY <1>2 DEF HistoryTypeOK, Stamp
<1>4. \A r \in Requests : PagesOf(requests[r]) BY DEF PagesOf, Fresh
<1>5. BreakerInv BY <1>1, HistoryAssumption DEF BreakerInv, Never
<1> QED BY <1>1, <1>3, <1>4, <1>5 DEF HistoryInv

LEMMA HistoryFrame ==
  ASSUME HistoryInv, StatusTypeOK', now' = now \/ now' = now + 1, UNCHANGED historyVars
  PROVE  HistoryInv'
<1> USE DEF historyVars
<1>1. HistoryTypeOK' BY DEF HistoryInv, HistoryTypeOK
<1>2. (\A r \in Requests : PagesOf(requests[r]))' BY DEF HistoryInv
<1>3. now \in Nat /\ circuitOpenedAt \in Nat /\ \A r \in Requests : sentAt[r] \in Nat
  BY StatusAssumption DEF HistoryInv, StatusTypeOK, HistoryTypeOK, Stamp, Clock, Never
<1>4. BreakerInv' BY <1>3 DEF HistoryInv, BreakerInv
<1> QED BY <1>1, <1>2, <1>4 DEF HistoryInv

\* A step of request r that leaves the breaker alone.
LEMMA RequestStepKeeps ==
  ASSUME HistoryInv, StatusTypeOK', NEW r \in Requests, NEW n \in Progress,
         requests' = [requests EXCEPT ![r] = n], n.pc # "sent", PagesOf(n),
         UNCHANGED <<now, consecutiveFailures, circuitOpenedAt, sentAt>>
  PROVE  HistoryInv'
<1>1. requests \in [Requests -> Progress] BY DEF HistoryInv, HistoryTypeOK
<1>2. HistoryTypeOK' BY <1>1 DEF HistoryInv, HistoryTypeOK
<1>3. \A x \in Requests : requests'[x] = IF x = r THEN n ELSE requests[x] BY <1>1
<1>4. (\A x \in Requests : PagesOf(requests[x]))' BY <1>3 DEF HistoryInv
<1>5. BreakerInv' BY <1>3 DEF HistoryInv, BreakerInv
<1> QED BY <1>2, <1>4, <1>5 DEF HistoryInv

\* Moving on to another step of the same page, which may turn out to be lost.
LEMMA SamePage ==
  ASSUME NEW q \in Progress, NEW pc \in Steps \ {"idle", "answered", "failed"},
         NEW at \in Stamp, NEW lost \in {{}, {q.page}},
         PagesOf(q), q.pc \notin {"idle", "answered", "failed"}
  PROVE  /\ [q EXCEPT !.pc = pc] \in Progress /\ PagesOf([q EXCEPT !.pc = pc])
         /\ [q EXCEPT !.pc = pc, !.at = at] \in Progress
         /\ PagesOf([q EXCEPT !.pc = pc, !.at = at])
         /\ [q EXCEPT !.pc = pc, !.at = at, !.blank = @ \cup lost] \in Progress
         /\ PagesOf([q EXCEPT !.pc = pc, !.at = at, !.blank = @ \cup lost])
<1> DEFINE a == [q EXCEPT !.pc = pc]
           b == [q EXCEPT !.pc = pc, !.at = at]
           c == [q EXCEPT !.pc = pc, !.at = at, !.blank = @ \cup lost]
<1>1. q.page \in Nat /\ q.blank \in SUBSET Nat /\ q.blank \cup lost \in SUBSET Nat /\ q.pc \in Steps
  BY DEF Progress
<1>2. a \in Progress /\ b \in Progress /\ c \in Progress BY <1>1 DEF Progress
<1>3. /\ a.pc = pc /\ a.from = q.from /\ a.to = q.to /\ a.page = q.page
      /\ a.points = q.points /\ a.blank = q.blank
      /\ b.pc = pc /\ b.from = q.from /\ b.to = q.to /\ b.page = q.page
      /\ b.points = q.points /\ b.blank = q.blank
      /\ c.pc = pc /\ c.from = q.from /\ c.to = q.to /\ c.page = q.page
      /\ c.points = q.points /\ c.blank = q.blank \cup lost
  BY DEF Progress
<1>4. (1..(q.page - 1)) \ (q.blank \cup lost) = (1..(q.page - 1)) \ q.blank BY <1>1
<1> HIDE DEF a, b, c
<1>5. PagesOf(a) /\ PagesOf(b)
  BY <1>1, <1>3 DEF PagesOf, Gathered, Covered, InPage
<1>6. PagesOf(c)
  <2>1. Covered(c, q.page - 1) = Covered(q, q.page - 1)
    BY <1>3, <1>4, Zenon DEF Covered, InPage
  <2> QED BY <1>1, <1>3, <2>1 DEF PagesOf, Gathered
<1> QED BY <1>2, <1>5, <1>6 DEF a, b, c

LEMMA FailedRequest ==
  /\ [Fresh EXCEPT !.pc = "failed"] \in Progress
  /\ [Fresh EXCEPT !.pc = "failed"].pc = "failed"
  /\ PagesOf([Fresh EXCEPT !.pc = "failed"])
<1> DEFINE n == [Fresh EXCEPT !.pc = "failed"]
<1>3. Fresh \in Progress BY FreshTyped
<1>4. n \in Progress BY <1>3 DEF Progress, Steps
<1>5. n.pc = "failed" BY <1>3 DEF Progress
<1> HIDE DEF n
<1>6. PagesOf(n) BY <1>5 DEF PagesOf
<1> QED BY <1>4, <1>5, <1>6 DEF n

LEMMA StartKeeps ==
  ASSUME HistoryInv, NEW r \in Requests, NEW f \in Instants, NEW to \in Instants,
         Start(r, f, to)
  PROVE  HistoryInv'
<1> DEFINE n == [Fresh EXCEPT !.pc = "lookup", !.from = f, !.to = to]
<1>3. Fresh \in Progress /\ Fresh.page = 1 /\ Fresh.points = <<>> BY FreshTyped
<1>4. n \in Progress BY <1>3 DEF Progress, Steps
<1>5. n.pc = "lookup" /\ n.from = f /\ n.to = to /\ n.page = 1 /\ n.points = <<>>
  BY <1>3 DEF Progress
<1>6. /\ requests' = [requests EXCEPT ![r] = n] /\ <<f, to>> \in Ranges
      /\ UNCHANGED <<now, status, consecutiveFailures, circuitOpenedAt, sentAt>>
  BY DEF Start, statusVars
<1> HIDE DEF n
<1>7. f \in Nat /\ to \in Nat /\ f <= to
  <2>1. f \in Nat /\ to \in Nat BY HistoryAssumption DEF Instants
  <2>2. <<f, to>>[1] <= <<f, to>>[2] BY <1>6, HistoryAssumption
  <2> QED BY <2>1, <2>2
<1>8. 1 \in 1..PageCount(f, to)
  <2>1. PageCount(f, to) \in Nat \ {0} BY <1>7, PagesCover
  <2> QED BY <2>1
<1>9. Gathered(n)
  <2>1. Times(n.points) = {} BY <1>5 DEF Times
  <2>2. Covered(n, n.page - 1) = {} BY <1>5 DEF Covered
  <2> QED BY <2>1, <2>2 DEF Gathered
<1>10. PagesOf(n) BY <1>5, <1>6, <1>8, <1>9 DEF PagesOf
<1>11. StatusTypeOK' BY <1>6 DEF HistoryInv, StatusTypeOK
<1>12. n.pc # "sent" BY <1>5
<1> QED BY <1>4, <1>6, <1>10, <1>11, <1>12, RequestStepKeeps

\* The calls and the answers, which move the breaker.
LEMMA BreakerStepKeeps ==
  ASSUME HistoryInv, NEW r \in Requests,
         Send(r) \/ AnswerOk(r) \/ AnswerError(r) \/ Catch(r)
  PROVE  HistoryInv'
<1>1. /\ requests \in [Requests -> Progress] /\ sentAt \in [Requests -> Stamp]
      /\ consecutiveFailures \in Nat /\ circuitOpenedAt \in Stamp /\ now \in Clock
  BY DEF HistoryInv, HistoryTypeOK, StatusTypeOK
<1>2. /\ Clock \subseteq Stamp /\ Stamp \subseteq Nat /\ Never \in Stamp
      /\ \A t \in Clock : t # Never
  BY StatusAssumption DEF Clock, Stamp, Never
<1>3. UNCHANGED <<now, status>> BY DEF Send, AnswerOk, AnswerError, Catch, statusVars
<1>4. PagesOf(requests[r]) /\ requests[r] \in Progress BY <1>1 DEF HistoryInv
<1>5. PICK n \in Progress : PagesOf(n) /\ requests' = [requests EXCEPT ![r] = n]
                            /\ (n.pc = "sent" <=> Send(r))
  <2>1. requests[r].pc \notin {"idle", "answered", "failed"}
    BY DEF Send, AnswerOk, AnswerError, Catch, Counting
  <2>2. CASE Send(r)
    <3> DEFINE n == [requests[r] EXCEPT !.pc = "sent"]
    <3>1. n \in Progress /\ PagesOf(n) BY <1>2, <1>4, <2>1, SamePage DEF Steps
    <3>2. requests' = [requests EXCEPT ![r] = n] BY <2>2 DEF Send, SetPc
    <3>3. n.pc = "sent" BY <1>4 DEF Progress
    <3> HIDE DEF n
    <3> QED BY <2>2, <3>1, <3>2, <3>3
  <2>3. ASSUME NEW pc \in {"markError", "markCaught"}, SetMark(r, pc)
        PROVE  \E n \in Progress : PagesOf(n) /\ requests' = [requests EXCEPT ![r] = n]
                                   /\ n.pc # "sent"
    <3> DEFINE n == [requests[r] EXCEPT !.pc = pc, !.at = now]
    <3>1. n \in Progress /\ PagesOf(n) BY <1>1, <1>2, <1>4, <2>1, SamePage DEF Steps
    <3>2. n.pc = pc BY <1>4 DEF Progress
    <3>3. requests' = [requests EXCEPT ![r] = n] BY <2>3 DEF SetMark
    <3> HIDE DEF n
    <3> QED BY <3>1, <3>2, <3>3
  <2>4. CASE AnswerOk(r)
    <3>1. PICK lost \in {{}, {requests[r].page}} :
            requests' = [requests EXCEPT ![r].pc = "markSuccess", ![r].at = now,
                                         ![r].blank = @ \cup lost]
      BY <2>4 DEF AnswerOk
    <3> DEFINE n == [requests[r] EXCEPT !.pc = "markSuccess", !.at = now, !.blank = @ \cup lost]
    <3>2. n \in Progress /\ PagesOf(n) BY <1>1, <1>2, <1>4, <2>1, SamePage DEF Steps
    <3>3. n.pc = "markSuccess" BY <1>4 DEF Progress
    <3>4. requests' = [requests EXCEPT ![r] = n] BY <1>1, <3>1
    <3> HIDE DEF n
    <3>5. ~Send(r) BY <2>4, <1>1, <3>3, <3>4 DEF Send, AnswerOk
    <3> QED BY <3>2, <3>3, <3>4, <3>5
  <2>5. ASSUME AnswerError(r) \/ Catch(r) PROVE ~Send(r)
    BY <2>5 DEF AnswerError, Catch, Send, Counting
  <2> QED BY <2>2, <2>3, <2>4, <2>5 DEF AnswerError, Catch
<1>6. /\ consecutiveFailures' \in Nat /\ circuitOpenedAt' \in Stamp
      /\ sentAt' \in [Requests -> Stamp]
      /\ circuitOpenedAt' = Never => consecutiveFailures' < MaxFailures
      /\ circuitOpenedAt' \in {Never, circuitOpenedAt, now}
      /\ circuitOpenedAt' \in {Never, now} \/ sentAt' = [sentAt EXCEPT ![r] = Never]
  <2>1. circuitOpenedAt = Never => consecutiveFailures < MaxFailures
    BY DEF HistoryInv, BreakerInv
  <2>2. CASE Send(r)
    <3>1. sentAt' = [sentAt EXCEPT ![r] = now] BY <2>2 DEF Send
    <3>2. sentAt' \in [Requests -> Stamp] BY <1>1, <1>2, <3>1
    <3> QED BY <1>1, <1>2, <2>1, <2>2, <3>2, HistoryAssumption DEF Send
  <2>3. CASE AnswerOk(r)
    BY <1>1, <1>2, <2>3, HistoryAssumption DEF AnswerOk, RecordSuccess
  <2>4. CASE RecordFailure /\ sentAt' = [sentAt EXCEPT ![r] = Never]
    BY <1>1, <1>2, <2>1, <2>4, HistoryAssumption DEF RecordFailure
  <2> QED BY <2>2, <2>3, <2>4 DEF AnswerError, Catch
<1>7. StatusTypeOK' BY <1>3 DEF HistoryInv, StatusTypeOK
<1>8. HistoryTypeOK' BY <1>1, <1>5, <1>6 DEF HistoryTypeOK
<1>9. \A x \in Requests : requests'[x] = IF x = r THEN n ELSE requests[x] BY <1>1, <1>5
<1>10. (\A x \in Requests : PagesOf(requests[x]))' BY <1>5, <1>9 DEF HistoryInv
<1>11. BreakerInv'
  <2>1. \A x \in Requests : sentAt'[x] <= now
    <3>1. \A x \in Requests : sentAt'[x] \in {sentAt[x], now, Never}
      BY <1>1 DEF Send, AnswerOk, AnswerError, Catch
    <3> QED BY <1>1, <1>2, <3>1 DEF HistoryInv, BreakerInv, Never
  <2>2. circuitOpenedAt' <= now BY <1>1, <1>2, <1>6 DEF HistoryInv, BreakerInv, Never
  <2>3. ASSUME circuitOpenedAt' # Never, NEW x \in Requests, requests'[x].pc = "sent"
        PROVE  sentAt'[x] <= circuitOpenedAt'
    <3>1. CASE circuitOpenedAt' = now BY <2>1, <3>1
    <3>2. CASE circuitOpenedAt' = circuitOpenedAt /\ sentAt' = [sentAt EXCEPT ![r] = Never]
      <4>1. ~Send(r) BY <2>3, <3>2 DEF Send
      <4>2. requests[x].pc = "sent" /\ x # r BY <1>5, <1>9, <2>3, <4>1
      <4>3. sentAt'[x] = sentAt[x] BY <1>1, <3>2, <4>2
      <4> QED BY <2>3, <3>2, <4>2, <4>3 DEF HistoryInv, BreakerInv
    <3> QED BY <1>6, <2>3, <3>1, <3>2
  <2> QED BY <1>3, <1>6, <2>1, <2>2, <2>3 DEF BreakerInv
<1> QED BY <1>7, <1>8, <1>10, <1>11 DEF HistoryInv

\* What the vendor returns for a part of the range.
LEMMA SeriesOf ==
  ASSUME NEW a \in Instants, NEW b \in Instants, a <= b
  PROVE  /\ VendorSeries(a, b) \in Seq(Instants)
         /\ Times(VendorSeries(a, b)) = a..b
<1>1. a \in Nat /\ b \in Nat /\ b - a + 1 \in Nat BY HistoryAssumption DEF Instants
<1>2. \A i \in 1..(b - a + 1) : a + i - 1 \in a..b BY <1>1
<1>3. a..b \subseteq Instants BY <1>1, HistoryAssumption DEF Instants
<1>4. VendorSeries(a, b) \in Seq(Instants) BY <1>1, <1>2, <1>3 DEF VendorSeries
<1>5. ASSUME NEW t \in a..b
      PROVE  t \in {VendorSeries(a, b)[i] : i \in DOMAIN VendorSeries(a, b)}
  <2>1. t - a + 1 \in 1..(b - a + 1) /\ a + (t - a + 1) - 1 = t BY <1>1
  <2> QED BY <2>1 DEF VendorSeries
<1> QED BY <1>2, <1>4, <1>5 DEF VendorSeries, Times

LEMMA PointsOfBoth ==
  ASSUME NEW S, NEW u \in Seq(S), NEW v \in Seq(S)
  PROVE  Times(u \o v) = Times(u) \cup Times(v)
<1> USE DEF Times
<1>1. Len(u) \in Nat /\ Len(v) \in Nat /\ DOMAIN u = 1..Len(u) /\ DOMAIN v = 1..Len(v)
  OBVIOUS
<1>2. /\ u \o v \in Seq(S) /\ Len(u \o v) = Len(u) + Len(v)
      /\ DOMAIN (u \o v) = 1..(Len(u) + Len(v))
  BY <1>1
<1>3. \A i \in 1..(Len(u) + Len(v)) :
        (u \o v)[i] = IF i <= Len(u) THEN u[i] ELSE v[i - Len(u)]
  BY <1>1
<1>4. ASSUME NEW i \in DOMAIN v PROVE v[i] \in {(u \o v)[j] : j \in DOMAIN (u \o v)}
  <2>1. i + Len(u) \in DOMAIN (u \o v) /\ ~(i + Len(u) <= Len(u)) /\ (i + Len(u)) - Len(u) = i
    BY <1>1, <1>2
  <2> QED BY <1>2, <1>3, <2>1
<1>5. ASSUME NEW i \in DOMAIN u PROVE u[i] \in {(u \o v)[j] : j \in DOMAIN (u \o v)}
  BY <1>1, <1>2, <1>3
<1>6. ASSUME NEW i \in DOMAIN (u \o v)
      PROVE  (u \o v)[i] \in {u[j] : j \in DOMAIN u} \cup {v[j] : j \in DOMAIN v}
  <2>1. CASE i <= Len(u) BY <1>1, <1>2, <1>3, <2>1
  <2>2. CASE ~(i <= Len(u))
    <3>1. i - Len(u) \in DOMAIN v BY <1>1, <1>2, <2>2
    <3> QED BY <1>2, <1>3, <2>2, <3>1
  <2> QED BY <2>1, <2>2
<1> QED BY <1>4, <1>5, <1>6

\* Where a page starts and ends: within the range, and none is empty.
LEMMA SegmentEnds ==
  ASSUME NEW f \in Instants, NEW to \in Instants, f <= to,
         NEW n \in 1..PageCount(f, to)
  PROVE  LET a == Segment(f, to, n)[1]
             b == Segment(f, to, n)[2]
         IN  /\ a \in Instants /\ b \in Instants /\ a <= b /\ f <= a /\ b <= to
             /\ a = f + (n - 1) * PageRange
             /\ b = Smaller(f + n * PageRange, to)
<1> DEFINE k == PageCount(f, to)
           a == Segment(f, to, n)[1]
           b == Segment(f, to, n)[2]
<1>1. f \in Nat /\ to \in Nat /\ PageRange \in Nat \ {0} /\ MaxInstant \in Nat /\ to <= MaxInstant
  BY HistoryAssumption DEF Instants
<1>2. /\ k \in Nat \ {0}
      /\ to <= f + k * PageRange
      /\ \A i \in Nat \ {0} : i < k => f + i * PageRange < to
  BY <1>1, PagesCover
<1>3. a = f + (n - 1) * PageRange /\ b = Smaller(f + n * PageRange, to) BY DEF Segment
<1> HIDE DEF k, a, b
<1>4. n \in Nat \ {0} /\ n <= k /\ n - 1 \in Nat BY <1>2 DEF k
<1>5. (n - 1) * PageRange \in Nat /\ n * PageRange = (n - 1) * PageRange + PageRange
  BY <1>1, <1>4
<1>6. (n - 1) * PageRange <= to - f
  <2>1. CASE n = 1 BY <1>1, <2>1
  <2>2. CASE n # 1
    <3>1. n - 1 \in Nat \ {0} /\ n - 1 < k BY <1>2, <1>4, <2>2
    <3>2. f + (n - 1) * PageRange < to BY <1>2, <3>1
    <3> QED BY <1>1, <1>5, <3>2
  <2> QED BY <2>1, <2>2
<1>7. a \in Nat /\ f <= a /\ a <= to BY <1>1, <1>3, <1>5, <1>6
<1>8. b \in Nat /\ a <= b /\ b <= to BY <1>1, <1>3, <1>5, <1>7 DEF Smaller
<1>9. a \in Instants /\ b \in Instants BY <1>1, <1>7, <1>8 DEF Instants
<1> QED BY <1>3, <1>7, <1>8, <1>9 DEF a, b, k

\* A page that is not lost brings what Covered says of it.
LEMMA PageBrings ==
  ASSUME NEW q \in Progress, q.from <= q.to, q.page \in 1..PageCount(q.from, q.to)
  PROVE  LET segment == IF PageCount(q.from, q.to) = 1 THEN <<q.from, q.to>>
                                                      ELSE Segment(q.from, q.to, q.page)
             v == VendorSeries(segment[1], segment[2])
         IN  v \in Seq(Instants) /\ Times(v) = {t \in q.from..q.to : InPage(q, q.page, t)}
<1> DEFINE f == q.from
           to == q.to
           n == q.page
           k == PageCount(f, to)
           a == Segment(f, to, n)[1]
           b == Segment(f, to, n)[2]
           segment == IF k = 1 THEN <<f, to>> ELSE Segment(f, to, n)
<1>1. /\ f \in Instants /\ to \in Instants /\ n \in Nat /\ f \in Nat /\ to \in Nat
      /\ PageRange \in Nat \ {0}
  BY HistoryAssumption DEF Progress, Instants
<1>2. /\ a \in Instants /\ b \in Instants /\ a <= b /\ f <= a /\ b <= to
      /\ a = f + (n - 1) * PageRange /\ b = Smaller(f + n * PageRange, to)
  <2> HIDE DEF f, to, n
  <2> QED BY <1>1, SegmentEnds DEF f, to, n
<1>3. segment[1] = a /\ segment[2] = b
  <2>1. CASE k # 1 BY <2>1
  <2>2. CASE k = 1
    <3>1. n = 1 /\ (n - 1) * PageRange = 0 /\ n * PageRange = PageRange BY <1>1, <2>2
    <3>2. to <= f + k * PageRange
      <4> HIDE DEF f, to, k
      <4> QED BY <1>1, PagesCover DEF f, to, k
    <3>3. k * PageRange = PageRange BY <1>1, <2>2
    <3> HIDE DEF f, to, n, k, a, b
    <3>4. a = f BY <1>1, <1>2, <3>1
    <3>5. b = to BY <1>1, <1>2, <3>1, <3>2, <3>3 DEF Smaller
    <3> QED BY <2>2, <3>4, <3>5
  <2> QED BY <2>1, <2>2
<1>4. (n - 1) * PageRange \in Int /\ n * PageRange \in Int /\ a \in Nat /\ b \in Nat
  BY <1>1, <1>2, HistoryAssumption DEF Instants
<1>5. {t \in f..to : InPage(q, n, t)} = a..b
  <2>1. \A t : InPage(q, n, t) <=> (f + (n - 1) * PageRange <= t /\ t <= f + n * PageRange)
    BY DEF InPage
  <2> DEFINE x == n * PageRange
             y == (n - 1) * PageRange
  <2>2. x \in Int /\ y \in Int /\ a = f + y /\ b = Smaller(f + x, to)
        /\ \A t : InPage(q, n, t) <=> (f + y <= t /\ t <= f + x)
    BY <1>2, <1>4, <2>1
  <2> HIDE DEF x, y, a, b, f, to, n
  <2> QED BY <1>1, <1>2, <1>4, <2>2 DEF Smaller
<1> HIDE DEF segment, a, b
<1>6. LET v == VendorSeries(segment[1], segment[2])
      IN  v \in Seq(Instants) /\ Times(v) = {t \in f..to : InPage(q, n, t)}
  BY <1>2, <1>3, <1>5, SeriesOf
<1> QED BY <1>6 DEF segment

LEMMA MarkSuccessKeeps ==
  ASSUME HistoryInv, NEW r \in Requests, MarkSuccess(r)
  PROVE  HistoryInv'
<1> DEFINE q == requests[r]
           k == PageCount(q.from, q.to)
           segment == IF k = 1 THEN <<q.from, q.to>> ELSE Segment(q.from, q.to, q.page)
           v == IF q.page \in q.blank THEN <<>> ELSE VendorSeries(segment[1], segment[2])
           w == q.points \o v
           next == [q EXCEPT !.pc = "fetch", !.page = @ + 1, !.points = w, !.at = Never]
           last == [q EXCEPT !.pc = "answered", !.points = Normalized(w), !.at = Never]
           n == IF q.page < k THEN next ELSE last
<1>1. /\ requests \in [Requests -> Progress] /\ status \in [StatusColumns -> Stamp]
      /\ q \in Progress /\ PagesOf(q)
  BY DEF HistoryInv, HistoryTypeOK, StatusTypeOK
<1>2. /\ q.pc = "markSuccess"
      /\ MarkHeatPumpHistorySuccess(q.at)
      /\ requests' = [requests EXCEPT ![r] = n]
      /\ UNCHANGED <<now, consecutiveFailures, circuitOpenedAt, sentAt>>
  BY DEF MarkSuccess
<1>3. /\ q.from \in Instants /\ q.to \in Instants /\ q.page \in Nat /\ q.blank \in SUBSET Nat
      /\ q.points \in Seq(Instants) /\ q.at \in Stamp
  BY <1>1 DEF Progress
<1>4. <<q.from, q.to>> \in Ranges /\ q.page \in 1..k /\ Gathered(q)
  BY <1>1, <1>2 DEF PagesOf, Steps
<1>5. q.from \in Nat /\ q.to \in Nat /\ q.from <= q.to /\ PageRange \in Nat \ {0}
  <2>1. <<q.from, q.to>>[1] <= <<q.from, q.to>>[2] BY <1>4, HistoryAssumption
  <2> QED BY <1>3, <2>1, HistoryAssumption DEF Instants
<1>6. k \in Nat \ {0} BY <1>5, PagesCover
<1>8. v \in Seq(Instants)
      /\ Times(v) = {t \in q.from..q.to : q.page \notin q.blank /\ InPage(q, q.page, t)}
  <2>1. CASE q.page \in q.blank
    <3>1. v = <<>> BY <2>1
    <3> HIDE DEF v, q
    <3>2. v \in Seq(Instants) /\ Times(v) = {} BY <3>1 DEF Times
    <3> QED BY <2>1, <3>2
  <2>2. CASE q.page \notin q.blank
    <3> DEFINE u == VendorSeries(segment[1], segment[2])
    <3>1. u \in Seq(Instants) /\ Times(u) = {t \in q.from..q.to : InPage(q, q.page, t)}
      <4> HIDE DEF q
      <4> QED BY <1>1, <1>4, <1>5, PageBrings
    <3>2. v = u BY <2>2
    <3> HIDE DEF u, v, q
    <3> QED BY <2>2, <3>1, <3>2
  <2> QED BY <2>1, <2>2
<1>9. w \in Seq(Instants) /\ Times(w) = Covered(q, q.page)
  <2> HIDE DEF v, q
  <2>1. Times(w) = Times(q.points) \cup Times(v) BY <1>3, <1>8, PointsOfBoth
  <2>2. Times(q.points) = Covered(q, q.page - 1) BY <1>4 DEF Gathered
  <2>3. 1..q.page = (1..(q.page - 1)) \cup {q.page} BY <1>3, <1>4
  <2>4. Covered(q, q.page) = Covered(q, q.page - 1) \cup
          {t \in q.from..q.to : q.page \notin q.blank /\ InPage(q, q.page, t)}
    <3> HIDE DEF w
    <3> QED BY <2>3, Zenon DEF Covered
  <2> QED BY <1>3, <1>8, <2>1, <2>2, <2>4
<1>10. StatusTypeOK'
  <2> HIDE DEF q
  <2> QED BY <1>1, <1>2, <1>3
      DEF HistoryInv, StatusTypeOK, MarkHeatPumpHistorySuccess, StatusColumns, Stamp
<1>11. CASE q.page < k
  <2>1. /\ next \in Progress /\ next.pc = "fetch" /\ next.page = q.page + 1
        /\ next.from = q.from /\ next.to = q.to /\ next.points = w /\ next.blank = q.blank
    <3> HIDE DEF w, q
    <3>1. q.page + 1 \in Nat /\ Never \in Stamp /\ "fetch" \in Steps
      BY <1>3 DEF Stamp, Steps
    <3>2. next \in Progress BY <1>1, <1>9, <3>1 DEF Progress
    <3> QED BY <1>1, <3>2 DEF Progress
  <2>2. next.page - 1 = q.page BY <1>3, <2>1
  <2>3. next.page \in 1..k
    <3> HIDE DEF next, q, k
    <3> QED BY <1>3, <1>4, <1>6, <1>11, <2>1
  <2>4. PagesOf(next)
    <3> HIDE DEF next, w, q
    <3>1. Covered(next, q.page) = Covered(q, q.page) BY <2>1, Zenon DEF Covered, InPage
    <3>2. Gathered(next) BY <1>9, <2>1, <2>2, <3>1 DEF Gathered
    <3> QED BY <1>4, <2>1, <2>3, <3>2 DEF PagesOf
  <2>5. requests' = [requests EXCEPT ![r] = next] BY <1>2, <1>11
  <2> HIDE DEF next
  <2> QED BY <1>2, <1>10, <2>1, <2>4, <2>5, RequestStepKeeps
<1>12. CASE ~(q.page < k)
  <2>1. /\ Normalized(w) \in Seq(Instants) /\ InOrder(Normalized(w))
        /\ Times(Normalized(w)) = Covered(q, k)
    <3>1. q.page = k BY <1>3, <1>4, <1>6, <1>12
    <3> HIDE DEF w, q, k
    <3>2. Covered(q, k) \subseteq Instants
      BY <1>3, <1>5, HistoryAssumption DEF Covered, Instants
    <3>3. Times(w) \subseteq 0..MaxInstant /\ MaxInstant \in Nat
      BY <1>9, <3>1, <3>2, HistoryAssumption DEF Instants
    <3>4. /\ Normalized(w) \in Seq(Times(w)) /\ Times(Normalized(w)) = Times(w)
          /\ InOrder(Normalized(w))
      BY <3>3, NormalizedSorted
    <3>5. Times(w) \subseteq Instants BY <1>9, <3>1, <3>2
    <3>6. Normalized(w) \in Seq(Instants) BY <3>4, <3>5
    <3> QED BY <1>9, <3>1, <3>4, <3>6
  <2>2. /\ last \in Progress /\ last.pc = "answered"
        /\ last.from = q.from /\ last.to = q.to /\ last.blank = q.blank
        /\ last.points = Normalized(w)
    <3> HIDE DEF w, q
    <3> QED BY <1>1, <1>3, <2>1 DEF Progress, Steps, Stamp
  <2>3. PagesOf(last)
    <3> HIDE DEF last, w, q
    <3>1. Covered(last, k) = Covered(q, k) BY <2>2, Zenon DEF Covered, InPage
    <3> QED BY <2>1, <2>2, <3>1 DEF PagesOf
  <2>4. requests' = [requests EXCEPT ![r] = last] BY <1>2, <1>12
  <2> HIDE DEF last
  <2> QED BY <1>2, <1>10, <2>2, <2>3, <2>4, RequestStepKeeps
<1> QED BY <1>11, <1>12

LEMMA HistoryKeeps ==
  ASSUME HistoryInv, HistoryNext
  PROVE  HistoryInv'
<1>1. /\ requests \in [Requests -> Progress] /\ status \in [StatusColumns -> Stamp]
      /\ now \in Clock
  BY DEF HistoryInv, HistoryTypeOK, StatusTypeOK
<1>2. now \in Stamp BY <1>1 DEF Stamp
<1>3. ASSUME NEW r \in Requests, Lookup(r) \/ Refuse(r) PROVE HistoryInv'
  <2>1. /\ requests[r] \in Progress /\ PagesOf(requests[r])
        /\ requests[r].pc \notin {"idle", "answered", "failed"}
    BY <1>1, <1>3 DEF HistoryInv, Lookup, Refuse
  <2>2. /\ UNCHANGED <<now, status, consecutiveFailures, circuitOpenedAt, sentAt>>
    BY <1>3 DEF Lookup, Refuse, statusVars
  <2>3. StatusTypeOK' BY <2>2 DEF HistoryInv, StatusTypeOK
  <2>4. PICK n \in Progress : PagesOf(n) /\ n.pc # "sent"
                              /\ requests' = [requests EXCEPT ![r] = n]
    <3>1. CASE Lookup(r) /\ SetPc(r, "fetch")
      <4> DEFINE n == [requests[r] EXCEPT !.pc = "fetch"]
      <4>1. n \in Progress /\ PagesOf(n) BY <1>2, <2>1, SamePage DEF Steps
      <4>2. n.pc = "fetch" /\ requests' = [requests EXCEPT ![r] = n]
        BY <2>1, <3>1 DEF SetPc, Progress
      <4> HIDE DEF n
      <4> QED BY <4>1, <4>2
    <3>2. CASE Lookup(r) /\ SetPc(r, "failed")
      <4> DEFINE n == [requests[r] EXCEPT !.pc = "failed"]
      <4>1. n \in Progress /\ n.pc = "failed" BY <2>1 DEF Progress, Steps
      <4>2. requests' = [requests EXCEPT ![r] = n] BY <3>2 DEF SetPc
      <4> HIDE DEF n
      <4>3. PagesOf(n) BY <4>1 DEF PagesOf
      <4> QED BY <4>1, <4>2, <4>3
    <3>3. CASE Refuse(r)
      <4> DEFINE n == [requests[r] EXCEPT !.pc = "markRefused", !.at = now]
      <4>1. n \in Progress /\ PagesOf(n) BY <1>2, <2>1, SamePage DEF Steps
      <4>2. n.pc = "markRefused" BY <2>1 DEF Progress
      <4>3. requests' = [requests EXCEPT ![r] = n] BY <3>3 DEF Refuse, SetMark
      <4> HIDE DEF n
      <4> QED BY <4>1, <4>2, <4>3
    <3> QED BY <1>3, <3>1, <3>2, <3>3 DEF Lookup
  <2> QED BY <2>2, <2>3, <2>4, RequestStepKeeps
<1>4. ASSUME NEW r \in Requests, MarkError(r) \/ MarkThrows(r) PROVE HistoryInv'
  <2> DEFINE n == [Fresh EXCEPT !.pc = "failed"]
  <2>1. n \in Progress /\ n.pc = "failed" /\ PagesOf(n) BY FailedRequest
  <2>2. /\ requests' = [requests EXCEPT ![r] = n]
        /\ UNCHANGED <<now, consecutiveFailures, circuitOpenedAt, sentAt>>
    BY <1>4 DEF MarkError, MarkThrows, statusVars
  <2>3. requests[r].at \in Stamp BY <1>1 DEF Progress
  <2>4. StatusTypeOK'
    BY <1>1, <1>4, <2>3 DEF HistoryInv, StatusTypeOK, MarkError, MarkThrows, statusVars,
       MarkHeatPumpHistoryError, StatusColumns
  <2> HIDE DEF n
  <2> QED BY <2>1, <2>2, <2>4, RequestStepKeeps
<1>5. CASE Tick /\ UNCHANGED historyVars
  <2>1. StatusTypeOK' BY <1>5, StatusAssumption
    DEF HistoryInv, StatusTypeOK, Tick, Clock, Stamp
  <2> QED BY <1>5, <2>1, HistoryFrame DEF Tick
<1> QED BY <1>3, <1>4, <1>5, StartKeeps, BreakerStepKeeps, MarkSuccessKeeps DEF HistoryNext

-----------------------------------------------------------------------------
(* The three parts together *)

IInv ==
    /\ part \in {"ingest", "connection", "history"}
    /\ IngestInv
    /\ ConnectionInv
    /\ HistoryInv

LEMMA IntegrationsStart == Init => IInv
BY IngestStarts, ConnectionStarts, HistoryStarts DEF Init, IInv

LEMMA IntegrationsKeep == IInv /\ [Next]_vars => IInv'
<1> SUFFICES ASSUME IInv, [Next]_vars PROVE IInv' OBVIOUS
<1> USE DEF IInv
<1>1. status \in [StatusColumns -> Stamp] BY DEF IngestInv, StatusTypeOK
<1>2. CASE IngestMoves
  <2>1. IngestInv' BY <1>2, IngestKeeps DEF IngestMoves
  <2>2. now' = now \/ now' = now + 1
    BY <1>2 DEF IngestMoves, IngestNext, Deliver, Find, InsertTelemetryBatch,
       UpsertDeviceSnapshot, MarkOutcome, Throw, CrashWorker, Tick, statusVars
  <2>3. StatusTypeOK' BY <2>1 DEF IngestInv
  <2> QED BY <1>2, <2>1, <2>2, <2>3, ConnectionFrame, HistoryFrame DEF IngestMoves
<1>3. CASE ConnectionMoves
  <2>1. ConnectionInv' BY <1>3, ConnectionKeeps DEF ConnectionMoves
  <2>2. now' = now \/ now' = now + 1
    BY <1>3 DEF ConnectionMoves, ConnectionNext, OnConnect, OnError, OnClose,
       InitConnection, SafeMarkMqttError, NetworkSettles, Tick, statusVars
  <2>3. \/ status' = status
        \/ \E at \in Clock : status' = [status EXCEPT !["ingestErrorAt"] = at]
    BY <1>3 DEF ConnectionMoves, ConnectionNext, OnConnect, OnError, OnClose,
       InitConnection, SafeMarkMqttError, MarkMqttIngestError, NetworkSettles, Tick, statusVars
  <2>4. status'["ingestAt"] = status["ingestAt"] BY <1>1, <2>3 DEF StatusColumns
  <2>5. StatusTypeOK' BY <2>1 DEF ConnectionInv
  <2> QED BY <1>3, <2>1, <2>2, <2>4, <2>5, IngestFrame, HistoryFrame DEF ConnectionMoves
<1>4. CASE HistoryMoves
  <2>1. HistoryInv' BY <1>4, HistoryKeeps DEF HistoryMoves
  <2>2. \/ UNCHANGED status
        \/ \E r \in Requests : MarkSuccess(r) \/ MarkError(r)
    BY <1>4 DEF HistoryMoves, HistoryNext, Start, Lookup, Refuse, Send, AnswerOk,
       AnswerError, Catch, MarkThrows, Tick, statusVars
  <2>3. status'["ingestAt"] = status["ingestAt"]
    BY <1>1, <2>2 DEF MarkSuccess, MarkError, MarkHeatPumpHistorySuccess,
       MarkHeatPumpHistoryError, StatusColumns
  <2>4. StatusTypeOK' BY <2>1 DEF HistoryInv
  <2> QED BY <1>4, <2>1, <2>3, <2>4, IngestFrame, ConnectionFrame DEF HistoryMoves
<1>5. CASE UNCHANGED vars
  <2>1. StatusTypeOK' BY <1>5 DEF vars, statusVars, IngestInv, StatusTypeOK
  <2> QED BY <1>5, <2>1, IngestFrame, ConnectionFrame, HistoryFrame DEF vars, statusVars
<1> QED BY <1>2, <1>3, <1>4, <1>5 DEF Next

LEMMA IntegrationsAlways == Spec => []IInv
<1>1. Init => IInv BY IntegrationsStart
<1>2. IInv /\ [Next]_vars => IInv' BY IntegrationsKeep
<1> QED BY <1>1, <1>2, PTL DEF Spec

\* The state of the integrations is well typed.
THEOREM Typed == Spec => []TypeOK
<1>1. IInv => TypeOK BY DEF IInv, IngestInv, ConnectionInv, HistoryInv, TypeOK
<1> QED BY <1>1, IntegrationsAlways, PTL

\* A snapshot's message is in the points table (handleTelemetryMessage upserts
\* the snapshot after the points, in a statement of its own).
THEOREM SnapshotsHavePoints == Spec => []SnapshotHasPoints
<1>1. IInv => SnapshotHasPoints BY DEF IInv, IngestInv
<1> QED BY <1>1, IntegrationsAlways, PTL

\* The snapshot of a device falls behind what was stored of it only after messages of
\* that device came out of order or were handled at the same time.
THEOREM OnlyDisorder == Spec => []OnlyDisorderSetsBack
<1>1. IInv => OnlyDisorderSetsBack BY DEF IInv, IngestInv
<1> QED BY <1>1, IntegrationsAlways, PTL

\* /health-plus calls MQTT healthy only when some message that came within its window
\* was stored to the end; it may have missed failures since (safeMarkMqttSuccess).
THEOREM HealthIsEarned == Spec => []IngestHealthIsEarned
<1>1. IInv => IngestHealthIsEarned
  <2> SUFFICES ASSUME IInv, MqttHealthy PROVE IngestHealthIsEarned
    BY DEF IngestHealthIsEarned
  <2>1. status["ingestAt"] # Never /\ ~(now - status["ingestAt"] > MqttWindow)
    BY DEF MqttHealthy, IsStale
  <2>2. PICK s \in stored : s.at = status["ingestAt"]
    BY <2>1 DEF IInv, IngestInv, MarksAreStored
  <2>3. now \in Nat /\ status["ingestAt"] \in Nat
    BY StatusAssumption DEF IInv, IngestInv, StatusTypeOK, StatusColumns, Stamp, Clock, Never
  <2> QED BY <2>1, <2>2, <2>3, StatusAssumption DEF IngestHealthIsEarned
<1> QED BY <1>1, IntegrationsAlways, PTL

\* The MQTT worker has a retry due, a connection that will report or one it hears on,
\* or is stuck in one of two ways: its good connection has no subscription because the
\* subscribe failed, or its closed one is not retried because a replaced client, still
\* open, has connected (scheduleReconnect and the handlers of initConnection).
THEOREM NotStranded == Spec => []NeverStranded
<1>1. IInv => NeverStranded BY DEF IInv, ConnectionInv
<1> QED BY <1>1, IntegrationsAlways, PTL

\* An answer put together from pages has the points of every page whose body came,
\* once and in order, for every range, page size and interleaving; a page whose body
\* was lost is answered for as empty (getHistoryForRequest, fetchHeatPumpHistory).
THEOREM PagesMakeWhole == Spec => []PagesMakeTheWhole
<1>1. IInv => PagesMakeTheWhole
  BY DEF IInv, HistoryInv, PagesOf, PagesMakeTheWhole, InOrder, Times, Covered
<1> QED BY <1>1, IntegrationsAlways, PTL

-----------------------------------------------------------------------------
(* The history client implements the circuit breaker *)

\* What a step shows of the breaker, when the clock stands still: the state, the
\* failures that count and the opening follow from circuitOpenedAt.
LEMMA BreakerView ==
  ASSUME IInv
  PROVE  /\ circuitOpenedAt = Never => BreakerState = "closed"
         /\ circuitOpenedAt # Never => BreakerState \in {"open", "rested"}
         /\ BreakerState = "open" <=> IsCircuitOpen
         /\ BreakerState = "closed" => circuitOpenedAt = Never
BY DEF BreakerState, IsCircuitOpen

LEMMA BreakerStep == IInv /\ IInv' /\ [Next]_vars => [Breaker!Next]_(Breaker!vars)
<1> SUFFICES ASSUME IInv, IInv', [Next]_vars PROVE [Breaker!Next]_(Breaker!vars) OBVIOUS
<1> DEFINE fails == IF circuitOpenedAt = Never THEN consecutiveFailures ELSE MaxFailures
           pending == {r \in Requests : requests[r].pc \in Counting}
<1>1. /\ requests \in [Requests -> Progress] /\ requests' \in [Requests -> Progress]
      /\ consecutiveFailures \in Nat /\ circuitOpenedAt \in Nat /\ now \in Nat \ {0}
      /\ circuitOpenedAt <= now
      /\ circuitOpenedAt = Never => consecutiveFailures < MaxFailures
  BY StatusAssumption DEF IInv, HistoryInv, HistoryTypeOK, BreakerInv, StatusTypeOK,
     Stamp, Clock, Never
<1>2. ASSUME UNCHANGED <<now, consecutiveFailures, circuitOpenedAt>>
      PROVE  UNCHANGED <<now, BreakerState, fails, circuitOpenedAt>>
  BY <1>2 DEF BreakerState, IsCircuitOpen
<1>3. CASE UNCHANGED <<now, historyVars>>
  <2>1. UNCHANGED <<now, BreakerState, fails, circuitOpenedAt>> BY <1>2, <1>3 DEF historyVars
  <2>2. UNCHANGED pending BY <1>3 DEF historyVars
  <2> QED BY <2>1, <2>2 DEF Breaker!vars
<1>4. CASE Tick /\ UNCHANGED historyVars
  <2>1. now' = now + 1 /\ UNCHANGED <<circuitOpenedAt, fails, pending>>
    BY <1>4 DEF Tick, historyVars
  <2>2. BreakerState' = IF BreakerState = "open" /\ now' - circuitOpenedAt >= OpenWindow
                        THEN "rested" ELSE BreakerState
    BY <1>1, <1>4, <2>1, HistoryAssumption DEF BreakerState, IsCircuitOpen, historyVars
  <2>3. Breaker!Tick BY <2>1, <2>2 DEF Breaker!Tick
  <2> QED BY <2>3 DEF Breaker!Next
<1>5. ASSUME NEW r \in Requests, Send(r) PROVE Breaker!Admit(r)
  <2>1. BreakerState # "open" /\ r \notin pending
    BY <1>5 DEF Send, BreakerState, Counting
  <2>2. pending' = pending \cup {r} BY <1>1, <1>5 DEF Send, SetPc, Counting, Progress
  <2>3. circuitOpenedAt' = Never /\ now' = now BY <1>5 DEF Send, statusVars
  <2>4. BreakerState' = "closed" BY <2>3 DEF BreakerState
  <2>5. fails' = IF BreakerState = "rested" THEN 0 ELSE fails
    BY <1>5, <2>1, <2>3 DEF Send, BreakerState
  <2> QED BY <2>1, <2>2, <2>3, <2>4, <2>5 DEF Breaker!Admit, Never
<1>6. ASSUME NEW r \in Requests, AnswerOk(r) PROVE Breaker!Succeed(r)
  <2>1. r \in pending /\ pending' = pending
    BY <1>1, <1>6 DEF AnswerOk, SetMark, Counting, Progress
  <2>2. circuitOpenedAt' = Never /\ consecutiveFailures' = 0 /\ now' = now
    BY <1>6 DEF AnswerOk, RecordSuccess, statusVars
  <2>3. BreakerState' = "closed" /\ fails' = 0 BY <2>2 DEF BreakerState
  <2> QED BY <2>1, <2>2, <2>3 DEF Breaker!Succeed, Never
<1>7. ASSUME NEW r \in Requests, AnswerError(r) \/ Catch(r) PROVE Breaker!Fail(r)
  <2>1. r \in pending /\ pending' \in {pending, pending \ {r}}
    <3>1. CASE AnswerError(r)
      BY <1>1, <3>1 DEF AnswerError, SetMark, Counting, Progress
    <3>2. CASE Catch(r)
      BY <1>1, <3>2 DEF Catch, SetMark, Counting, Progress
    <3> QED BY <1>7, <3>1, <3>2
  <2>2. RecordFailure /\ now' = now BY <1>7 DEF AnswerError, Catch, statusVars
  <2>3. CASE BreakerState = "closed"
    <3>1. circuitOpenedAt = Never /\ fails = consecutiveFailures BY <2>3, BreakerView
    <3>2. CASE consecutiveFailures + 1 >= MaxFailures
      <4>1. circuitOpenedAt' = now /\ consecutiveFailures + 1 = MaxFailures
        BY <1>1, <2>2, <3>1, <3>2, HistoryAssumption DEF RecordFailure
      <4>2. fails' = fails + 1 BY <1>1, <3>1, <4>1 DEF Never
      <4>3. BreakerState' = "open"
        BY <1>1, <2>2, <4>1, HistoryAssumption DEF BreakerState, IsCircuitOpen, Never
      <4>4. fails' >= MaxFailures BY <3>1, <3>2, <4>2
      <4> QED BY <2>1, <2>2, <2>3, <4>1, <4>2, <4>3, <4>4 DEF Breaker!Fail
    <3>3. CASE ~(consecutiveFailures + 1 >= MaxFailures)
      <4>1. circuitOpenedAt' = Never /\ fails' = fails + 1
        BY <2>2, <3>1, <3>3 DEF RecordFailure
      <4>2. BreakerState' = "closed" BY <4>1 DEF BreakerState
      <4>3. ~(fails' >= MaxFailures) BY <3>1, <3>3, <4>1
      <4> QED BY <2>1, <2>2, <2>3, <4>1, <4>2, <4>3 DEF Breaker!Fail, Never
    <3> QED BY <3>2, <3>3
  <2>4. CASE BreakerState # "closed"
    <3>1. circuitOpenedAt # Never BY <2>4, BreakerView
    <3>2. UNCHANGED <<BreakerState, fails, circuitOpenedAt>>
      BY <2>2, <3>1 DEF RecordFailure, BreakerState, IsCircuitOpen
    <3> QED BY <2>1, <2>2, <2>4, <3>2 DEF Breaker!Fail
  <2> QED BY <2>3, <2>4
<1>8. ASSUME NEW r \in Requests,
             \/ \E f, to \in Instants : Start(r, f, to)
             \/ Lookup(r) \/ Refuse(r) \/ MarkSuccess(r) \/ MarkError(r) \/ MarkThrows(r)
      PROVE  Breaker!Leave(r) \/ UNCHANGED Breaker!vars
  <2>1. UNCHANGED <<now, consecutiveFailures, circuitOpenedAt>>
    BY <1>8 DEF Start, Lookup, Refuse, MarkSuccess, MarkError, MarkThrows, statusVars
  <2>2. UNCHANGED <<now, BreakerState, fails, circuitOpenedAt>> BY <1>2, <2>1
  <2>3. PICK n : requests' = [requests EXCEPT ![r] = n]
    BY <1>8 DEF Start, Lookup, Refuse, MarkSuccess, MarkError, MarkThrows, SetPc, SetMark
  <2>4. requests'[r].pc \notin Counting
    <3>1. ASSUME NEW f \in Instants, NEW to \in Instants, Start(r, f, to)
          PROVE  requests'[r].pc = "lookup"
      BY <1>1, <3>1, FreshTyped DEF Start, Progress
    <3>2. CASE Lookup(r) \/ Refuse(r)
      BY <1>1, <3>2 DEF Lookup, Refuse, SetPc, SetMark, Counting, Progress
    <3>3. CASE MarkSuccess(r) BY <1>1, <3>3 DEF MarkSuccess, Counting, Progress
    <3>4. CASE MarkError(r) \/ MarkThrows(r)
      BY <1>1, <3>4, FailedRequest DEF MarkError, MarkThrows, Counting
    <3> QED BY <1>8, <3>1, <3>2, <3>3, <3>4 DEF Counting
  <2>5. pending' = pending \ {r} BY <1>1, <2>3, <2>4
  <2>6. CASE r \in pending BY <2>2, <2>5, <2>6 DEF Breaker!Leave
  <2>7. CASE r \notin pending
    <3>1. pending' = pending BY <2>5, <2>7
    <3> QED BY <2>2, <3>1 DEF Breaker!vars
  <2> QED BY <2>6, <2>7
<1>9. CASE HistoryMoves
  BY <1>4, <1>5, <1>6, <1>7, <1>8, <1>9 DEF HistoryMoves, HistoryNext, Breaker!Next
<1>10. CASE IngestMoves \/ ConnectionMoves
  <2>1. UNCHANGED historyVars BY <1>10 DEF IngestMoves, ConnectionMoves
  <2>2. now' = now \/ Tick
    BY <1>10 DEF IngestMoves, IngestNext, Deliver, Find, InsertTelemetryBatch,
       UpsertDeviceSnapshot, MarkOutcome, Throw, CrashWorker, statusVars,
       ConnectionMoves, ConnectionNext, OnConnect, OnError, OnClose,
       InitConnection, SafeMarkMqttError, NetworkSettles
  <2> QED BY <1>3, <1>4, <2>1, <2>2
<1>11. CASE UNCHANGED vars BY <1>3, <1>11 DEF vars, statusVars
<1> QED BY <1>9, <1>10, <1>11 DEF Next

\* fetchHeatPumpHistory implements the circuit breaker, whatever the interleaving
\* of the requests and of the failed status writes.
THEOREM Implements == Spec => BreakerSpec
<1>1. Init => Breaker!Init
  BY DEF Init, StatusInit, HistoryInit, Breaker!Init, BreakerState, Never, Fresh, Counting
<1>2. IInv /\ IInv' /\ [Next]_vars => [Breaker!Next]_(Breaker!vars) BY BreakerStep
<1> QED BY <1>1, <1>2, IntegrationsAlways, PTL DEF Spec, BreakerSpec, Breaker!Spec

\* The circuit closes before its window has passed only on the answer to a call
\* that was sent before it opened.
THEOREM EarlyCloses == Spec => EarlyCloseIsAnOldAnswer
<1> DEFINE Closing ==
      (IsCircuitOpen /\ circuitOpenedAt' = Never) =>
        \E r \in Requests : /\ requests[r].pc = "sent"
                            /\ requests'[r].pc = "markSuccess"
                            /\ sentAt[r] <= circuitOpenedAt
<1>1. IInv /\ [Next]_vars => [Closing]_<<statusVars, historyVars>>
  <2> SUFFICES ASSUME IInv, [Next]_vars, IsCircuitOpen, circuitOpenedAt' = Never
               PROVE  \E r \in Requests : /\ requests[r].pc = "sent"
                                          /\ requests'[r].pc = "markSuccess"
                                          /\ sentAt[r] <= circuitOpenedAt
    OBVIOUS
  <2>1. circuitOpenedAt # Never BY DEF IsCircuitOpen
  <2>2. ~UNCHANGED circuitOpenedAt BY <2>1
  <2>3. HistoryNext
    BY <2>2 DEF Next, vars, IngestMoves, ConnectionMoves, HistoryMoves, historyVars
  <2>4. now \in Nat \ {0} /\ requests \in [Requests -> Progress]
    BY StatusAssumption DEF IInv, HistoryInv, HistoryTypeOK, StatusTypeOK, Clock
  <2>5. \A r \in Requests : ~Send(r) BY DEF Send
  <2>6. ~RecordFailure BY <2>1, <2>4 DEF RecordFailure, Never
  <2>7. PICK r \in Requests : AnswerOk(r)
    BY <2>2, <2>3, <2>5, <2>6 DEF HistoryNext, Start, Lookup, Refuse, AnswerError, Catch,
       MarkSuccess, MarkError, MarkThrows, historyVars
  <2>8. requests[r].pc = "sent" /\ requests'[r].pc = "markSuccess"
    BY <2>4, <2>7 DEF AnswerOk, SetMark, Progress
  <2>9. sentAt[r] <= circuitOpenedAt BY <2>1, <2>8 DEF IInv, HistoryInv, BreakerInv
  <2> QED BY <2>8, <2>9
<1> QED BY <1>1, IntegrationsAlways, PTL DEF Spec, EarlyCloseIsAnOldAnswer
=============================================================================
