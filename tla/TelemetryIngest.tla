-------------------------- MODULE TelemetryIngest --------------------------
(***************************************************************************)
(* What the MQTT worker does with a message                                *)
(* (backend/src/services/telemetryIngestService.ts, the 'message' handler  *)
(* of backend/src/integrations/mqttClient.ts).  Nothing orders the         *)
(* handlers: each awaits its statements, and the next message is handled   *)
(* meanwhile.  Messages may be late, repeated, or arrive over two          *)
(* connections at once (see MqttConnection), so any message may arrive at  *)
(* any time.                                                               *)
(***************************************************************************)
EXTENDS SystemStatus

CONSTANTS
    Devices,
    Handlers,       \* bound: how many messages are handled at a time
    MaxTs           \* bound: timestamps of messages are 1..MaxTs

ASSUME IngestAssumption == MaxTs \in Nat \ {0}

VARIABLES
    handling,       \* handler -> the message it works on
    points,         \* telemetry_points: <<device, timestamp>>
    snapshot,       \* device_snapshots: device -> last_seen_at, or None
    newest,         \* history: the newest timestamp that arrived, per device
    disordered,     \* history: devices whose messages overlapped or came late
    stored          \* history: what was stored to the end, and when it came

ingestVars == <<handling, points, snapshot, newest, disordered, stored>>

Ts == 1..MaxTs
None == 0
Idle == [pc |-> "idle"]
Message == [pc : {"find", "insert", "upsert", "ok", "error"},
            dev : Devices, ts : Ts, at : Clock]

IngestTypeOK ==
    /\ handling \in [Handlers -> Message \cup {Idle}]
    /\ points \subseteq Devices \X Ts
    /\ snapshot \in [Devices -> Ts \cup {None}]
    /\ newest \in [Devices -> Ts \cup {None}]
    /\ disordered \subseteq Devices
    /\ stored \subseteq [dev : Devices, ts : Ts, at : Clock]

IngestInit ==
    /\ handling = [h \in Handlers |-> Idle]
    /\ points = {}
    /\ snapshot = [d \in Devices |-> None]
    /\ newest = [d \in Devices |-> None]
    /\ disordered = {}
    /\ stored = {}

Busy(d) == \E h \in Handlers : handling[h].pc # "idle" /\ handling[h].dev = d

\* A message of device d arrives; `at` is the time the status row is marked with.
Deliver(h, d, ts) ==
    /\ handling[h] = Idle
    /\ handling' = [handling EXCEPT
                      ![h] = [pc |-> "find", dev |-> d, ts |-> ts, at |-> now]]
    /\ newest' = [newest EXCEPT ![d] = IF ts > @ THEN ts ELSE @]
    /\ disordered' = IF ts < newest[d] \/ Busy(d) THEN disordered \cup {d} ELSE disordered
    /\ UNCHANGED <<points, snapshot, stored, statusVars>>

Goto(h, pc) == handling' = [handling EXCEPT ![h].pc = pc]

\* The device is looked up; topic, site and payload are checked.  A message of
\* an unknown device, of another site, malformed or without metrics is refused.
Find(h) ==
    /\ handling[h].pc = "find"
    /\ \/ Goto(h, "insert")
       \/ Goto(h, "error")
    /\ UNCHANGED <<points, snapshot, newest, disordered, stored, statusVars>>

\* mutant: the snapshot is written before the points.
UpsertFirst(h) ==
    LET m == handling[h]
    IN  /\ m.pc = "insert"
        /\ snapshot' = [snapshot EXCEPT ![m.dev] = m.ts]
        /\ Goto(h, "upsert")
        /\ UNCHANGED <<points, newest, disordered, stored, statusVars>>

InsertTelemetryBatch(h) ==
    /\ handling[h].pc = "insert"
    /\ points' = points \cup {<<handling[h].dev, handling[h].ts>>}
    /\ Goto(h, "upsert")
    /\ UNCHANGED <<snapshot, newest, disordered, stored, statusVars>>

\* mutant: the snapshot of a device that has one is left as it is.
UpsertOnce(h) ==
    LET m == handling[h]
    IN  /\ m.pc = "upsert"
        /\ snapshot' = [snapshot EXCEPT ![m.dev] = IF @ = None THEN m.ts ELSE @]
        /\ stored' = stored \cup {[dev |-> m.dev, ts |-> m.ts, at |-> m.at]}
        /\ Goto(h, "ok")
        /\ UNCHANGED <<points, newest, disordered, statusVars>>

UpsertDeviceSnapshot(h) ==
    LET m == handling[h]
    IN  /\ m.pc = "upsert"
        /\ snapshot' = [snapshot EXCEPT ![m.dev] = m.ts]
        /\ stored' = stored \cup {[dev |-> m.dev, ts |-> m.ts, at |-> m.at]}
        /\ Goto(h, "ok")
        /\ UNCHANGED <<points, newest, disordered, statusVars>>

\* mutant: every message that was handled counts as a success.
MarkAlways(h) ==
    LET m == handling[h]
    IN  /\ m.pc \in {"ok", "error"}
        /\ MarkMqttIngestSuccess(m.at)
        /\ handling' = [handling EXCEPT ![h] = Idle]
        /\ UNCHANGED <<now, points, snapshot, newest, disordered, stored>>

\* The outcome is recorded; a failure to record it is swallowed (safeMark...).
MarkOutcome(h) ==
    LET m == handling[h]
    IN  /\ \/ m.pc = "ok" /\ MarkMqttIngestSuccess(m.at)
           \/ m.pc = "error" /\ MarkMqttIngestError(m.at)
           \/ m.pc \in {"ok", "error"} /\ UNCHANGED status
        /\ handling' = [handling EXCEPT ![h] = Idle]
        /\ UNCHANGED <<now, points, snapshot, newest, disordered, stored>>

\* A statement throws; the error is marked with the time it is caught.
Throw(h) ==
    /\ handling[h].pc \in {"find", "insert", "upsert"}
    /\ handling' = [handling EXCEPT ![h].pc = "error", ![h].at = now]
    /\ UNCHANGED <<points, snapshot, newest, disordered, stored, statusVars>>

\* The worker dies; another one takes over the lease and the topic.
CrashWorker ==
    /\ handling' = [h \in Handlers |-> Idle]
    /\ UNCHANGED <<points, snapshot, newest, disordered, stored, statusVars>>

IngestNext ==
    \/ \E h \in Handlers :
         \/ \E d \in Devices, ts \in Ts : Deliver(h, d, ts)
         \/ Find(h)
         \/ InsertTelemetryBatch(h)
         \/ UpsertDeviceSnapshot(h)
         \/ MarkOutcome(h)
         \/ Throw(h)
    \/ CrashWorker
    \/ Tick /\ UNCHANGED ingestVars

IngestSpec ==
    StatusInit /\ IngestInit /\ [][IngestNext]_<<statusVars, ingestVars>>

-----------------------------------------------------------------------------

\* Whatever stops a handler half way, the time a device was last seen always has
\* its readings in telemetry_points: storeTelemetry inserts them first.
SnapshotHasPoints ==
    \A d \in Devices : snapshot[d] # None => <<d, snapshot[d]>> \in points

\* last_seen_at falls behind a message that was stored only if messages of that
\* device came late or were handled at the same time: upsertDeviceSnapshot does
\* not compare, so order is all that keeps the snapshot the newest reading.
OnlyDisorderSetsBack ==
    \A s \in stored : s.dev \notin disordered => snapshot[s.dev] >= s.ts

\* /health-plus calls the ingest healthy only when a message that came within
\* the window was stored to the end, whatever the order the marks are written in.
IngestHealthIsEarned ==
    MqttHealthy => \E s \in stored : now - s.at <= MqttWindow
=============================================================================
