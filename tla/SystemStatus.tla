--------------------------- MODULE SystemStatus ---------------------------
(***************************************************************************)
(* The row of `system_status` that the workers and the API server write,   *)
(* and what /health-plus concludes from it about the two integrations      *)
(* that depend on an outside party (backend/src/services/statusService.ts, *)
(* backend/src/services/healthService.ts).  Both are taken to be           *)
(* configured and enabled, and the row to be readable.                     *)
(***************************************************************************)
EXTENDS Naturals

CONSTANTS
    MqttWindow,     \* MQTT_INGEST_STALE_MS and MQTT_ERROR_WINDOW_MS, in ticks
    HistoryWindow,  \* HEAT_PUMP_HISTORY_STALE_MS, in ticks
    MaxNow          \* bound: the clock stops here

ASSUME StatusAssumption ==
    /\ MqttWindow \in Nat
    /\ HistoryWindow \in Nat
    /\ MaxNow \in Nat \ {0}

VARIABLES
    now,            \* the clock of the backend
    status          \* the columns of the row with key 'global'

statusVars == <<now, status>>

Never == 0          \* null in a timestamp column
Clock == 1..MaxNow
Stamp == Clock \cup {Never}

StatusColumns == {"ingestAt", "ingestErrorAt", "historyAt", "historyErrorAt"}

StatusTypeOK ==
    /\ now \in Clock
    /\ status \in [StatusColumns -> Stamp]

StatusInit ==
    /\ now = 1
    /\ status = [c \in StatusColumns |-> Never]

Tick ==
    /\ now < MaxNow
    /\ now' = now + 1
    /\ UNCHANGED status

(***************************************************************************)
(* The four writers of the columns (updateStatusPatch).                    *)
(***************************************************************************)
MarkMqttIngestSuccess(at) == status' = [status EXCEPT !["ingestAt"] = at]

MarkMqttIngestError(at) == status' = [status EXCEPT !["ingestErrorAt"] = at]

MarkHeatPumpHistorySuccess(at) ==
    status' = [status EXCEPT !["historyAt"] = at, !["historyErrorAt"] = Never]

MarkHeatPumpHistoryError(at) == status' = [status EXCEPT !["historyErrorAt"] = at]

(***************************************************************************)
(* The verdicts of /health-plus.                                           *)
(***************************************************************************)
IsStale(at, window) == at = Never \/ now - at > window
IsRecent(at, window) == at # Never /\ now - at <= window

MqttHealthy ==
    LET ingestAt == status["ingestAt"]
        errorAt == status["ingestErrorAt"]
    IN  /\ ~IsStale(ingestAt, MqttWindow)
        /\ ~(IsRecent(errorAt, MqttWindow) /\ errorAt >= ingestAt)

HeatPumpHealthy ==
    LET successAt == status["historyAt"]
        errorAt == status["historyErrorAt"]
    IN  /\ ~IsStale(successAt, HistoryWindow)
        /\ IsRecent(errorAt, HistoryWindow) => successAt >= errorAt
=============================================================================
