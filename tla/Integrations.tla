---------------------------- MODULE Integrations ----------------------------
(***************************************************************************)
(* The three parts of the backend that depend on outside parties: the MQTT *)
(* worker's connection, its message handlers, and the API server's history *)
(* client.  They share no variable but the clock and a row of which each   *)
(* writes its own columns, so each is explored beside the others at rest:  *)
(* `part` says which one moves.                                            *)
(***************************************************************************)
EXTENDS TelemetryIngest, MqttConnection, HistoryClient

VARIABLE part

vars == <<part, statusVars, ingestVars, connectionVars, historyVars>>

TypeOK ==
    /\ part \in {"ingest", "connection", "history"}
    /\ StatusTypeOK
    /\ IngestTypeOK
    /\ ConnectionTypeOK
    /\ HistoryTypeOK

Init ==
    /\ part \in {"ingest", "connection", "history"}
    /\ StatusInit
    /\ IngestInit
    /\ ConnectionInit
    /\ HistoryInit

IngestMoves ==
    /\ part = "ingest"
    /\ IngestNext
    /\ UNCHANGED <<part, connectionVars, historyVars>>

ConnectionMoves ==
    /\ part = "connection"
    /\ ConnectionNext
    /\ UNCHANGED <<part, ingestVars, historyVars>>

HistoryMoves ==
    /\ part = "history"
    /\ HistoryNext
    /\ UNCHANGED <<part, ingestVars, connectionVars>>

Next == IngestMoves \/ ConnectionMoves \/ HistoryMoves

\* The fairness of MqttConnection, where it is what moves.
Fairness ==
    /\ WF_vars(ConnectionMoves /\ \E c \in Clients : InitConnection(c))
    /\ \A c \in Clients : WF_vars(ConnectionMoves /\ (OnConnect(c) \/ OnClose(c)))

Spec == Init /\ [][Next]_vars /\ Fairness
=============================================================================
