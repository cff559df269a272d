--------------------------- MODULE MCAlertsWorker ---------------------------
(* AlertsWorker on small instances *)
EXTENDS AlertsWorker, TLC

\* ids are only compared for equality
Symmetry == Permutations(Alert) \cup Permutations(Worker)

\* One worker meets a rule of any kind.  A second one, beside it or after its crash, comes
\* in only where the offline check is all there is to do.
Alone ==
    ~overlap /\ \E w \in Worker : \A v \in Worker \ {w} : wk[v] = Stopped /\ steady[v] = {}
OfflineOnly ==
    /\ \A r \in Rule : rules[r] = [kind |-> "other", grace |-> "lost", scope |-> {},
                                   enabled |-> FALSE]
    /\ \A d \in Device : temp[d] = "none"

\* The grace of a rule is read of those of one kind only: the others need not differ in it.
OneGrace == \A r \in Rule : rules[r].kind # "offline_window" => rules[r].grace = "lost"

Explored == OneGrace /\ (Alone \/ OfflineOnly)
=============================================================================
