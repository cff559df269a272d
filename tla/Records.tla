------------------------------ MODULE Records ------------------------------
(***************************************************************************)
(* What people keep in the system by hand: work orders with their tasks,   *)
(* the files attached to them and the documents of sites and devices, and  *)
(* a user's second factor.  The three meet nowhere but in the database and *)
(* keep different tables, so each is explored beside the others at rest:   *)
(* `part` says which one moves.                                            *)
(***************************************************************************)
EXTENDS WorkOrders, StoredFiles, SecondFactor

VARIABLE part

vars == <<part, orderVars, fileVars, factorVars>>

TypeOK ==
    /\ part \in {"orders", "files", "factor"}
    /\ WorkOrdersTypeOK
    /\ StoredFilesTypeOK
    /\ SecondFactorTypeOK

Init ==
    /\ part \in {"orders", "files", "factor"}
    /\ WorkOrdersInit
    /\ StoredFilesInit
    /\ SecondFactorInit
    /\ part # "orders" => order = None

OrdersMove ==
    /\ part = "orders"
    /\ WorkOrdersNext
    /\ UNCHANGED <<part, fileVars, factorVars>>

FilesMove ==
    /\ part = "files"
    /\ StoredFilesNext
    /\ UNCHANGED <<part, orderVars, factorVars>>

FactorMoves ==
    /\ part = "factor"
    /\ SecondFactorNext
    /\ UNCHANGED <<part, orderVars, fileVars>>

Next == OrdersMove \/ FilesMove \/ FactorMoves

Spec == Init /\ [][Next]_vars
=============================================================================
