---------------------------- MODULE MCWorkerLock ----------------------------
(* WorkerLock on small instances *)
EXTENDS WorkerLock
=============================================================================
