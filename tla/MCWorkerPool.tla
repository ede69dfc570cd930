----------------------------- MODULE MCWorkerPool -----------------------------
(***************************************************************************)
(* Instances of WorkerPool for TLC; the .cfg names keys and workers.        *)
(***************************************************************************)
EXTENDS WorkerPool
=============================================================================
