------------------------------- MODULE MCDeploy -------------------------------
(* One host, two versions, with every fault. *)
EXTENDS Deploy
=============================================================================
