------------------------------ MODULE MCEventBus ------------------------------
(* Two handlers, a page with the machines and one with the jobs. *)
EXTENDS EventBus, TLC

CONSTANTS machines, dashboard, workers

MCFragment == [p \in Pages |-> IF p = workers THEN "jobs" ELSE IF p = machines THEN "table" ELSE "panel"]
=============================================================================
