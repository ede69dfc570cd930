----------------------------- MODULE JobLifecycle -----------------------------
(***************************************************************************)
(* What a worker manager of bty-web promises the clients of its jobs, with  *)
(* no queue and no workers: a key has one job at a time, a job ends once,   *)
(* it ends as cancelled only if somebody asked for it, a completed key is   *)
(* not run again, and a server that stops starts nothing more.              *)
(***************************************************************************)
CONSTANT Keys

VARIABLES
  status,    \* status[k]: the job of key k; "absent" when there is none
  asked,     \* asked[k]: its cancellation has been asked for
  stopping   \* the server is shutting down

job == <<status, asked, stopping>>

Pending == {"queued", "running"}
Verdicts == {"completed", "cancelled", "failed"}
Status == {"absent"} \cup Pending \cup Verdicts

\* What is known of the jobs of an earlier process.
Remembered == [Keys -> {"absent", "completed", "failed"}]

Init ==
  /\ status \in Remembered
  /\ asked = [k \in Keys |-> FALSE]
  /\ stopping = FALSE

Submit(k) ==
  /\ ~stopping
  /\ status[k] \in {"absent", "cancelled", "failed"}
  /\ status' = [status EXCEPT ![k] = "queued"]
  /\ asked' = [asked EXCEPT ![k] = FALSE]
  /\ UNCHANGED stopping

Begin(k) ==
  /\ ~stopping
  /\ status[k] = "queued"
  /\ status' = [status EXCEPT ![k] = "running"]
  /\ UNCHANGED <<asked, stopping>>

End(k, verdict) ==
  /\ ~stopping
  /\ status[k] = "running"
  /\ verdict = "cancelled" => asked[k]
  /\ status' = [status EXCEPT ![k] = verdict]
  /\ UNCHANGED <<asked, stopping>>

\* A queued job is cancelled at once, a running one is asked to stop.
Withdraw(k) ==
  /\ status[k] \in Pending
  /\ status' = [status EXCEPT ![k] = IF @ = "queued" THEN "cancelled" ELSE @]
  /\ asked' = [asked EXCEPT ![k] = TRUE]
  /\ UNCHANGED stopping

Drain ==
  /\ ~stopping
  /\ stopping' = TRUE
  /\ status' = [k \in Keys |->
                  IF status[k] = "queued" THEN "cancelled" ELSE status[k]]
  /\ asked' = [k \in Keys |-> asked[k] \/ status[k] \in Pending]

\* Another process takes over.
Resume ==
  /\ status' \in Remembered
  /\ asked' = [k \in Keys |-> FALSE]
  /\ stopping' = FALSE

Next ==
  \/ \E k \in Keys :
       \/ Submit(k) \/ Begin(k) \/ Withdraw(k)
       \/ \E verdict \in Verdicts : End(k, verdict)
  \/ Drain
  \/ Resume

\* A queued job is begun and a running job is ended.
Progress ==
  \A k \in Keys :
    /\ WF_job(Begin(k))
    /\ WF_job(\E verdict \in Verdicts : End(k, verdict))

Spec == Init /\ [][Next]_job
FairSpec == Spec /\ Progress
=============================================================================
