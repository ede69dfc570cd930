----------------------------- MODULE WorkerPool -------------------------------
(***************************************************************************)
(* _BaseAsyncManager of _jobs.py: a pool of asyncio workers over a queue of *)
(* keys, with one job per key.  The event loop runs one coroutine at a time *)
(* and none of its critical sections awaits anything but the lock, so one   *)
(* action is what a coroutine does between two awaits.  The body of a job   *)
(* (_run_one) is the manager's: here it ends with any verdict, or raises.   *)
(***************************************************************************)
EXTENDS Naturals, Sequences

CONSTANTS
  Keys,      \* what identifies a job: a release tag, a backup id
  Workers,   \* max_parallel workers
  NoKey,     \* a worker without a job
  MaxQueue   \* bound on the length of the queue

ASSUME WorkerPoolAssumption ==
  /\ NoKey \notin Keys
  /\ MaxQueue \in Nat

VARIABLES
  status,    \* status[k]: _states[k].status; "absent" when k is not in _states
  asked,     \* asked[k]: _states[k]._cancel is set
  queue,     \* _queue; a cancelled job leaves its key in it
  worker,    \* worker[w]: the key of the job whose body w awaits
  gone,      \* the workers that have ended
  stopping   \* _stopping

pool == <<status, asked, queue, worker, gone, stopping>>

Lifecycle == INSTANCE JobLifecycle

Pending == {"queued", "running"}
Verdicts == {"completed", "cancelled", "failed"}
Status == {"absent"} \cup Pending \cup Verdicts

TypeOK ==
  /\ status \in [Keys -> Status]
  /\ asked \in [Keys -> BOOLEAN]
  /\ queue \in Seq(Keys)
  /\ worker \in [Workers -> Keys \cup {NoKey}]
  /\ gone \subseteq Workers
  /\ stopping \in BOOLEAN

Queued(k) == \E i \in 1..Len(queue) : queue[i] = k

\* Mutant: a running job does not stop a second one of its key.
DedupQueuedOnly == {"queued", "completed"}

\* ENQUEUE_DEDUP_STATES: these jobs are returned, not queued again.
Deduplicated == {"queued", "running", "completed"}

\* Mutant: only a key the manager has never seen is put into the queue.
QueueNewOnly(k) == IF status[k] = "absent" THEN Append(queue, k) ELSE queue

QueueWith(k) == Append(queue, k)

\* Mutant: a body that raised leaves its job as it was.
NoSafetyNet(verdict) == verdict

\* Mutant: the except clause writes a status no client knows.
SafetyNetUnknown(verdict) == IF verdict = "running" THEN "error" ELSE verdict

\* Mutant: the except clause does not look at the verdict there is.
SafetyNetAlways(verdict) == "failed"

\* The worker's except clause: a job that is still running becomes failed, a
\* job that already has its verdict keeps it.
SafetyNet(verdict) == IF verdict = "running" THEN "failed" ELSE verdict

(***************************************************************************)
(* The actions.                                                             *)
(***************************************************************************)
Enqueue(k) ==
  /\ ~stopping
  /\ status[k] \notin Deduplicated
  /\ Len(queue) < MaxQueue
  /\ status' = [status EXCEPT ![k] = "queued"]
  /\ asked' = [asked EXCEPT ![k] = FALSE]
  /\ queue' = QueueWith(k)
  /\ UNCHANGED <<worker, gone, stopping>>

Cancel(k) ==
  /\ ~stopping
  /\ status[k] \in Pending
  /\ asked' = [asked EXCEPT ![k] = TRUE]
  /\ status' = [status EXCEPT ![k] = IF @ = "queued" THEN "cancelled" ELSE @]
  /\ UNCHANGED <<queue, worker, gone, stopping>>

Waiting(w) == worker[w] = NoKey /\ w \notin gone /\ ~stopping /\ queue # <<>>

Take(w) ==
  /\ Waiting(w)
  /\ status[Head(queue)] = "queued"
  /\ status' = [status EXCEPT ![Head(queue)] = "running"]
  /\ queue' = Tail(queue)
  /\ worker' = [worker EXCEPT ![w] = Head(queue)]
  /\ UNCHANGED <<asked, gone, stopping>>

\* The key of a job that was cancelled, or that another entry of the same key
\* has started already.
SkipStale(w) ==
  /\ Waiting(w)
  /\ status[Head(queue)] # "queued"
  /\ queue' = Tail(queue)
  /\ UNCHANGED <<status, asked, worker, gone, stopping>>

\* The body writes its verdict ("running": it writes none) and returns, or
\* raises at any point.
EndJob(w, verdict, raised) ==
  /\ worker[w] # NoKey
  /\ ~stopping
  /\ verdict = "cancelled" => asked[worker[w]]
  /\ verdict = "running" => raised
  /\ status' = [status EXCEPT ![worker[w]] =
                  IF raised THEN SafetyNet(verdict) ELSE verdict]
  /\ worker' = [worker EXCEPT ![w] = NoKey]
  /\ UNCHANGED <<asked, queue, gone, stopping>>

\* stop() up to its first await: queued jobs are cancelled, running jobs are
\* asked to stop, every worker task is cancelled.
Stop ==
  /\ ~stopping
  /\ stopping' = TRUE
  /\ asked' = [k \in Keys |-> asked[k] \/ status[k] \in Pending]
  /\ status' = [k \in Keys |->
                  IF status[k] = "queued" THEN "cancelled" ELSE status[k]]
  /\ UNCHANGED <<queue, worker, gone>>

\* CancelledError reaches the worker at its await and ends it; the job whose
\* body it awaited stays "running".
Leave(w) ==
  /\ stopping
  /\ w \notin gone
  /\ gone' = gone \cup {w}
  /\ worker' = [worker EXCEPT ![w] = NoKey]
  /\ UNCHANGED <<status, asked, queue, stopping>>

\* A new process: an empty queue, new workers, and what start() remembers.
Start(remembered) ==
  /\ status' = remembered
  /\ asked' = [k \in Keys |-> FALSE]
  /\ queue' = <<>>
  /\ worker' = [w \in Workers |-> NoKey]
  /\ gone' = {}
  /\ stopping' = FALSE

(***************************************************************************)
(* The specification.                                                       *)
(***************************************************************************)
Init ==
  /\ status \in Lifecycle!Remembered
  /\ asked = [k \in Keys |-> FALSE]
  /\ queue = <<>>
  /\ worker = [w \in Workers |-> NoKey]
  /\ gone = {}
  /\ stopping = FALSE

Ended(w) ==
  \E verdict \in Verdicts \cup {"running"}, raised \in BOOLEAN :
    EndJob(w, verdict, raised)

Next ==
  \/ \E k \in Keys : Enqueue(k) \/ Cancel(k)
  \/ \E w \in Workers : Take(w) \/ SkipStale(w) \/ Ended(w) \/ Leave(w)
  \/ Stop
  \/ \E remembered \in Lifecycle!Remembered : Start(remembered)

Spec == Init /\ [][Next]_pool

\* The event loop runs every worker, and every body ends (its reads time out).
Fairness ==
  \A w \in Workers : WF_pool(Take(w) \/ SkipStale(w)) /\ WF_pool(Ended(w))

FairSpec == Spec /\ Fairness

(***************************************************************************)
(* Properties.                                                              *)
(***************************************************************************)
\* No job is lost: however cancellations, retries and stale entries mix, the
\* key of a queued job is still in the queue of a running server.
QueuedIsInQueue ==
  ~stopping => \A k \in Keys : status[k] = "queued" => Queued(k)

\* A key never has two bodies at work, though the queue may hold it twice, and
\* no job is left "running" without a worker ("the job would stay in running
\* forever", _worker).
RunningHasOneWorker ==
  ~stopping =>
    \A k \in Keys :
      /\ status[k] = "running" <=> \E w \in Workers : worker[w] = k
      /\ \A v, w \in Workers : worker[v] = k /\ worker[w] = k => v = w

\* The pool keeps the promises of JobLifecycle: verdicts are final, cancelled
\* means asked for, a completed key is not run again, and (with the fairness
\* of the event loop) every queued job begins and ends, or is withdrawn.
LifecycleKept == Lifecycle!FairSpec
=============================================================================
