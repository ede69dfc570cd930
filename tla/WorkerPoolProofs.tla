--------------------------- MODULE WorkerPoolProofs ---------------------------
(***************************************************************************)
(* Proofs about WorkerPool, for any keys, any number of workers and any     *)
(* length of the queue.                                                     *)
(***************************************************************************)
EXTENDS WorkerPool, TLAPS

(***************************************************************************)
(* Sequences.                                                               *)
(***************************************************************************)
\* What is in a queue stays in it when a key is put at its end.
LEMMA PutKeeps ==
  ASSUME NEW q \in Seq(Keys), NEW k \in Keys
  PROVE  /\ Append(q, k) \in Seq(Keys)
         /\ \E i \in 1..Len(Append(q, k)) : Append(q, k)[i] = k
         /\ \A j \in Keys : (\E i \in 1..Len(q) : q[i] = j)
              => \E i \in 1..Len(Append(q, k)) : Append(q, k)[i] = j
<1>1. Append(q, k) \in Seq(Keys) /\ Len(Append(q, k)) = Len(q) + 1 /\ Len(q) \in Nat
  OBVIOUS
<1>2. Append(q, k)[Len(q) + 1] = k /\ Len(q) + 1 \in 1..Len(Append(q, k))
  BY <1>1
<1>3. ASSUME NEW j \in Keys, NEW i \in 1..Len(q), q[i] = j
      PROVE  \E h \in 1..Len(Append(q, k)) : Append(q, k)[h] = j
  <2>1. Append(q, k)[i] = j /\ i \in 1..Len(Append(q, k))
    BY <1>1, <1>3
  <2> QED BY <2>1
<1> QED BY <1>1, <1>2, <1>3

\* Taking the head of a queue leaves every other key in it.
LEMMA TakeKeeps ==
  ASSUME NEW q \in Seq(Keys), q # <<>>
  PROVE  /\ Head(q) \in Keys
         /\ Tail(q) \in Seq(Keys)
         /\ \A j \in Keys \ {Head(q)} : (\E i \in 1..Len(q) : q[i] = j)
              => \E i \in 1..Len(Tail(q)) : Tail(q)[i] = j
<1>1. Head(q) \in Keys /\ Head(q) = q[1] /\ Tail(q) \in Seq(Keys)
      /\ Len(Tail(q)) = Len(q) - 1 /\ Len(q) \in Nat
  OBVIOUS
<1>2. ASSUME NEW j \in Keys \ {Head(q)}, NEW i \in 1..Len(q), q[i] = j
      PROVE  \E h \in 1..Len(Tail(q)) : Tail(q)[h] = j
  <2>1. i # 1
    BY <1>1, <1>2
  <2>2. i - 1 \in 1..Len(Tail(q)) /\ Tail(q)[i - 1] = q[i]
    BY <1>1, <2>1
  <2> QED BY <1>2, <2>2
<1> QED BY <1>1, <1>2

(***************************************************************************)
(* Types.                                                                   *)
(***************************************************************************)
\* A process starts with statuses of jobs.
LEMMA RememberedTyped ==
  ASSUME NEW remembered \in Lifecycle!Remembered
  PROVE  remembered \in [Keys -> Status]
<1>1. {"absent", "completed", "failed"} \subseteq Status
  BY DEF Status, Verdicts
<1> QED BY <1>1 DEF Lifecycle!Remembered

\* The queue of a new process is a sequence of keys.
LEMMA EmptyQueue == <<>> \in Seq(Keys)
OBVIOUS

\* The types are kept by every step.
LEMMA TypeStep ==
  ASSUME TypeOK, [Next]_pool
  PROVE  TypeOK'
<1> USE WorkerPoolAssumption DEF TypeOK, Status, Pending, Verdicts
<1>1. ASSUME NEW k \in Keys, Enqueue(k) PROVE TypeOK'
  BY <1>1, PutKeeps DEF Enqueue, QueueWith
<1>2. ASSUME NEW k \in Keys, Cancel(k) PROVE TypeOK'
  BY <1>2 DEF Cancel
<1>3. ASSUME NEW w \in Workers, Take(w) PROVE TypeOK'
  BY <1>3, TakeKeeps DEF Take, Waiting
<1>4. ASSUME NEW w \in Workers, SkipStale(w) PROVE TypeOK'
  BY <1>4, TakeKeeps DEF SkipStale, Waiting
<1>5. ASSUME NEW w \in Workers, NEW verdict \in Verdicts \cup {"running"},
             NEW raised \in BOOLEAN, EndJob(w, verdict, raised)
      PROVE  TypeOK'
  BY <1>5 DEF EndJob, SafetyNet
<1>6. ASSUME NEW w \in Workers, Leave(w) PROVE TypeOK'
  BY <1>6 DEF Leave
<1>7. CASE Stop
  BY <1>7 DEF Stop
<1>8. ASSUME NEW remembered \in Lifecycle!Remembered, Start(remembered) PROVE TypeOK'
  BY <1>8, RememberedTyped, EmptyQueue DEF Start
<1>9. CASE UNCHANGED pool
  BY <1>9 DEF pool
<1> QED BY <1>1, <1>2, <1>3, <1>4, <1>5, <1>6, <1>7, <1>8, <1>9 DEF Next, Ended

\* Type correctness of the pool.
THEOREM TypeCorrect == Spec => []TypeOK
<1>1. Init => TypeOK
  BY RememberedTyped, EmptyQueue DEF Init, TypeOK
<1> QED BY <1>1, TypeStep, PTL DEF Spec

(***************************************************************************)
(* One body for a running job, none for any other.                          *)
(***************************************************************************)
\* Every step keeps the bodies and the running jobs in correspondence.
LEMMA OneWorkerStep ==
  ASSUME TypeOK, RunningHasOneWorker, [Next]_pool
  PROVE  RunningHasOneWorker'
<1> USE WorkerPoolAssumption DEF TypeOK, RunningHasOneWorker, Pending, Verdicts, Status
<1>1. ASSUME NEW k \in Keys, Enqueue(k) PROVE RunningHasOneWorker'
  BY <1>1 DEF Enqueue, Deduplicated
<1>2. ASSUME NEW k \in Keys, Cancel(k) PROVE RunningHasOneWorker'
  BY <1>2 DEF Cancel
<1>3. ASSUME NEW w \in Workers, Take(w) PROVE RunningHasOneWorker'
  <2>1. Head(queue) \in Keys /\ ~stopping /\ worker[w] = NoKey
    BY <1>3, TakeKeeps DEF Take, Waiting
  <2>2. \A v \in Workers : worker[v] # Head(queue)
    BY <1>3, <2>1 DEF Take
  <2> QED BY <1>3, <2>1, <2>2 DEF Take
<1>4. ASSUME NEW w \in Workers, SkipStale(w) PROVE RunningHasOneWorker'
  BY <1>4 DEF SkipStale
<1>5. ASSUME NEW w \in Workers, NEW verdict \in Verdicts \cup {"running"},
             NEW raised \in BOOLEAN, EndJob(w, verdict, raised)
      PROVE  RunningHasOneWorker'
  <2>1. worker[w] \in Keys /\ ~stopping
    BY <1>5 DEF EndJob
  <2>2. status'[worker[w]] # "running"
    BY <1>5, <2>1 DEF EndJob, SafetyNet
  <2>3. \A k \in Keys \ {worker[w]} : status'[k] = status[k]
    BY <1>5 DEF EndJob
  <2>4. worker' = [worker EXCEPT ![w] = NoKey]
    BY <1>5 DEF EndJob
  <2> QED BY <2>1, <2>2, <2>3, <2>4
<1>6. ASSUME NEW w \in Workers, Leave(w) PROVE RunningHasOneWorker'
  BY <1>6 DEF Leave
<1>7. CASE Stop
  BY <1>7 DEF Stop
<1>8. ASSUME NEW remembered \in Lifecycle!Remembered, Start(remembered)
      PROVE  RunningHasOneWorker'
  BY <1>8 DEF Start, Lifecycle!Remembered
<1>9. CASE UNCHANGED pool
  BY <1>9 DEF pool
<1> QED BY <1>1, <1>2, <1>3, <1>4, <1>5, <1>6, <1>7, <1>8, <1>9 DEF Next, Ended

\* No key has two bodies at work and no running job has none, with any number
\* of workers and of stale queue entries (_worker, ENQUEUE_DEDUP_STATES).
THEOREM RunningHasOneWorkerHolds == Spec => []RunningHasOneWorker
<1>1. Init => RunningHasOneWorker
  BY WorkerPoolAssumption DEF Init, RunningHasOneWorker, Lifecycle!Remembered
<1> QED BY <1>1, TypeCorrect, OneWorkerStep, PTL DEF Spec

(***************************************************************************)
(* No queued job is lost.                                                   *)
(***************************************************************************)
\* Every step keeps the key of a queued job in the queue.
LEMMA QueuedStep ==
  ASSUME TypeOK, QueuedIsInQueue, [Next]_pool
  PROVE  QueuedIsInQueue'
<1> USE DEF TypeOK, QueuedIsInQueue, Queued
<1>1. ASSUME NEW k \in Keys, Enqueue(k) PROVE QueuedIsInQueue'
  <2> SUFFICES ASSUME ~stopping', NEW j \in Keys, status'[j] = "queued"
               PROVE  \E i \in 1..Len(queue') : queue'[i] = j
    OBVIOUS
  <2>1. queue' = Append(queue, k) /\ ~stopping
    BY <1>1 DEF Enqueue, QueueWith
  <2>2. CASE j = k
    BY <2>1, <2>2, PutKeeps
  <2>3. CASE j # k
    <3>1. status[j] = "queued"
      BY <1>1, <2>3 DEF Enqueue
    <3>2. \E i \in 1..Len(queue) : queue[i] = j
      BY <2>1, <3>1
    <3> QED BY <2>1, <3>2, PutKeeps
  <2> QED BY <2>2, <2>3
<1>2. ASSUME NEW k \in Keys, Cancel(k) PROVE QueuedIsInQueue'
  BY <1>2 DEF Cancel
<1>3. ASSUME NEW w \in Workers, Take(w) PROVE QueuedIsInQueue'
  BY <1>3, TakeKeeps DEF Take, Waiting
<1>4. ASSUME NEW w \in Workers, SkipStale(w) PROVE QueuedIsInQueue'
  BY <1>4, TakeKeeps DEF SkipStale, Waiting
<1>5. ASSUME NEW w \in Workers, NEW verdict \in Verdicts \cup {"running"},
             NEW raised \in BOOLEAN, EndJob(w, verdict, raised)
      PROVE  QueuedIsInQueue'
  <2>1. \A k \in Keys : status'[k] = "queued" => status[k] = "queued"
    BY <1>5 DEF EndJob, SafetyNet, Verdicts
  <2> QED BY <1>5, <2>1 DEF EndJob
<1>6. ASSUME NEW w \in Workers, Leave(w) PROVE QueuedIsInQueue'
  BY <1>6 DEF Leave
<1>7. CASE Stop
  BY <1>7 DEF Stop
<1>8. ASSUME NEW remembered \in Lifecycle!Remembered, Start(remembered)
      PROVE  QueuedIsInQueue'
  BY <1>8 DEF Start, Lifecycle!Remembered
<1>9. CASE UNCHANGED pool
  BY <1>9 DEF pool
<1> QED BY <1>1, <1>2, <1>3, <1>4, <1>5, <1>6, <1>7, <1>8, <1>9 DEF Next, Ended

\* However cancellations, retries and stale entries mix, a queued job of a
\* running server has its key in the queue (cancel leaves it there, _worker
\* skips it).
THEOREM QueuedIsInQueueHolds == Spec => []QueuedIsInQueue
<1>1. Init => QueuedIsInQueue
  BY DEF Init, QueuedIsInQueue, Lifecycle!Remembered
<1> QED BY <1>1, TypeCorrect, QueuedStep, PTL DEF Spec

(***************************************************************************)
(* The pool implements JobLifecycle.                                        *)
(***************************************************************************)
\* A step of the pool is a step of the life of one job, a drain, a new process,
\* or invisible.
LEMMA LifecycleStep ==
  ASSUME TypeOK, RunningHasOneWorker, [Next]_pool
  PROVE  [Lifecycle!Next]_Lifecycle!job
<1> USE DEF TypeOK, Lifecycle!job
<1>1. ASSUME NEW k \in Keys, Enqueue(k) PROVE Lifecycle!Submit(k)
  BY <1>1 DEF Enqueue, Deduplicated, Lifecycle!Submit, Status, Pending, Verdicts
<1>2. ASSUME NEW k \in Keys, Cancel(k) PROVE Lifecycle!Withdraw(k)
  BY <1>2 DEF Cancel, Lifecycle!Withdraw, Pending, Lifecycle!Pending
<1>3. ASSUME NEW w \in Workers, Take(w)
      PROVE  Head(queue) \in Keys /\ Lifecycle!Begin(Head(queue))
  BY <1>3, TakeKeeps DEF Take, Waiting, Lifecycle!Begin
<1>4. ASSUME NEW w \in Workers, SkipStale(w) PROVE UNCHANGED Lifecycle!job
  BY <1>4 DEF SkipStale
<1>5. ASSUME NEW w \in Workers, NEW verdict \in Verdicts \cup {"running"},
             NEW raised \in BOOLEAN, EndJob(w, verdict, raised)
      PROVE  \E k \in Keys, v \in Lifecycle!Verdicts : Lifecycle!End(k, v)
  <2> DEFINE v == IF raised THEN SafetyNet(verdict) ELSE verdict
  <2>1. worker[w] \in Keys /\ ~stopping
    BY <1>5 DEF EndJob
  <2>2. status[worker[w]] = "running"
    BY <2>1 DEF RunningHasOneWorker
  <2>3. v \in Lifecycle!Verdicts
    BY <1>5 DEF EndJob, SafetyNet, Verdicts, Lifecycle!Verdicts
  <2>4. v = "cancelled" => asked[worker[w]]
    BY <1>5 DEF EndJob, SafetyNet
  <2>5. Lifecycle!End(worker[w], v)
    BY <1>5, <2>1, <2>2, <2>4 DEF EndJob, Lifecycle!End
  <2> QED BY <2>1, <2>3, <2>5
<1>6. ASSUME NEW w \in Workers, Leave(w) PROVE UNCHANGED Lifecycle!job
  BY <1>6 DEF Leave
<1>7. CASE Stop
  BY <1>7 DEF Stop, Lifecycle!Drain, Lifecycle!Next, Pending, Lifecycle!Pending
<1>8. ASSUME NEW remembered \in Lifecycle!Remembered, Start(remembered)
      PROVE  Lifecycle!Resume
  BY <1>8 DEF Start, Lifecycle!Resume
<1>9. CASE UNCHANGED pool
  BY <1>9 DEF pool
<1>10. ASSUME NEW w \in Workers, Ended(w) PROVE Lifecycle!Next
  BY <1>5, <1>10 DEF Ended, Lifecycle!Next
<1> QED BY <1>1, <1>2, <1>3, <1>4, <1>6, <1>7, <1>8, <1>9, <1>10
        DEF Next, Lifecycle!Next

\* What clients are promised of a job holds of the pool: verdicts are final,
\* "cancelled" means asked for, and a draining server starts nothing.
THEOREM PoolImplementsLifecycle == Spec => Lifecycle!Spec
<1>1. Init => Lifecycle!Init
  BY DEF Init, Lifecycle!Init
<1> QED BY <1>1, TypeCorrect, RunningHasOneWorkerHolds, LifecycleStep, PTL
        DEF Spec, Lifecycle!Spec
=============================================================================
