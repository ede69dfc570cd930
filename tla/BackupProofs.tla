----------------------------- MODULE BackupProofs -----------------------------
(***************************************************************************)
(* Proofs about Backup, for any ids, retention, faults and bounds.  What is *)
(* said of the bundles on disk is for one worker (DEFAULT_MAX_PARALLEL of   *)
(* the backups is 1).                                                       *)
(***************************************************************************)
EXTENDS Backup, WorkerPoolProofs, FiniteSetTheorems

(***************************************************************************)
(* Every step of the backups is a step of the pool, or invisible to it.     *)
(***************************************************************************)
\* The steps that leave the pool alone.
Aside ==
  \/ \E k \in Keys : DeleteBundle(k) \/ SetClockBack(k)
  \/ \E enabled \in BOOLEAN, keep \in 1..MaxKeep : SaveSchedule(enabled, keep)
  \/ \E w \in Workers :
       Work(w) \/ RecordBackup(w) \/ ExportFails(w) \/ EndAbandoned(w)
  \/ Elapse

\* What happens aside of the jobs leaves the pool as it is.
LEMMA AsideKeepsPool == Aside => UNCHANGED pool
BY DEF Aside, DeleteBundle, SetClockBack, SaveSchedule, Work, MakeDir, WriteBundle,
       ListVictims, PruneOne, EndPrune, RecordBackup, ExportFails, EndAbandoned, Elapse

\* A new process remembers no job.
LEMMA NothingRemembered == [k \in Keys |-> "absent"] \in Lifecycle!Remembered
BY DEF Lifecycle!Remembered

\* Every step of the backups is a step of the pool or leaves it alone.
LEMMA PoolStep ==
  ASSUME [BackupNext]_vars
  PROVE  [Next]_pool
<1>1. ASSUME NEW k \in Keys,
             (\E trigger \in {"manual", "scheduled"} : PostBackup(k, trigger)) \/ Tick(k)
      PROVE  Next
  BY <1>1 DEF PostBackup, Tick, EnqueueBackup, Next
<1>2. ASSUME NEW k \in Keys, CancelBackup(k) PROVE Next
  BY <1>2 DEF CancelBackup, Next
<1>3. ASSUME NEW w \in Workers, TakeBackup(w) \/ SkipBackup(w) \/ LeaveBackup(w) PROVE Next
  BY <1>3 DEF TakeBackup, SkipBackup, LeaveBackup, Next
<1>4. ASSUME NEW w \in Workers, FinishBackup(w) \/ FailBackup(w) \/ RecordFails(w) PROVE Next
  <2>1. \E verdict \in Verdicts \cup {"running"}, raised \in BOOLEAN :
          EndJob(w, verdict, raised)
    BY <1>4 DEF FinishBackup, FailBackup, RecordFails, Verdicts
  <2> QED BY <2>1 DEF Next, Ended
<1>5. CASE StopBackups
  BY <1>5 DEF StopBackups, Next
<1>6. CASE Restart \/ Kill
  BY <1>6, NothingRemembered DEF Restart, Kill, NewProcess, Next
<1>7. CASE Aside
  BY <1>7, AsideKeepsPool
<1>8. CASE UNCHANGED vars
  BY <1>8 DEF vars
<1> QED BY <1>1, <1>2, <1>3, <1>4, <1>5, <1>6, <1>7, <1>8 DEF BackupNext, Manage, Aside

(***************************************************************************)
(* Types.                                                                   *)
(***************************************************************************)
\* A body that begins, and one that is idle.
LEMMA BodyTyped ==
  /\ NoBody \in Body
  /\ \A k \in Keys : [NoBody EXCEPT !.pc = "mkdir", !.key = k] \in Body
  /\ \A r \in Body, pc \in InThread \cup Returned : [r EXCEPT !.pc = pc] \in Body
<1>1. 0 \in 0..MaxKeep
  BY BackupAssumption
<1> QED BY <1>1 DEF NoBody, Body, InThread, Returned

\* A fault is one of the environment, and the bounds stay bounds.
LEMMA BoundsTyped ==
  ASSUME BackupTypeOK
  PROVE  /\ \A kind : Fault(kind) => /\ faults' \subseteq Environment
                                     /\ edits' \in 0..MaxEdits /\ days' \in 0..MaxDays
         /\ Edit => edits' \in 0..MaxEdits /\ faults' \subseteq Environment /\ days' \in 0..MaxDays
BY BackupAssumption DEF BackupTypeOK, Fault, Edit

\* The steps of the bodies keep the types.
LEMMA BodyStepTyped ==
  ASSUME BackupTypeOK, NEW w \in Workers,
         Work(w) \/ ExportFails(w) \/ RecordBackup(w) \/ EndAbandoned(w)
  PROVE  BackupTypeOK'
<1> USE BackupAssumption
<1>0. TypeOK'
  BY AsideKeepsPool DEF Aside, BackupTypeOK, TypeOK, pool
<1>1. /\ body \in [Workers -> Body] /\ body[w] \in Body
      /\ bundle \in [Keys -> {"none", "partial", "whole"}]
      /\ schedule \in [enabled : BOOLEAN, due : BOOLEAN, keep : 1..MaxKeep]
  BY DEF BackupTypeOK
<1>2. ASSUME NEW r \in Body, body' = [body EXCEPT ![w] = r]
      PROVE  body' \in [Workers -> Body]
  BY <1>1, <1>2
<1>3. ASSUME NEW pc \in InThread \cup Returned, Goes(w, pc)
      PROVE  body' \in [Workers -> Body]
  <2>1. body' = [body EXCEPT ![w] = [body[w] EXCEPT !.pc = pc]]
    BY <1>1, <1>3 DEF Goes
  <2> QED BY <1>1, <1>2, <2>1, BodyTyped
<1>4. CASE MakeDir(w)
  <2>1. body' \in [Workers -> Body]
    BY <1>3, <1>4 DEF MakeDir, InThread
  <2> QED BY <1>0, <1>1, <1>4, <2>1 DEF MakeDir, BackupTypeOK, bounds
<1>5. CASE WriteBundle(w)
  <2>1. body' \in [Workers -> Body]
    BY <1>3, <1>5 DEF WriteBundle, Returned
  <2> QED BY <1>0, <1>1, <1>5, <2>1 DEF WriteBundle, BackupTypeOK, bounds
<1>6. CASE ExportFails(w)
  <2>1. body' \in [Workers -> Body]
    BY <1>3, <1>6 DEF ExportFails, Returned
  <2> QED BY <1>0, <1>1, <1>6, <2>1, BoundsTyped DEF ExportFails, BackupTypeOK
<1>7. CASE ListVictims(w)
  <2> DEFINE r == [body[w] EXCEPT !.pc = "prune", !.keep = schedule.keep,
                     !.victims = {k \in OnDisk : InExcess(k, schedule.keep)}]
  <2>1. r \in Body
    <3>1. {k \in OnDisk : InExcess(k, schedule.keep)} \in SUBSET Keys
      BY DEF OnDisk
    <3>2. schedule.keep \in 0..MaxKeep
      BY <1>1
    <3> QED BY <1>1, <3>1, <3>2 DEF Body, InThread
  <2>2. body' = [body EXCEPT ![w] = r]
    BY <1>1, <1>7 DEF ListVictims
  <2> HIDE DEF r
  <2>3. body' \in [Workers -> Body]
    BY <1>2, <2>1, <2>2
  <2> QED BY <1>0, <1>7, <2>3 DEF ListVictims, BackupTypeOK, disk, bounds
<1>8. CASE PruneOne(w)
  <2>1. PICK v : /\ body' = [body EXCEPT ![w].victims = @ \ {v}]
                 /\ \/ bundle' = [bundle EXCEPT ![v] = "none"] /\ UNCHANGED bounds
                    \/ Fault("remove") /\ UNCHANGED bundle
    BY <1>8 DEF PruneOne
  <2>2. body' = [body EXCEPT ![w] = [body[w] EXCEPT !.victims = body[w].victims \ {v}]]
    BY <1>1, <2>1
  <2>3. [body[w] EXCEPT !.victims = body[w].victims \ {v}] \in Body
    BY <1>1 DEF Body
  <2>4. body' \in [Workers -> Body]
    BY <1>2, <2>2, <2>3
  <2>5. bundle' \in [Keys -> {"none", "partial", "whole"}]
    BY <1>1, <2>1
  <2> QED BY <1>0, <1>8, <2>1, <2>4, <2>5, BoundsTyped DEF PruneOne, BackupTypeOK, bounds
<1>9. CASE EndPrune(w)
  <2>1. body' \in [Workers -> Body]
    BY <1>3, <1>9 DEF EndPrune, Returned
  <2> QED BY <1>0, <1>9, <2>1, BoundsTyped DEF EndPrune, BackupTypeOK, disk, bounds
<1>10. CASE RecordBackup(w)
  <2>1. body' \in [Workers -> Body]
    BY <1>3, <1>10 DEF RecordBackup, Goes, InThread
  <2>2. schedule' \in [enabled : BOOLEAN, due : BOOLEAN, keep : 1..MaxKeep]
    BY <1>1, <1>10 DEF RecordBackup, Anchored
  <2> QED BY <1>0, <1>10, <2>1, <2>2 DEF RecordBackup, BackupTypeOK, disk, bounds
<1>11. CASE EndAbandoned(w)
  <2>1. body' \in [Workers -> Body]
    BY <1>2, <1>11, BodyTyped DEF EndAbandoned
  <2> QED BY <1>0, <1>11, <2>1 DEF EndAbandoned, BackupTypeOK, disk, bounds
<1> QED BY <1>4, <1>5, <1>6, <1>7, <1>8, <1>9, <1>10, <1>11 DEF Work

\* Every step keeps the types.
LEMMA BackupTypeStep ==
  ASSUME BackupTypeOK, [BackupNext]_vars
  PROVE  BackupTypeOK'
<1> USE BackupAssumption
<1>0. TypeOK'
  BY PoolStep, TypeStep DEF BackupTypeOK
<1>1. /\ body \in [Workers -> Body] /\ scheduled \subseteq Keys /\ clock \in Nat
      /\ bundle \in [Keys -> {"none", "partial", "whole"}] /\ deleted \subseteq Keys
      /\ schedule \in [enabled : BOOLEAN, due : BOOLEAN, keep : 1..MaxKeep]
  BY DEF BackupTypeOK
<1>2. ASSUME NEW k \in Keys, NEW trigger, EnqueueBackup(k, trigger)
      PROVE  /\ scheduled' \subseteq Keys /\ clock' \in Nat
             /\ UNCHANGED <<bundle, deleted, good, body, schedule>>
  BY <1>1, <1>2 DEF EnqueueBackup, disk
<1>3. ASSUME NEW k \in Keys, NEW trigger, PostBackup(k, trigger) PROVE BackupTypeOK'
  BY <1>0, <1>2, <1>3, BoundsTyped DEF PostBackup, BackupTypeOK
<1>4. ASSUME NEW k \in Keys, Tick(k) PROVE BackupTypeOK'
  BY <1>0, <1>2, <1>4 DEF Tick, BackupTypeOK, bounds
<1>5. ASSUME NEW k \in Keys, CancelBackup(k) PROVE BackupTypeOK'
  BY <1>0, <1>5, BoundsTyped DEF CancelBackup, BackupTypeOK, disk
<1>6. ASSUME NEW k \in Keys, DeleteBundle(k) PROVE BackupTypeOK'
  BY <1>0, <1>1, <1>6, BoundsTyped DEF DeleteBundle, BackupTypeOK
<1>7. ASSUME NEW k \in Keys, SetClockBack(k) PROVE BackupTypeOK'
  BY <1>0, <1>1, <1>7, BoundsTyped DEF SetClockBack, BackupTypeOK, disk
<1>8. ASSUME NEW enabled \in BOOLEAN, NEW keep \in 1..MaxKeep, SaveSchedule(enabled, keep)
      PROVE  BackupTypeOK'
  <2>1. schedule' \in [enabled : BOOLEAN, due : BOOLEAN, keep : 1..MaxKeep]
    BY <1>1, <1>8 DEF SaveSchedule
  <2> QED BY <1>0, <1>8, <2>1 DEF SaveSchedule, BackupTypeOK, disk, bounds
<1>9. ASSUME NEW w \in Workers, TakeBackup(w) PROVE BackupTypeOK'
  <2>1. Head(queue) \in Keys
    BY <1>9, TakeKeeps DEF TakeBackup, Take, Waiting, BackupTypeOK, TypeOK
  <2>2. [NoBody EXCEPT !.pc = "mkdir", !.key = Head(queue)] \in Body
    BY <2>1, BodyTyped
  <2>3. body' \in [Workers -> Body]
    BY <1>1, <1>9, <2>2 DEF TakeBackup
  <2> QED BY <1>0, <1>9, <2>3 DEF TakeBackup, BackupTypeOK, disk, bounds
<1>10. ASSUME NEW w \in Workers, SkipBackup(w) \/ LeaveBackup(w) PROVE BackupTypeOK'
  BY <1>0, <1>10 DEF SkipBackup, LeaveBackup, BackupTypeOK, disk, bounds
<1>11. ASSUME NEW w \in Workers, FinishBackup(w) \/ FailBackup(w) \/ RecordFails(w)
       PROVE  BackupTypeOK'
  <2>1. body' \in [Workers -> Body]
    <3>1. body' = [body EXCEPT ![w] = NoBody]
      BY <1>11 DEF FinishBackup, FailBackup, RecordFails
    <3> HIDE DEF NoBody
    <3> QED BY <1>1, <3>1, BodyTyped
  <2>2. CASE FinishBackup(w)
    BY <1>0, <2>1, <2>2 DEF FinishBackup, BackupTypeOK, bounds
  <2>3. CASE FailBackup(w)
    <3>1. bundle' \in [Keys -> {"none", "partial", "whole"}]
      BY <1>1, <2>3 DEF FailBackup, CleanedUp
    <3> QED BY <1>0, <2>1, <2>3, <3>1, BoundsTyped DEF FailBackup, BackupTypeOK, bounds
  <2>4. CASE RecordFails(w)
    BY <1>0, <2>1, <2>4, BoundsTyped DEF RecordFails, BackupTypeOK, disk
  <2> QED BY <1>11, <2>2, <2>3, <2>4
<1>12. CASE Elapse
  <2>1. schedule' \in [enabled : BOOLEAN, due : BOOLEAN, keep : 1..MaxKeep]
    BY <1>1, <1>12 DEF Elapse
  <2> QED BY <1>0, <1>12, <2>1 DEF Elapse, BackupTypeOK, disk
<1>13. CASE StopBackups
  BY <1>0, <1>13, BoundsTyped DEF StopBackups, BackupTypeOK, disk
<1>14. CASE Restart \/ Kill
  <2>1. body' \in [Workers -> Body] /\ scheduled' = {}
    BY <1>14, BodyTyped DEF Restart, Kill, NewProcess
  <2> QED BY <1>0, <1>14, <2>1, BoundsTyped DEF Restart, Kill, NewProcess, BackupTypeOK, disk, bounds
<1>15. CASE UNCHANGED vars
  BY <1>0, <1>15 DEF vars, BackupTypeOK
<1> QED BY <1>3, <1>4, <1>5, <1>6, <1>7, <1>8, <1>9, <1>10, <1>11, <1>12, <1>13, <1>14,
           <1>15, BodyStepTyped
        DEF BackupNext, Manage

\* Every reachable state of the backups is well typed.
THEOREM BackupTypeCorrect == BackupSpec => []BackupTypeOK
<1>1. BackupInit => BackupTypeOK
  <2> SUFFICES ASSUME BackupInit PROVE BackupTypeOK
    OBVIOUS
  <2>1. TypeOK
    BY RememberedTyped, EmptyQueue DEF BackupInit, Init, TypeOK
  <2>2. body \in [Workers -> Body]
    BY BodyTyped DEF BackupInit
  <2>3. schedule \in [enabled : BOOLEAN, due : BOOLEAN, keep : 1..MaxKeep]
    BY DEF BackupInit
  <2>4. /\ bundle \in [Keys -> {"none", "partial", "whole"}]
        /\ scheduled \subseteq Keys /\ deleted \subseteq Keys /\ good \in BOOLEAN
    BY DEF BackupInit
  <2>5. /\ clock \in Nat /\ edits \in 0..MaxEdits /\ faults \subseteq Environment
        /\ days \in 0..MaxDays
    BY BackupAssumption DEF BackupInit
  <2> QED BY <2>1, <2>2, <2>3, <2>4, <2>5 DEF BackupTypeOK
<1> QED BY <1>1, BackupTypeStep, PTL DEF BackupSpec

\* The manager of the backups, with its threads, its scheduler and the bundles
\* on disk, is a worker pool: what is proved of the pool holds of it.
THEOREM BackupImplementsPool == BackupSpec => Spec
<1>1. BackupInit => Init
  BY DEF BackupInit
<1> QED BY <1>1, PoolStep, PTL DEF BackupSpec, Spec

(***************************************************************************)
(* With one worker: its body, the order of the ids, the bundle it makes.    *)
(***************************************************************************)
Single == \A v, w \in Workers : v = w

\* The bundle has been written, ...
Written == {"exported", "list", "prune", "pruned", "unpruned"}
\* ... or not.
Unwritten == {"mkdir", "write", "broken"}

\* A body belongs to the job of its worker; one that is abandoned goes on.
Bodies ==
  \A w \in Workers :
    /\ worker[w] # NoKey => /\ w \notin gone /\ body[w].pc # "idle"
                            /\ body[w].key = worker[w]
    /\ worker[w] = NoKey /\ w \notin gone => body[w].pc = "idle"
    /\ body[w].pc # "idle" => /\ body[w].key \in Keys
                              /\ status[body[w].key] = "running"
    /\ body[w].pc = "unpruned" => "db" \in faults

\* What there is or has been on disk.
Seen == {k \in Keys : bundle[k] # "none" \/ k \in deleted}

\* Ids come in the order of the clock: what is on disk is not newer than the
\* backup that is being made, and that is older than those in the queue.
Ordered ==
  /\ \A k \in Seen : k <= clock
  /\ \A i \in 1..Len(queue) : queue[i] <= clock
  /\ \A i, j \in 1..Len(queue) : i < j => queue[i] < queue[j]
  /\ \A i \in 1..Len(queue) : \A k \in Seen : k < queue[i]
  /\ \A w \in Workers : body[w].pc # "idle" =>
       /\ body[w].key <= clock
       /\ \A i \in 1..Len(queue) : body[w].key < queue[i]
       /\ \A k \in Seen : k <= body[w].key

\* The bundle of the backup that is being made.
Making ==
  \A w \in Workers : LET k == body[w].key IN
    /\ body[w].pc = "mkdir" => k \notin Seen
    /\ body[w].pc \in Unwritten => bundle[k] # "whole"
    /\ body[w].pc \in Written => bundle[k] = "whole" \/ k \in deleted
    /\ body[w].pc = "prune" => k \notin body[w].victims
    /\ good /\ body[w].pc # "idle" => k \notin deleted

BackupInv ==
  /\ BackupTypeOK
  /\ Bodies
  /\ "clock" \notin faults =>
       /\ Ordered
       /\ Making
       /\ good => \E k \in Keys : bundle[k] = "whole"

\* Faults only add up.
LEMMA FaultsGrow == [BackupNext]_vars => faults \subseteq faults'
<1> SUFFICES ASSUME [BackupNext]_vars PROVE faults \subseteq faults'
  OBVIOUS
<1> USE DEF Fault, Edit, bounds
<1>1. ASSUME NEW k \in Keys,
             \/ \E trigger \in {"manual", "scheduled"} : PostBackup(k, trigger)
             \/ Tick(k) \/ CancelBackup(k) \/ DeleteBundle(k) \/ SetClockBack(k)
      PROVE  faults \subseteq faults'
  BY <1>1 DEF PostBackup, Tick, CancelBackup, DeleteBundle, SetClockBack
<1>2. ASSUME NEW w \in Workers, Manage(w) \/ RecordFails(w) PROVE faults \subseteq faults'
  BY <1>2 DEF Manage, TakeBackup, SkipBackup, RecordBackup, FinishBackup, FailBackup,
              RecordFails
<1>3. ASSUME NEW w \in Workers, Work(w) \/ ExportFails(w) \/ LeaveBackup(w) \/ EndAbandoned(w)
      PROVE  faults \subseteq faults'
  BY <1>3 DEF Work, MakeDir, WriteBundle, ListVictims, PruneOne, EndPrune, ExportFails,
              LeaveBackup, EndAbandoned
<1>4. CASE Elapse \/ StopBackups \/ Restart \/ Kill \/ UNCHANGED vars
  BY <1>4 DEF Elapse, StopBackups, Restart, Kill, vars
<1>5. ASSUME NEW enabled \in BOOLEAN, NEW keep \in 1..MaxKeep, SaveSchedule(enabled, keep)
      PROVE  faults \subseteq faults'
  BY <1>5 DEF SaveSchedule
<1> QED BY <1>1, <1>2, <1>3, <1>4, <1>5 DEF BackupNext

\* What a step of a body's thread does to the body.
LEMMA WorkMoves ==
  ASSUME BackupTypeOK, NEW w \in Workers, Work(w) \/ ExportFails(w) \/ RecordBackup(w)
  PROVE  /\ UNCHANGED pool
         /\ body[w].pc # "idle" /\ body'[w].pc # "idle" /\ body'[w].key = body[w].key
         /\ \A v \in Workers \ {w} : body'[v] = body[v]
         /\ body'[w].pc = "unpruned" => "db" \in faults'
<1>1. body \in [Workers -> Body] /\ body[w] \in Body
  BY DEF BackupTypeOK
<1>2. CASE MakeDir(w) \/ WriteBundle(w) \/ ExportFails(w) \/ EndPrune(w)
  <2>1. UNCHANGED pool /\ body[w].pc \in {"mkdir", "write", "prune"}
    BY <1>2 DEF MakeDir, WriteBundle, ExportFails, EndPrune
  <2>2. PICK pc \in {"write", "broken", "exported", "pruned", "unpruned"} :
          /\ body' = [body EXCEPT ![w].pc = pc]
          /\ pc = "unpruned" => "db" \in faults'
    BY <1>2 DEF MakeDir, WriteBundle, ExportFails, EndPrune, Goes, Fault
  <2> QED BY <1>1, <2>1, <2>2 DEF Body
<1>3. CASE ListVictims(w)
  BY <1>1, <1>3 DEF ListVictims, Body
<1>4. CASE PruneOne(w)
  BY <1>1, <1>4 DEF PruneOne, Body
<1>5. CASE RecordBackup(w)
  BY <1>1, <1>5 DEF RecordBackup, Awaits, Body
<1> QED BY <1>2, <1>3, <1>4, <1>5 DEF Work

\* Every step keeps the body with its job.
LEMMA BodiesStep ==
  ASSUME Single, BackupTypeOK, Bodies, [BackupNext]_vars
  PROVE  Bodies'
<1> USE BackupAssumption, WorkerPoolAssumption, FaultsGrow DEF Single, Bodies
<1>t. /\ body \in [Workers -> Body] /\ status \in [Keys -> Status]
      /\ worker \in [Workers -> Keys \cup {NoKey}] /\ queue \in Seq(Keys)
  BY DEF BackupTypeOK, TypeOK
<1>n. NoBody.pc = "idle"
  BY DEF NoBody
\* Steps that leave the bodies alone and no running job behind.
<1>a. ASSUME UNCHANGED <<worker, gone, body>>,
             \A k \in Keys : status[k] = "running" => status'[k] = "running"
      PROVE  Bodies'
  BY <1>a
<1>1. ASSUME NEW k \in Keys, NEW trigger, EnqueueBackup(k, trigger) PROVE Bodies'
  <2>1. status[k] = "absent" /\ status' = [status EXCEPT ![k] = "queued"]
        /\ UNCHANGED <<worker, gone, body>>
    BY <1>1 DEF EnqueueBackup, Fresh, Enqueue
  <2> QED BY <1>t, <1>a, <2>1
<1>2. ASSUME NEW k \in Keys, CancelBackup(k) PROVE Bodies'
  BY <1>t, <1>a, <1>2 DEF CancelBackup, Cancel
<1>3. CASE StopBackups
  BY <1>t, <1>a, <1>3 DEF StopBackups, Stop
<1>4. CASE \/ \E k \in Keys : DeleteBundle(k) \/ SetClockBack(k)
           \/ \E enabled \in BOOLEAN, keep \in 1..MaxKeep : SaveSchedule(enabled, keep)
           \/ Elapse \/ (\E w \in Workers : SkipBackup(w)) \/ UNCHANGED vars
  BY <1>4, <1>a DEF DeleteBundle, SetClockBack, SaveSchedule, Elapse, SkipBackup, SkipStale,
                    vars, pool
<1>5. ASSUME NEW w \in Workers, Work(w) \/ ExportFails(w) \/ RecordBackup(w) PROVE Bodies'
  BY <1>5, WorkMoves DEF pool
<1>6. ASSUME NEW w \in Workers, TakeBackup(w) PROVE Bodies'
  <2>1. Head(queue) \in Keys /\ w \notin gone /\ UNCHANGED gone
    BY <1>t, <1>6, TakeKeeps DEF TakeBackup, Take, Waiting
  <2>2. worker'[w] = Head(queue) /\ status'[Head(queue)] = "running"
    BY <1>t, <1>6, <2>1 DEF TakeBackup, Take
  <2>3. body'[w].pc = "mkdir" /\ body'[w].key = Head(queue)
    BY <1>t, <1>6 DEF TakeBackup, NoBody
  <2> QED BY <2>1, <2>2, <2>3
<1>7. ASSUME NEW w \in Workers, FinishBackup(w) \/ FailBackup(w) \/ RecordFails(w)
      PROVE  Bodies'
  <2>1. body'[w].pc = "idle"
    BY <1>t, <1>n, <1>7 DEF FinishBackup, FailBackup, RecordFails
  <2>2. worker'[w] = NoKey
    BY <1>t, <1>7 DEF FinishBackup, FailBackup, RecordFails, EndJob
  <2> QED BY <2>1, <2>2
<1>8. ASSUME NEW w \in Workers, LeaveBackup(w) PROVE Bodies'
  <2>1. worker'[w] = NoKey /\ w \in gone' /\ UNCHANGED <<body, status>>
    BY <1>t, <1>8 DEF LeaveBackup, Leave
  <2> QED BY <2>1
<1>9. ASSUME NEW w \in Workers, EndAbandoned(w) PROVE Bodies'
  <2>1. body'[w].pc = "idle" /\ w \in gone /\ UNCHANGED pool
    BY <1>t, <1>n, <1>9 DEF EndAbandoned
  <2> QED BY <2>1 DEF pool
<1>10. CASE Restart \/ Kill
  <2>1. \A w \in Workers : body'[w].pc = "idle" /\ worker'[w] = NoKey
    BY <1>n, <1>10 DEF Restart, Kill, NewProcess, Start
  <2> QED BY <2>1
<1> QED BY <1>1, <1>2, <1>3, <1>4, <1>5, <1>6, <1>7, <1>8, <1>9, <1>10
        DEF BackupNext, Manage, PostBackup, Tick
\* The members of a queue that has got a key, and of one that has lost its head.
LEMMA QueueMembers ==
  ASSUME NEW q \in Seq(Keys)
  PROVE  /\ \A k \in Keys : \A i \in 1..Len(Append(q, k)) :
              \/ i \in 1..Len(q) /\ Append(q, k)[i] = q[i]
              \/ i = Len(q) + 1 /\ Append(q, k)[i] = k
         /\ q # <<>> =>
              /\ Head(q) = q[1] /\ 1 \in 1..Len(q)
              /\ \A i \in 1..Len(Tail(q)) : i + 1 \in 1..Len(q) /\ Tail(q)[i] = q[i + 1]
         /\ \A i \in 1..Len(q) : q[i] \in Keys
         /\ Len(q) \in Nat
<1>1. ASSUME NEW k \in Keys, NEW i \in 1..Len(Append(q, k))
      PROVE  \/ i \in 1..Len(q) /\ Append(q, k)[i] = q[i]
             \/ i = Len(q) + 1 /\ Append(q, k)[i] = k
  BY <1>1
<1>2. ASSUME q # <<>>
      PROVE  /\ Head(q) = q[1] /\ 1 \in 1..Len(q)
             /\ \A i \in 1..Len(Tail(q)) : i + 1 \in 1..Len(q) /\ Tail(q)[i] = q[i + 1]
  BY <1>2
<1> QED BY <1>1, <1>2

\* A queue that has lost its head is ordered as before.
LEMMA TailOrdered ==
  ASSUME BackupTypeOK, Ordered, queue # <<>>, queue' = Tail(queue)
  PROVE  /\ \A i \in 1..Len(queue') : queue'[i] <= clock
         /\ \A i, j \in 1..Len(queue') : i < j => queue'[i] < queue'[j]
         /\ \A i \in 1..Len(queue') : \A k \in Seen : k < queue'[i]
         /\ \A i \in 1..Len(queue') : Head(queue) < queue'[i]
         /\ \A w \in Workers : body[w].pc # "idle" =>
              \A i \in 1..Len(queue') : body[w].key < queue'[i]
         /\ Head(queue) \in Keys /\ Head(queue) <= clock /\ \A k \in Seen : k < Head(queue)
<1>1. queue \in Seq(Keys)
  BY DEF BackupTypeOK, TypeOK
<1>2. \A i \in 1..Len(queue') : i + 1 \in 1..Len(queue) /\ queue'[i] = queue[i + 1]
  BY <1>1, QueueMembers
<1>3. Head(queue) = queue[1] /\ 1 \in 1..Len(queue) /\ queue[1] \in Keys
  BY <1>1, QueueMembers
<1>4. \A i \in 1..Len(queue') : 1 < i + 1
  OBVIOUS
<1> QED BY <1>2, <1>3, <1>4 DEF Ordered

Safe == /\ Ordered /\ Making
        /\ good => \E k \in Keys : bundle[k] = "whole"

\* Any natural numbers have a least one among them.
LEMMA LeastOne ==
  ASSUME NEW S \in SUBSET Nat, S # {}
  PROVE  \E k \in S : \A j \in S : k <= j
<1>1. PICK k \in S : \A j \in S : <<j, k>> \notin OpToRel(<, Nat)
  BY NatLessThanWellFounded, WFMin
<1>2. \A j \in S : ~(j < k)
  BY <1>1 DEF OpToRel
<1> QED BY <1>2

\* The oldest victim is one of them.
LEMMA LeastVictim ==
  ASSUME BackupTypeOK, NEW w \in Workers, body[w].victims # {}
  PROVE  (CHOOSE k \in body[w].victims : \A j \in body[w].victims : k <= j)
           \in body[w].victims
<1>1. body[w].victims \in SUBSET Nat
  BY BackupAssumption DEF BackupTypeOK, Body
<1> QED BY <1>1, LeastOne

\* The thread of a body makes the bundle, and prunes others.
LEMMA WorkSafe ==
  ASSUME Single, BackupTypeOK, Bodies, Safe, NEW w \in Workers,
         Work(w) \/ ExportFails(w) \/ RecordBackup(w)
  PROVE  Safe'
<1> USE BackupAssumption DEF Single
<1> DEFINE key == body[w].key
<1>t. /\ body \in [Workers -> Body] /\ body[w] \in Body
      /\ bundle \in [Keys -> {"none", "partial", "whole"}] /\ deleted \subseteq Keys
      /\ queue \in Seq(Keys) /\ clock \in Nat /\ good \in BOOLEAN /\ Keys \subseteq Nat
  BY DEF BackupTypeOK, TypeOK
<1>m. /\ UNCHANGED <<queue, clock, deleted, good>>
      /\ body[w].pc # "idle" /\ body'[w].key = key /\ key \in Keys
  <2>1. UNCHANGED <<clock, deleted, good>>
    BY DEF Work, MakeDir, WriteBundle, ListVictims, PruneOne, EndPrune, ExportFails,
           RecordBackup, disk
  <2> QED BY <2>1, WorkMoves DEF Bodies, pool
\* It suffices to look at the bundles.
<1>o. ASSUME \A k \in Keys : bundle'[k] # "none" => bundle[k] # "none" \/ k = key
      PROVE  Ordered'
  <2>1. \A k \in Seen' : k \in Seen \/ k = key
    BY <1>m, <1>o DEF Seen
  <2>2. \A v \in Workers : body'[v].key = key
    BY <1>m
  <2>3. /\ key \in Nat /\ key <= clock /\ \A i \in 1..Len(queue) : key < queue[i]
        /\ \A k \in Seen : k <= key
    BY <1>t, <1>m DEF Safe, Ordered
  <2> QED BY <1>m, <2>1, <2>2, <2>3 DEF Safe, Ordered
<1>k. ASSUME bundle[key] # "whole", \A k \in Keys \ {key} : bundle'[k] = bundle[k]
      PROVE  good' => \E k \in Keys : bundle'[k] = "whole"
  BY <1>k, <1>m DEF Safe
<1>i. "idle" \notin Written /\ "mkdir" \notin Written /\ "idle" \notin Unwritten
      /\ Written \cap Unwritten = {}
  BY DEF Written, Unwritten
<1>1. CASE MakeDir(w)
  <2>1. /\ bundle[key] = "none" /\ bundle' = [bundle EXCEPT ![key] = "partial"]
        /\ body'[w].pc = "write" /\ key \notin deleted
    BY <1>t, <1>m, <1>1 DEF MakeDir, Goes, Body, Safe, Making, Seen
  <2>2. Making'
    BY <1>t, <1>m, <2>1 DEF Making, Written, Unwritten
  <2> QED BY <1>t, <1>m, <1>o, <1>k, <2>1, <2>2 DEF Safe
<1>2. CASE WriteBundle(w) /\ bundle[key] = "none"
  <2>1. UNCHANGED bundle /\ body'[w].pc = "broken"
    BY <1>t, <1>2 DEF WriteBundle, Goes, Body
  <2>2. Making'
    BY <1>m, <1>2, <2>1 DEF Safe, Making, Written, Unwritten
  <2> QED BY <1>m, <1>o, <2>1, <2>2 DEF Safe
<1>3. CASE WriteBundle(w) /\ bundle[key] # "none"
  <2>1. bundle' = [bundle EXCEPT ![key] = "whole"] /\ body'[w].pc = "exported"
    BY <1>t, <1>3 DEF WriteBundle, Goes, Body
  <2>2. Making'
    BY <1>t, <1>m, <2>1 DEF Safe, Making, Written, Unwritten
  <2>3. bundle'[key] = "whole"
    BY <1>t, <1>m, <2>1
  <2> QED BY <1>t, <1>m, <1>o, <2>1, <2>2, <2>3 DEF Safe
<1>4. CASE ExportFails(w)
  <2>1. /\ body[w].pc = "write" /\ body'[w].pc = "broken"
        /\ \A k \in Keys \ {key} : bundle'[k] = bundle[k]
        /\ bundle'[key] \in {bundle[key], "partial"}
    BY <1>t, <1>m, <1>4 DEF ExportFails, Goes, Body
  <2>2. bundle[key] # "whole"
    BY <2>1 DEF Safe, Making, Unwritten
  <2>3. Making'
    BY <1>m, <2>1, <2>2 DEF Safe, Making, Written, Unwritten
  <2> QED BY <1>m, <1>o, <1>k, <2>1, <2>2, <2>3 DEF Safe
<1>5. CASE RecordBackup(w)
  <2>1. UNCHANGED bundle /\ body[w].pc = "exported" /\ body'[w].pc = "list"
    BY <1>t, <1>5 DEF RecordBackup, Awaits, Body, disk
  <2>2. Making'
    BY <1>m, <2>1 DEF Safe, Making, Written, Unwritten
  <2> QED BY <1>m, <1>o, <2>1, <2>2 DEF Safe
<1>6. CASE ListVictims(w)
  <2>1. UNCHANGED bundle /\ body[w].pc = "list" /\ body'[w].pc = "prune"
        /\ body'[w].victims = {k \in OnDisk : InExcess(k, schedule.keep)}
    BY <1>t, <1>6 DEF ListVictims, Body, disk
  <2>2. {j \in OnDisk : j > key} = {}
    <3>1. \A j \in OnDisk : j <= key
      BY <1>m DEF Safe, Ordered, OnDisk, Seen
    <3>2. OnDisk \subseteq Nat /\ key \in Nat
      BY <1>t, <1>m DEF OnDisk
    <3> HIDE DEF key
    <3>3. ~\E j \in OnDisk : j > key
      BY <3>1, <3>2
    <3> QED BY <3>3
  <2>3. ~InExcess(key, schedule.keep)
    BY <2>2, FS_EmptySet DEF InExcess, BackupTypeOK
  <2>4. Making'
    BY <1>m, <2>1, <2>3 DEF Safe, Making, Written, Unwritten
  <2> QED BY <1>m, <1>o, <2>1, <2>4 DEF Safe
<1>7. CASE PruneOne(w)
  <2> DEFINE v == CHOOSE k \in body[w].victims : \A j \in body[w].victims : k <= j
  <2>1. /\ body[w].pc = "prune" /\ body'[w].pc = "prune"
        /\ body'[w].victims = body[w].victims \ {v}
        /\ bundle' = [bundle EXCEPT ![v] = "none"] \/ UNCHANGED bundle
    BY <1>t, <1>7 DEF PruneOne, Body
  <2>2. v \in body[w].victims
    BY <1>t, <1>7, LeastVictim DEF PruneOne
  <2>3. v # key
    BY <2>1, <2>2 DEF Safe, Making
  <2> HIDE DEF v
  <2>4. bundle'[key] = bundle[key]
        /\ \A k \in Keys : bundle'[k] # "none" => bundle[k] # "none"
    BY <1>t, <1>m, <2>1, <2>3
  <2>5. Making'
    BY <1>m, <2>1, <2>4 DEF Safe, Making, Written, Unwritten
  <2>6. good => bundle[key] = "whole"
    BY <1>m, <2>1 DEF Safe, Making, Written
  <2> QED BY <1>m, <1>o, <2>4, <2>5, <2>6 DEF Safe
<1>8. CASE EndPrune(w)
  <2>1. UNCHANGED bundle /\ body[w].pc = "prune" /\ body'[w].pc \in {"pruned", "unpruned"}
    BY <1>t, <1>8 DEF EndPrune, Goes, Body, disk
  <2>2. Making'
    BY <1>m, <2>1 DEF Safe, Making, Written, Unwritten
  <2> QED BY <1>m, <1>o, <2>1, <2>2 DEF Safe
<1> QED BY <1>1, <1>2, <1>3, <1>4, <1>5, <1>6, <1>7, <1>8 DEF Work

\* The end of a body: its verdict says what became of the bundle.
LEMMA EndSafe ==
  ASSUME Single, BackupTypeOK, Bodies, Safe, NEW w \in Workers,
         FinishBackup(w) \/ FailBackup(w) \/ RecordFails(w)
  PROVE  Safe'
<1> USE BackupAssumption DEF Single
<1> DEFINE key == body[w].key
<1>t. /\ body \in [Workers -> Body]
      /\ bundle \in [Keys -> {"none", "partial", "whole"}] /\ good \in BOOLEAN
  BY DEF BackupTypeOK
<1>1. /\ UNCHANGED <<queue, clock, deleted>> /\ \A v \in Workers : body'[v].pc = "idle"
      /\ key \in Keys /\ key = worker[w]
  <2>1. UNCHANGED <<queue, clock, deleted>> /\ body'[w].pc = "idle" /\ worker[w] # NoKey
    BY <1>t DEF FinishBackup, FailBackup, RecordFails, EndJob, NoBody, disk
  <2> QED BY <2>1 DEF Bodies
<1>2. ASSUME \A k \in Keys : bundle'[k] # "none" => bundle[k] # "none" PROVE Ordered' /\ Making'
  <2>1. Seen' \subseteq Seen
    BY <1>1, <1>2 DEF Seen
  <2>2. Ordered'
    BY <1>1, <2>1 DEF Safe, Ordered
  <2>3. Making'
    BY <1>1 DEF Making, Written, Unwritten
  <2> QED BY <2>2, <2>3
<1>3. CASE FinishBackup(w)
  <2>1. UNCHANGED bundle /\ (good' => good \/ (body[w].pc = "pruned" /\ key \notin deleted))
    <3>1. CASE Awaits(w, "pruned") /\ good' = (good \/ key \notin deleted)
      BY <1>3, <3>1 DEF FinishBackup, Awaits
    <3>2. CASE UNCHANGED good
      BY <1>3, <3>2 DEF FinishBackup
    <3> QED BY <1>3, <3>1, <3>2 DEF FinishBackup
  <2>2. body[w].pc = "pruned" /\ key \notin deleted => bundle[key] = "whole"
    BY DEF Safe, Making, Written
  <2>3. Ordered' /\ Making'
    BY <1>2, <2>1
  <2> HIDE DEF key
  <2>4. ASSUME good' PROVE \E k \in Keys : bundle'[k] = "whole"
    <3>1. CASE good
      BY <2>1, <3>1 DEF Safe
    <3>2. CASE ~good
      BY <1>1, <2>1, <2>2, <2>4, <3>2
    <3> QED BY <3>1, <3>2
  <2> QED BY <2>3, <2>4 DEF Safe
<1>4. CASE FailBackup(w)
  <2>1. /\ body[w].pc = "broken" /\ UNCHANGED good
        /\ bundle' = [bundle EXCEPT ![key] = "none"] \/ UNCHANGED bundle
    BY <1>4 DEF FailBackup, Awaits, CleanedUp
  <2>2. bundle[key] # "whole"
    BY <2>1 DEF Safe, Making, Unwritten
  <2> QED BY <1>t, <1>1, <1>2, <2>1, <2>2 DEF Safe
<1>5. CASE RecordFails(w)
  <2>1. UNCHANGED <<bundle, good>>
    BY <1>5 DEF RecordFails, disk
  <2> QED BY <1>1, <1>2, <2>1 DEF Safe
<1> QED BY <1>3, <1>4, <1>5

\* Every step but that of the clock keeps the order and the bundles.
LEMMA SafeStep ==
  ASSUME Single, BackupTypeOK, Bodies, Safe, [BackupNext]_vars, "clock" \notin faults'
  PROVE  Safe'
<1> USE BackupAssumption, WorkerPoolAssumption DEF Single
<1>t. /\ body \in [Workers -> Body] /\ status \in [Keys -> Status]
      /\ bundle \in [Keys -> {"none", "partial", "whole"}] /\ deleted \subseteq Keys
      /\ queue \in Seq(Keys) /\ clock \in Nat /\ good \in BOOLEAN /\ Keys \subseteq Nat
      /\ worker \in [Workers -> Keys \cup {NoKey}]
  BY DEF BackupTypeOK, TypeOK
<1>s. Seen \subseteq Nat /\ \A k \in Seen : k \in Keys
  BY DEF Seen
\* Steps that touch neither the queue nor the disk nor a body.
<1>a. ASSUME UNCHANGED <<queue, clock, bundle, deleted, good, body>>
      PROVE  Safe'
  BY <1>a DEF Safe, Ordered, Making, Seen
\* Steps that end or leave a body.
<1>b. ASSUME UNCHANGED <<clock, bundle, deleted, good>>,
             queue' = queue \/ queue' = <<>>,
             \A w \in Workers : body'[w].pc = "idle"
      PROVE  Safe'
  <2>1. Len(<<>>) = 0
    OBVIOUS
  <2> QED BY <1>b, <2>1 DEF Safe, Ordered, Making, Seen, Unwritten, Written
<1>1. ASSUME NEW k \in Keys, NEW trigger, EnqueueBackup(k, trigger) PROVE Safe'
  <2>1. k > clock /\ clock' = k /\ queue' = Append(queue, k)
        /\ UNCHANGED <<bundle, deleted, good, body>>
    BY <1>1 DEF EnqueueBackup, Fresh, Enqueue, QueueWith, disk
  <2>2. \A i \in 1..Len(queue') :
          \/ i \in 1..Len(queue) /\ queue'[i] = queue[i]
          \/ i = Len(queue) + 1 /\ queue'[i] = k
    BY <1>t, <2>1, QueueMembers
  <2>3. \A i \in 1..Len(queue) : queue[i] \in Nat
    BY <1>t, QueueMembers
  <2>4. Seen' = Seen
    BY <2>1 DEF Seen
  <2>5. \A w \in Workers : body[w].pc # "idle" => body[w].key \in Nat
    BY <1>t DEF Bodies
  <2>6. Len(queue) \in Nat
    BY <1>t, QueueMembers
  <2>7. Ordered'
    BY <1>t, <1>s, <2>1, <2>2, <2>3, <2>4, <2>5, <2>6 DEF Safe, Ordered
  <2> QED BY <2>1, <2>4, <2>7 DEF Safe, Making
<1>2. ASSUME NEW w \in Workers, SkipBackup(w) PROVE Safe'
  <2>1. queue # <<>> /\ queue' = Tail(queue) /\ UNCHANGED <<clock, bundle, deleted, good, body>>
    BY <1>2 DEF SkipBackup, SkipStale, Waiting, disk
  <2>2. Seen' = Seen
    BY <2>1 DEF Seen
  <2>3. Ordered'
    BY <2>1, <2>2, TailOrdered DEF Safe, Ordered
  <2> QED BY <2>1, <2>2, <2>3 DEF Safe, Making
<1>3. ASSUME NEW w \in Workers, TakeBackup(w) PROVE Safe'
  <2>1. queue # <<>> /\ queue' = Tail(queue) /\ UNCHANGED <<clock, bundle, deleted, good>>
        /\ body'[w] = [NoBody EXCEPT !.pc = "mkdir", !.key = Head(queue)]
    BY <1>t, <1>3 DEF TakeBackup, Take, Waiting, disk
  <2>2. body'[w].pc = "mkdir" /\ body'[w].key = Head(queue)
    BY <2>1 DEF NoBody
  <2>3. Seen' = Seen
    BY <2>1 DEF Seen
  <2>4. Head(queue) \in Keys /\ Head(queue) \notin Seen
    BY <1>t, <1>s, <2>1, TailOrdered DEF Safe
  <2>5. Ordered'
    <3>1. \A v \in Workers : body'[v].key = Head(queue)
      BY <2>2
    <3>2. \A k \in Seen : k <= Head(queue)
      BY <1>t, <1>s, <2>1, TailOrdered DEF Safe
    <3> QED BY <2>1, <2>3, <3>1, <3>2, TailOrdered DEF Safe, Ordered
  <2>6. Making'
    BY <1>t, <2>1, <2>2, <2>3, <2>4 DEF Making, Seen, Unwritten, Written
  <2> QED BY <2>1, <2>5, <2>6 DEF Safe
<1>4. ASSUME NEW k \in Keys, DeleteBundle(k) PROVE Safe'
  <2>1. /\ bundle' = [bundle EXCEPT ![k] = "none"] /\ deleted' = deleted \cup {k}
        /\ good' = (good /\ status[k] \notin Pending /\ \E j \in Keys \ {k} : bundle[j] = "whole")
        /\ bundle[k] # "none" /\ UNCHANGED <<queue, clock, body>>
    BY <1>4 DEF DeleteBundle, OnDisk, pool
  <2>2. Seen' = Seen
    BY <1>t, <2>1 DEF Seen
  <2>3. Ordered'
    BY <2>1, <2>2 DEF Safe, Ordered
  <2>4. Making'
    <3> SUFFICES ASSUME NEW w \in Workers
                 PROVE  LET j == body[w].key IN
                        /\ body[w].pc = "mkdir" => j \notin Seen
                        /\ body[w].pc \in Unwritten => bundle'[j] # "whole"
                        /\ body[w].pc \in Written => bundle'[j] = "whole" \/ j \in deleted'
                        /\ body[w].pc = "prune" => j \notin body[w].victims
                        /\ good' /\ body[w].pc # "idle" => j \notin deleted'
      BY <2>1, <2>2 DEF Making
    <3>1. body[w].pc # "idle" => body[w].key \in Keys /\ status[body[w].key] \in Pending
      BY DEF Bodies, Pending
    <3>2. body[w].pc \in Unwritten \cup Written => body[w].pc # "idle"
      BY DEF Unwritten, Written
    <3> QED BY <1>t, <2>1, <3>1, <3>2 DEF Safe, Making
  <2>5. good' => \E j \in Keys : bundle'[j] = "whole"
    BY <1>t, <2>1
  <2> QED BY <2>3, <2>4, <2>5 DEF Safe
<1>5. ASSUME NEW w \in Workers, Work(w) \/ ExportFails(w) \/ RecordBackup(w) PROVE Safe'
  BY <1>5, WorkSafe
<1>6. ASSUME NEW w \in Workers, FinishBackup(w) \/ FailBackup(w) \/ RecordFails(w) PROVE Safe'
  BY <1>6, EndSafe
<1>7. ASSUME NEW w \in Workers, EndAbandoned(w) PROVE Safe'
  <2>1. UNCHANGED <<queue, clock, bundle, deleted, good>> /\ body'[w].pc = "idle"
    BY <1>t, <1>7 DEF EndAbandoned, NoBody, pool, disk
  <2> QED BY <1>b, <2>1
<1>8. CASE Restart \/ Kill
  <2>1. UNCHANGED <<clock, bundle, deleted, good>> /\ queue' = <<>>
        /\ \A w \in Workers : body'[w].pc = "idle"
    BY <1>8 DEF Restart, Kill, NewProcess, Start, NoBody, disk
  <2> QED BY <1>b, <2>1
<1>9. ASSUME NEW k \in Keys, SetClockBack(k) PROVE FALSE
  BY <1>9 DEF SetClockBack, Fault
<1>10. CASE \/ \E k \in Keys : CancelBackup(k)
            \/ \E enabled \in BOOLEAN, keep \in 1..MaxKeep : SaveSchedule(enabled, keep)
            \/ \E w \in Workers : LeaveBackup(w)
            \/ Elapse \/ StopBackups \/ UNCHANGED vars
  BY <1>10, <1>a DEF CancelBackup, SaveSchedule, LeaveBackup, Elapse, StopBackups, Cancel,
                     Leave, Stop, vars, pool, disk
<1> QED BY <1>1, <1>2, <1>3, <1>4, <1>5, <1>6, <1>7, <1>8, <1>9, <1>10
        DEF BackupNext, Manage, PostBackup, Tick

\* Every step keeps the invariant.
LEMMA BackupStep ==
  ASSUME Single, BackupInv, [BackupNext]_vars
  PROVE  BackupInv'
<1>1. "clock" \in faults => "clock" \in faults'
  BY FaultsGrow
<1> QED BY <1>1, BackupTypeStep, BodiesStep, SafeStep DEF BackupInv, Safe

\* The invariant holds of every reachable state.
LEMMA BackupInvHolds ==
  ASSUME Single
  PROVE  BackupSpec => []BackupInv
<1>1. BackupInit => Bodies /\ Ordered /\ Making /\ ~good
  <2> SUFFICES ASSUME BackupInit PROVE Bodies /\ Ordered /\ Making /\ ~good
    OBVIOUS
  <2>1. /\ \A w \in Workers : body[w].pc = "idle" /\ worker[w] = NoKey
        /\ Seen = {} /\ Len(queue) = 0 /\ good = FALSE
    BY DEF BackupInit, Init, NoBody, Seen
  <2> QED BY <2>1 DEF Bodies, Ordered, Making, Written, Unwritten
<1>2. BackupInit /\ BackupTypeOK => BackupInv
  BY <1>1 DEF BackupInv
<1>3. BackupInv /\ [BackupNext]_vars => BackupInv'
  BY BackupStep
<1> QED BY <1>2, <1>3, BackupTypeCorrect, PTL DEF BackupSpec

\* With one worker, a whole bundle is there from the first completed backup on,
\* whatever crashes, fails or is pruned, unless the operator deletes it or sets
\* the clock back.
THEOREM LastGoodKeptHolds ==
  ASSUME Single
  PROVE  BackupSpec => []LastGoodKept
<1>1. BackupInv => LastGoodKept
  BY DEF BackupInv, LastGoodKept
<1> QED BY <1>1, BackupInvHolds, PTL

\* With one worker, the verdict of a backup tells what is on disk.
THEOREM VerdictMatchesDiskHolds ==
  ASSUME Single
  PROVE  BackupSpec => VerdictMatchesDisk
<1> DEFINE Told ==
      \A w \in Workers :
        LET k == worker[w] IN
        k # NoKey /\ ~stopping /\ worker'[w] = NoKey =>
          CASE status'[k] = "completed" ->
                 bundle'[k] = "whole" \/ k \in deleted \/ "clock" \in faults
            [] status'[k] = "failed" ->
                 bundle'[k] = "none" \/ {"db", "remove"} \cap faults' # {}
            [] OTHER -> TRUE
<1>1. ASSUME BackupInv, [BackupNext]_vars PROVE [Told]_vars
  <2> SUFFICES ASSUME NEW w \in Workers, worker[w] # NoKey, ~stopping, worker'[w] = NoKey
      PROVE /\ status'[worker[w]] = "completed" =>
                 bundle'[worker[w]] = "whole" \/ worker[w] \in deleted \/ "clock" \in faults
            /\ status'[worker[w]] = "failed" =>
                 bundle'[worker[w]] = "none" \/ {"db", "remove"} \cap faults' # {}
    OBVIOUS
  <2> USE <1>1 DEF Single
  <2>t. /\ status \in [Keys -> Status] /\ worker[w] \in Keys /\ body \in [Workers -> Body]
        /\ bundle \in [Keys -> {"none", "partial", "whole"}]
        /\ worker \in [Workers -> Keys \cup {NoKey}]
    BY DEF BackupInv, BackupTypeOK, TypeOK
  <2>b. body[w].key = worker[w] /\ w \notin gone /\ body[w].pc # "idle"
    BY DEF BackupInv, Bodies
  <2>1. CASE FinishBackup(w)
    <3>1. UNCHANGED <<bundle, deleted>>
      BY <2>1 DEF FinishBackup
    <3>2. CASE body[w].pc = "pruned"
      <4>1. EndJob(w, "completed", FALSE)
        BY <2>1, <3>2 DEF FinishBackup, Awaits
      <4>2. status'[worker[w]] = "completed"
        BY <2>t, <4>1 DEF EndJob
      <4>3. bundle[worker[w]] = "whole" \/ worker[w] \in deleted \/ "clock" \in faults
        BY <2>b, <3>2 DEF BackupInv, Making, Written
      <4> QED BY <3>1, <4>2, <4>3
    <3>3. CASE body[w].pc # "pruned"
      <4>1. body[w].pc = "unpruned" /\ EndJob(w, "running", TRUE)
        BY <2>1, <3>3 DEF FinishBackup, Awaits
      <4>2. status'[worker[w]] = "failed"
        BY <2>t, <4>1 DEF EndJob, SafetyNet
      <4>3. "db" \in faults'
        BY <4>1, FaultsGrow DEF BackupInv, Bodies
      <4> QED BY <4>2, <4>3
    <3> QED BY <3>2, <3>3
  <2>2. CASE FailBackup(w)
    <3>1. EndJob(w, "failed", FALSE)
          /\ (bundle' = [bundle EXCEPT ![worker[w]] = "none"] \/ "remove" \in faults')
      BY <2>b, <2>2 DEF FailBackup, CleanedUp, Fault
    <3>2. status'[worker[w]] = "failed"
      BY <2>t, <3>1 DEF EndJob
    <3> QED BY <2>t, <3>1, <3>2
  <2>3. CASE RecordFails(w)
    <3>1. EndJob(w, "running", TRUE) /\ "db" \in faults'
      BY <2>3 DEF RecordFails, Fault
    <3>2. status'[worker[w]] = "failed"
      BY <2>t, <3>1 DEF EndJob, SafetyNet
    <3> QED BY <3>1, <3>2
  <2>4. CASE Restart \/ Kill
    <3>1. status' = [k \in Keys |-> "absent"]
      BY <2>4 DEF Restart, Kill, NewProcess, Start
    <3> QED BY <2>t, <3>1
  <2>5. ASSUME NEW v \in Workers, TakeBackup(v) PROVE FALSE
    BY <2>5 DEF TakeBackup, Take, Waiting
  <2>6. ASSUME NEW v \in Workers, LeaveBackup(v) PROVE FALSE
    BY <2>6 DEF LeaveBackup, Leave
  <2>7. ASSUME UNCHANGED worker PROVE FALSE
    BY <2>7
  <2>8. CASE Aside \/ UNCHANGED vars
    BY <2>7, <2>8, AsideKeepsPool DEF pool, vars
  <2>9. ASSUME NEW k \in Keys,
               (\E trigger \in {"manual", "scheduled"} : PostBackup(k, trigger))
                 \/ Tick(k) \/ CancelBackup(k)
        PROVE  FALSE
    BY <2>7, <2>9 DEF PostBackup, Tick, EnqueueBackup, Enqueue, CancelBackup, Cancel
  <2>10. ASSUME NEW v \in Workers, SkipBackup(v) PROVE FALSE
    BY <2>7, <2>10 DEF SkipBackup, SkipStale
  <2>11. CASE StopBackups
    BY <2>7, <2>11 DEF StopBackups, Stop
  <2> QED BY <2>1, <2>2, <2>3, <2>4, <2>5, <2>6, <2>8, <2>9, <2>10, <2>11
          DEF BackupNext, Manage, Aside
<1>2. VerdictMatchesDisk <=> [][Told]_vars
  BY DEF VerdictMatchesDisk
<1> QED BY <1>1, <1>2, BackupInvHolds, PTL DEF BackupSpec

(***************************************************************************)
(* Retention.                                                               *)
(***************************************************************************)
\* Of any natural numbers, at most n have less than n greater ones.
LEMMA FewNewest ==
  ASSUME NEW S \in SUBSET Nat, IsFiniteSet(S), NEW n \in Nat,
         NEW T \in SUBSET S, \A k \in T : Cardinality({j \in S : j > k}) < n
  PROVE  Cardinality(T) <= n
<1>1. CASE T = {}
  BY <1>1, FS_EmptySet
<1>2. CASE T # {}
  <2>1. PICK m \in T : \A j \in T : m <= j
    BY <1>2, LeastOne
  <2> DEFINE Above == {j \in S : j > m}
  <2>2. IsFiniteSet(Above) /\ Cardinality(Above) \in Nat /\ Cardinality(Above) < n
    BY FS_Subset, FS_CardinalityType
  <2>3. T \subseteq Above \cup {m}
    BY <2>1
  <2> HIDE DEF Above
  <2>4. /\ IsFiniteSet(Above \cup {m})
        /\ Cardinality(Above \cup {m}) \in {Cardinality(Above), Cardinality(Above) + 1}
    BY <2>2, FS_AddElement
  <2>5. IsFiniteSet(T) /\ Cardinality(T) <= Cardinality(Above \cup {m})
    BY <2>3, <2>4, FS_Subset
  <2>6. Cardinality(T) \in Nat
    BY <2>5, FS_CardinalityType
  <2> QED BY <2>2, <2>4, <2>5, <2>6
<1> QED BY <1>1, <1>2

\* What remains when the victims are gone is within the retention.
Within ==
  /\ IsFiniteSet(OnDisk)
  /\ \A w \in Workers : "remove" \notin faults =>
       /\ body[w].pc = "prune" => Cardinality(OnDisk \ body[w].victims) <= body[w].keep
       /\ body[w].pc = "pruned" => Cardinality(OnDisk) <= body[w].keep

\* A smaller set is within what a larger one is within.
LEMMA StillWithin ==
  ASSUME NEW S, IsFiniteSet(S), NEW T \in SUBSET S, NEW n \in Nat, Cardinality(S) <= n
  PROVE  Cardinality(T) <= n
<1>1. IsFiniteSet(T) /\ Cardinality(T) <= Cardinality(S)
  BY FS_Subset
<1>2. Cardinality(T) \in Nat /\ Cardinality(S) \in Nat
  BY <1>1, FS_CardinalityType
<1> QED BY <1>1, <1>2

\* Only the directory of a backup that begins is new on disk.
LEMMA DiskGrows ==
  ASSUME BackupTypeOK, [BackupNext]_vars
  PROVE  \/ OnDisk' \subseteq OnDisk
         \/ \E w \in Workers : MakeDir(w) /\ OnDisk' \subseteq OnDisk \cup {body[w].key}
<1>t. bundle \in [Keys -> {"none", "partial", "whole"}]
  BY DEF BackupTypeOK
<1>0. ASSUME UNCHANGED bundle PROVE OnDisk' \subseteq OnDisk
  BY <1>0 DEF OnDisk
<1>1. ASSUME NEW k, bundle' = [bundle EXCEPT ![k] = "none"] PROVE OnDisk' \subseteq OnDisk
  BY <1>t, <1>1 DEF OnDisk
<1>2. ASSUME NEW w \in Workers, MakeDir(w) PROVE OnDisk' \subseteq OnDisk \cup {body[w].key}
  BY <1>t, <1>2 DEF MakeDir, OnDisk
<1>3. ASSUME NEW w \in Workers, WriteBundle(w) \/ ExportFails(w) PROVE OnDisk' \subseteq OnDisk
  BY <1>t, <1>3 DEF WriteBundle, ExportFails, OnDisk
<1>4. ASSUME NEW w \in Workers, FailBackup(w) PROVE OnDisk' \subseteq OnDisk
  BY <1>0, <1>1, <1>4 DEF FailBackup, CleanedUp
<1>5. ASSUME NEW w \in Workers, PruneOne(w) PROVE OnDisk' \subseteq OnDisk
  BY <1>0, <1>1, <1>5 DEF PruneOne
<1>6. ASSUME NEW k \in Keys, DeleteBundle(k) PROVE OnDisk' \subseteq OnDisk
  BY <1>1, <1>6 DEF DeleteBundle
<1>7. ASSUME NEW k \in Keys,
             \/ \E trigger \in {"manual", "scheduled"} : PostBackup(k, trigger)
             \/ Tick(k) \/ CancelBackup(k) \/ SetClockBack(k)
      PROVE  UNCHANGED bundle
  BY <1>7 DEF PostBackup, Tick, EnqueueBackup, CancelBackup, SetClockBack, disk
<1>8. ASSUME NEW w \in Workers,
             \/ TakeBackup(w) \/ SkipBackup(w) \/ RecordBackup(w) \/ FinishBackup(w)
             \/ RecordFails(w) \/ LeaveBackup(w) \/ EndAbandoned(w) \/ ListVictims(w)
             \/ EndPrune(w)
      PROVE  UNCHANGED bundle
  BY <1>8 DEF TakeBackup, SkipBackup, RecordBackup, FinishBackup, RecordFails, LeaveBackup,
              EndAbandoned, ListVictims, EndPrune, disk
<1>9. CASE \/ \E enabled \in BOOLEAN, keep \in 1..MaxKeep : SaveSchedule(enabled, keep)
           \/ Elapse \/ StopBackups \/ Restart \/ Kill \/ UNCHANGED vars
  BY <1>0, <1>9 DEF SaveSchedule, Elapse, StopBackups, Restart, Kill, NewProcess, vars, disk
<1> QED BY <1>0, <1>2, <1>3, <1>4, <1>5, <1>6, <1>7, <1>8, <1>9 DEF BackupNext, Manage, Work

\* A body that prunes, or has pruned, was there before or has just listed.
LEMMA PruningMoves ==
  ASSUME BackupTypeOK, [BackupNext]_vars, NEW w \in Workers,
         body'[w].pc \in {"prune", "pruned"}
  PROVE  \/ body'[w] = body[w]
         \/ ListVictims(w) \/ PruneOne(w) \/ EndPrune(w)
<1>t. body \in [Workers -> Body]
  BY DEF BackupTypeOK
<1>1. ASSUME NEW k \in Keys,
             \/ \E trigger \in {"manual", "scheduled"} : PostBackup(k, trigger)
             \/ Tick(k) \/ CancelBackup(k) \/ SetClockBack(k) \/ DeleteBundle(k)
      PROVE  UNCHANGED body
  BY <1>1 DEF PostBackup, Tick, EnqueueBackup, CancelBackup, SetClockBack, DeleteBundle
<1>2. ASSUME NEW v \in Workers, TakeBackup(v) \/ EndAbandoned(v) \/ FinishBackup(v)
                                  \/ FailBackup(v) \/ RecordFails(v)
      PROVE  v # w /\ body'[w] = body[w]
  <2>1. CASE TakeBackup(v)
    <3>1. body' = [body EXCEPT ![v] = [NoBody EXCEPT !.pc = "mkdir", !.key = Head(queue)]]
      BY <2>1 DEF TakeBackup
    <3>2. [NoBody EXCEPT !.pc = "mkdir", !.key = Head(queue)].pc = "mkdir"
      BY DEF NoBody
    <3> QED BY <1>t, <3>1, <3>2
  <2>2. CASE EndAbandoned(v) \/ FinishBackup(v) \/ FailBackup(v) \/ RecordFails(v)
    <3>1. body' = [body EXCEPT ![v] = NoBody]
      BY <2>2 DEF EndAbandoned, FinishBackup, FailBackup, RecordFails
    <3>2. NoBody.pc = "idle"
      BY DEF NoBody
    <3> QED BY <1>t, <3>1, <3>2
  <2> QED BY <1>2, <2>1, <2>2
<1>3. ASSUME NEW v \in Workers, MakeDir(v) \/ WriteBundle(v) \/ ExportFails(v) \/ RecordBackup(v)
      PROVE  v # w /\ body'[w] = body[w]
  <2>1. CASE MakeDir(v)
    BY <1>t, <2>1 DEF MakeDir, Goes, Body
  <2>2. CASE WriteBundle(v)
    <3>1. PICK pc \in {"broken", "exported"} : body' = [body EXCEPT ![v].pc = pc]
      BY <2>2 DEF WriteBundle, Goes
    <3> QED BY <1>t, <3>1 DEF Body
  <2>3. CASE ExportFails(v)
    BY <1>t, <2>3 DEF ExportFails, Goes, Body
  <2>4. CASE RecordBackup(v)
    BY <1>t, <2>4 DEF RecordBackup, Body
  <2> QED BY <1>3, <2>1, <2>2, <2>3, <2>4
<1>4. ASSUME NEW v \in Workers, ListVictims(v) \/ PruneOne(v) \/ EndPrune(v), v # w
      PROVE  body'[w] = body[w]
  BY <1>t, <1>4 DEF ListVictims, PruneOne, EndPrune, Goes
<1>5. CASE Restart \/ Kill
  BY <1>5 DEF Restart, Kill, NewProcess, NoBody
<1>6. CASE \/ \E enabled \in BOOLEAN, keep \in 1..MaxKeep : SaveSchedule(enabled, keep)
           \/ Elapse \/ StopBackups \/ (\E v \in Workers : SkipBackup(v) \/ LeaveBackup(v))
           \/ UNCHANGED vars
  BY <1>6 DEF SaveSchedule, Elapse, StopBackups, SkipBackup, LeaveBackup, vars
<1> QED BY <1>1, <1>2, <1>3, <1>4, <1>5, <1>6 DEF BackupNext, Manage, Work

\* Every step keeps what remains within the retention.
LEMMA WithinStep ==
  ASSUME Single, BackupTypeOK, Within, [BackupNext]_vars
  PROVE  Within'
<1> USE BackupAssumption DEF Single
<1>t. /\ body \in [Workers -> Body] /\ bundle \in [Keys -> {"none", "partial", "whole"}]
      /\ \A w \in Workers : body[w].keep \in Nat
      /\ OnDisk \in SUBSET Nat /\ schedule.keep \in Nat
  <2>1. body \in [Workers -> Body] /\ bundle \in [Keys -> {"none", "partial", "whole"}]
    BY DEF BackupTypeOK
  <2>2. \A w \in Workers : body[w].keep \in 0..MaxKeep
    BY <2>1 DEF Body
  <2>3. OnDisk \in SUBSET Nat
    BY DEF OnDisk
  <2>4. schedule.keep \in 1..MaxKeep
    BY DEF BackupTypeOK
  <2> QED BY <2>1, <2>2, <2>3, <2>4
<1>1. IsFiniteSet(OnDisk)'
  <2>1. CASE OnDisk' \subseteq OnDisk
    BY <2>1, FS_Subset DEF Within
  <2>2. CASE \E w \in Workers : OnDisk' \subseteq OnDisk \cup {body[w].key}
    <3>1. PICK w \in Workers : OnDisk' \subseteq OnDisk \cup {body[w].key}
      BY <2>2
    <3>2. IsFiniteSet(OnDisk \cup {body[w].key})
      BY FS_AddElement DEF Within
    <3> QED BY <3>1, <3>2, FS_Subset
  <2> QED BY <2>1, <2>2, DiskGrows
<1>2. ASSUME NEW w \in Workers, "remove" \notin faults', body'[w].pc \in {"prune", "pruned"}
      PROVE  /\ body'[w].pc = "prune" => Cardinality(OnDisk' \ body'[w].victims) <= body'[w].keep
             /\ body'[w].pc = "pruned" => Cardinality(OnDisk') <= body'[w].keep
  <2>0. "remove" \notin faults
    BY <1>2, FaultsGrow
  <2>s. OnDisk' \subseteq OnDisk
    <3>1. ASSUME NEW v \in Workers, MakeDir(v) PROVE body'[v].pc = "write"
      BY <1>t, <3>1 DEF MakeDir, Goes, Body
    <3> QED BY <1>2, <3>1, DiskGrows
  <2>1. CASE body'[w] = body[w]
    <3>1. CASE body[w].pc = "prune"
      <4>1. Cardinality(OnDisk \ body[w].victims) <= body[w].keep
        BY <2>0, <3>1 DEF Within
      <4>2. IsFiniteSet(OnDisk \ body[w].victims)
        BY FS_Subset DEF Within
      <4>3. OnDisk' \ body[w].victims \in SUBSET (OnDisk \ body[w].victims)
        BY <2>s
      <4>4. Cardinality(OnDisk' \ body[w].victims) <= body[w].keep
        BY <1>t, <4>1, <4>2, <4>3, StillWithin
      <4> QED BY <2>1, <3>1, <4>4
    <3>2. CASE body[w].pc = "pruned"
      <4>1. Cardinality(OnDisk) <= body[w].keep /\ IsFiniteSet(OnDisk)
        BY <2>0, <3>2 DEF Within
      <4> QED BY <1>t, <2>1, <2>s, <3>2, <4>1, StillWithin
    <3> QED BY <1>2, <2>1, <3>1, <3>2
  <2>2. CASE ListVictims(w)
    <3>1. /\ UNCHANGED bundle /\ body'[w].pc = "prune" /\ body'[w].keep = schedule.keep
          /\ body'[w].victims = {k \in OnDisk : InExcess(k, schedule.keep)}
      BY <1>t, <2>2 DEF ListVictims, disk, Body
    <3> DEFINE T == OnDisk \ {k \in OnDisk : InExcess(k, schedule.keep)}
    <3>2. OnDisk' = OnDisk
      BY <3>1 DEF OnDisk
    <3>3. ASSUME NEW k \in T PROVE Cardinality({j \in OnDisk : j > k}) < schedule.keep
      <4>1. IsFiniteSet({j \in OnDisk : j > k})
        BY FS_Subset DEF Within
      <4>2. Cardinality({j \in OnDisk : j > k}) \in Nat
        BY <4>1, FS_CardinalityType
      <4>3. ~InExcess(k, schedule.keep)
        OBVIOUS
      <4> QED BY <1>t, <4>2, <4>3 DEF InExcess
    <3>4. T \in SUBSET OnDisk /\ IsFiniteSet(OnDisk)
      BY DEF Within
    <3> HIDE DEF T
    <3>5. Cardinality(T) <= schedule.keep
      BY <1>t, <3>3, <3>4, FewNewest
    <3> QED BY <3>1, <3>2, <3>5 DEF T
  <2>3. CASE PruneOne(w)
    <3> DEFINE v == CHOOSE k \in body[w].victims : \A j \in body[w].victims : k <= j
    <3>1. /\ body[w].pc = "prune" /\ body'[w].pc = "prune" /\ body'[w].keep = body[w].keep
          /\ body'[w].victims = body[w].victims \ {v}
          /\ bundle' = [bundle EXCEPT ![v] = "none"]
      BY <1>t, <1>2, <2>3 DEF PruneOne, Body, Fault
    <3> HIDE DEF v
    <3>2. v \notin OnDisk'
      BY <1>t, <3>1 DEF OnDisk
    <3>3. OnDisk' \ body'[w].victims \subseteq OnDisk \ body[w].victims
      BY <2>s, <3>1, <3>2
    <3>4. Cardinality(OnDisk \ body[w].victims) <= body[w].keep
      BY <2>0, <3>1 DEF Within
    <3>5. IsFiniteSet(OnDisk \ body[w].victims)
      BY FS_Subset DEF Within
    <3> QED BY <1>t, <3>1, <3>3, <3>4, <3>5, StillWithin
  <2>4. CASE EndPrune(w)
    <3>1. /\ body[w].pc = "prune" /\ body'[w].keep = body[w].keep
          /\ body'[w].pc \in {"pruned", "unpruned"} /\ UNCHANGED bundle
          /\ body'[w].pc = "pruned" => body[w].victims = {}
      BY <1>t, <2>4 DEF EndPrune, Goes, Body, disk
    <3>2. OnDisk' = OnDisk
      BY <3>1 DEF OnDisk
    <3>3. Cardinality(OnDisk \ body[w].victims) <= body[w].keep
      BY <2>0, <3>1 DEF Within
    <3>4. OnDisk \ {} = OnDisk
      OBVIOUS
    <3> QED BY <1>2, <3>1, <3>2, <3>3, <3>4
  <2> QED BY <1>2, <2>1, <2>2, <2>3, <2>4, PruningMoves
<1> QED BY <1>1, <1>2 DEF Within

\* With one worker, a backup that has pruned leaves no more bundles than the
\* retention it read, however many crashes have left behind.
THEOREM RetentionHoldsAlways ==
  ASSUME Single
  PROVE  BackupSpec => []RetentionHolds
<1>1. BackupInit => Within
  <2> SUFFICES ASSUME BackupInit PROVE Within
    OBVIOUS
  <2>1. OnDisk = {}
    BY DEF BackupInit, OnDisk
  <2>2. \A w \in Workers : body[w].pc = "idle"
    BY DEF BackupInit, NoBody
  <2> QED BY <2>1, <2>2, FS_EmptySet DEF Within
<1>2. BackupTypeOK /\ Within /\ [BackupNext]_vars => Within'
  BY WithinStep
<1>3. Within => RetentionHolds
  BY DEF Within, RetentionHolds
<1> QED BY <1>1, <1>2, <1>3, BackupTypeCorrect, PTL DEF BackupSpec
=============================================================================
