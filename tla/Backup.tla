-------------------------------- MODULE Backup --------------------------------
(***************************************************************************)
(* Backups: the worker pool with the body of BackupManager, the threads     *)
(* that export a bundle and prune old ones, the scheduler, the bundles on   *)
(* disk and the operator, who deletes some and changes the schedule.        *)
(*                                                                          *)
(* A backup id is the second it was asked for, so ids are numbers: a later  *)
(* id has a greater name.  Environment names what may happen besides:       *)
(* "disk" an export fails, "db" state.db cannot be written, "remove" a      *)
(* directory cannot be removed, "clock" the clock is set back, "kill" the   *)
(* server dies at any point.                                                *)
(***************************************************************************)
EXTENDS WorkerPool, FiniteSets

CONSTANTS
  MaxKeep,      \* bound on backup.retention_count
  Environment,  \* see above
  MaxEdits,     \* bound on what the operator does in a behaviour
  MaxFaults,    \* bound on the faults of a behaviour, each of another kind
  MaxDays       \* bound on how often the cadence runs out

ASSUME BackupAssumption ==
  /\ Keys \subseteq Nat \ {0}
  /\ MaxKeep \in Nat \ {0}
  /\ MaxEdits \in Nat /\ MaxFaults \in Nat /\ MaxDays \in Nat

VARIABLES
  bundle,     \* bundle[k]: the directory of backup k
  body,       \* body[w]: where the body of worker w, or its thread, is
  scheduled,  \* the jobs whose trigger is "scheduled"
  schedule,   \* the settings, and whether the next backup is due
  clock,      \* the id minted last
  deleted,    \* history: what the operator has deleted
  good,       \* history: a backup has completed, and the operator has deleted
              \* neither the last whole bundle nor one that was being made
  edits,
  faults,     \* the kinds of fault that have happened
  days

vars == <<pool, bundle, body, scheduled, schedule, clock, deleted, good,
          edits, faults, days>>
disk == <<bundle, deleted, good>>
bounds == <<edits, faults, days>>

InThread == {"mkdir", "write", "list", "prune"}
Returned == {"exported", "broken", "pruned", "unpruned"}

Body == [pc : {"idle"} \cup InThread \cup Returned, key : Keys \cup {NoKey},
         keep : 0..MaxKeep, victims : SUBSET Keys]
NoBody == [pc |-> "idle", key |-> NoKey, keep |-> 0, victims |-> {}]

BackupTypeOK ==
  /\ TypeOK
  /\ bundle \in [Keys -> {"none", "partial", "whole"}]
  /\ body \in [Workers -> Body]
  /\ scheduled \subseteq Keys
  /\ schedule \in [enabled : BOOLEAN, due : BOOLEAN, keep : 1..MaxKeep]
  /\ clock \in Nat
  /\ deleted \subseteq Keys
  /\ good \in BOOLEAN
  /\ edits \in 0..MaxEdits /\ faults \subseteq Environment /\ days \in 0..MaxDays

Fault(kind) ==
  /\ kind \in Environment \ faults
  /\ Cardinality(faults) < MaxFaults
  /\ faults' = faults \cup {kind}
  /\ UNCHANGED <<edits, days>>

Edit ==
  /\ edits < MaxEdits
  /\ edits' = edits + 1
  /\ UNCHANGED <<faults, days>>

OnDisk == {k \in Keys : bundle[k] # "none"}

(***************************************************************************)
(* The manager, its routes and the scheduler.                               *)
(***************************************************************************)
\* The next id: the clock, or the suffix that makes it a new one.
Fresh(k) ==
  /\ k > clock /\ status[k] = "absent"
  /\ \A j \in Keys : j > clock /\ status[j] = "absent" => k <= j

EnqueueBackup(k, trigger) ==
  /\ Fresh(k)
  /\ Enqueue(k)
  /\ clock' = k
  /\ scheduled' = IF trigger = "scheduled" THEN scheduled \cup {k} ELSE scheduled
  /\ UNCHANGED <<disk, body, schedule>>

\* POST /workers/backups takes either trigger.
PostBackup(k, trigger) ==
  /\ Edit
  /\ EnqueueBackup(k, trigger)

\* _is_due, and the switch in front of it.
Due == schedule.enabled /\ schedule.due

\* A tick with nothing to do, or with settings it cannot read, changes nothing.
Tick(k) ==
  /\ Due
  /\ \A j \in scheduled : status[j] \notin Pending
  /\ EnqueueBackup(k, "scheduled")
  /\ UNCHANGED bounds

\* DELETE /workers/backups/{id}: a running job is asked, but never looks.
CancelBackup(k) ==
  /\ Edit
  /\ Cancel(k)
  /\ UNCHANGED <<disk, body, scheduled, schedule, clock>>

\* POST /ui/settings/backup.
SaveSchedule(enabled, keep) ==
  /\ schedule' = [schedule EXCEPT !.enabled = enabled, !.keep = keep]
  /\ UNCHANGED <<pool, disk, body, scheduled, clock, bounds>>

\* DELETE /ui/backups/{id}, in a thread of its own.
DeleteBundle(k) ==
  /\ Edit
  /\ k \in OnDisk
  /\ bundle' = [bundle EXCEPT ![k] = "none"]
  /\ deleted' = deleted \cup {k}
  /\ good' = (good /\ status[k] \notin Pending
                   /\ \E j \in Keys \ {k} : bundle[j] = "whole")
  /\ UNCHANGED <<pool, body, scheduled, schedule, clock>>

\* The cadence since the last recorded backup has run out.
Elapse ==
  /\ days < MaxDays
  /\ days' = days + 1
  /\ ~schedule.due
  /\ schedule' = [schedule EXCEPT !.due = TRUE]
  /\ UNCHANGED <<pool, disk, body, scheduled, clock, edits, faults>>

SetClockBack(second) ==
  /\ Fault("clock")
  /\ second < clock
  /\ clock' = second
  /\ UNCHANGED <<pool, disk, body, scheduled, schedule>>

(***************************************************************************)
(* The body of a job: what a worker does between two awaits.                *)
(***************************************************************************)
TakeBackup(w) ==
  /\ Take(w)
  /\ body' = [body EXCEPT ![w] = [NoBody EXCEPT !.pc = "mkdir", !.key = Head(queue)]]
  /\ UNCHANGED <<disk, scheduled, schedule, clock, bounds>>

SkipBackup(w) ==
  /\ SkipStale(w)
  /\ UNCHANGED <<disk, body, scheduled, schedule, clock, bounds>>

\* Mutant: the run is never recorded.
NotAnchored(k) == schedule

\* The schedule once backup k is recorded: only scheduled ones anchor it.
Anchored(k) ==
  IF k \in scheduled THEN [schedule EXCEPT !.due = FALSE] ELSE schedule

Awaits(w, pc) == worker[w] # NoKey /\ ~stopping /\ body[w].pc = pc

\* The export is there: event, last_run_at, and the pruning goes to a thread.
RecordBackup(w) ==
  /\ Awaits(w, "exported")
  /\ schedule' = Anchored(body[w].key)
  /\ body' = [body EXCEPT ![w].pc = "list"]
  /\ UNCHANGED <<pool, disk, scheduled, clock, bounds>>

\* The event or last_run_at cannot be written: the worker's safety net.
RecordFails(w) ==
  /\ Fault("db")
  /\ Awaits(w, "exported")
  /\ EndJob(w, "running", TRUE)
  /\ body' = [body EXCEPT ![w] = NoBody]
  /\ UNCHANGED <<disk, scheduled, schedule, clock>>

FinishBackup(w) ==
  /\ \/ Awaits(w, "pruned") /\ EndJob(w, "completed", FALSE)
                               /\ good' = (good \/ body[w].key \notin deleted)
     \/ Awaits(w, "unpruned") /\ EndJob(w, "running", TRUE) /\ UNCHANGED good
  /\ body' = [body EXCEPT ![w] = NoBody]
  /\ UNCHANGED <<bundle, deleted, scheduled, schedule, clock, bounds>>

\* Mutant: what a failed export has written stays.
LeftBehind(k) == bundle

\* Best-effort removal of what a failed export has written.
CleanedUp(k) == [bundle EXCEPT ![k] = "none"]

\* The export raised: clean up, log, verdict.
FailBackup(w) ==
  /\ Awaits(w, "broken")
  /\ EndJob(w, "failed", FALSE)
  /\ \/ bundle' = CleanedUp(body[w].key) /\ UNCHANGED bounds
     \/ Fault("remove") /\ UNCHANGED bundle
  /\ body' = [body EXCEPT ![w] = NoBody]
  /\ UNCHANGED <<deleted, good, scheduled, schedule, clock>>

(***************************************************************************)
(* The threads of a body, which outlive a worker that leaves.               *)
(***************************************************************************)
Goes(w, pc) == body' = [body EXCEPT ![w].pc = pc]

\* export_bundle: the directory, which may be there already.
MakeDir(w) ==
  /\ body[w].pc = "mkdir"
  /\ bundle' = [bundle EXCEPT ![body[w].key] = IF @ = "none" THEN "partial" ELSE @]
  /\ Goes(w, "write")
  /\ UNCHANGED <<pool, deleted, good, scheduled, schedule, clock, bounds>>

\* inventory.json; the directory may have been deleted meanwhile.
WriteBundle(w) ==
  /\ body[w].pc = "write"
  /\ IF bundle[body[w].key] = "none"
     THEN Goes(w, "broken") /\ UNCHANGED bundle
     ELSE Goes(w, "exported") /\ bundle' = [bundle EXCEPT ![body[w].key] = "whole"]
  /\ UNCHANGED <<pool, deleted, good, scheduled, schedule, clock, bounds>>

\* The rows cannot be read, the file cannot be opened, or not written to its end.
ExportFails(w) ==
  /\ Fault("disk")
  /\ body[w].pc = "write"
  /\ \/ UNCHANGED bundle
     \/ bundle' = [bundle EXCEPT ![body[w].key] = IF @ = "none" THEN @ ELSE "partial"]
  /\ Goes(w, "broken")
  /\ UNCHANGED <<pool, deleted, good, scheduled, schedule, clock>>

\* Mutant: the sort is reversed.
KeepOldest(k, keep) == Cardinality({j \in OnDisk : j < k}) >= keep

\* Mutant: one bundle more than the setting says is kept.
KeepOneMore(k, keep) == Cardinality({j \in OnDisk : j > k}) > keep

\* Bundle k is beyond the newest `keep`.  A directory counts whether or not
\* it has an inventory.
InExcess(k, keep) == Cardinality({j \in OnDisk : j > k}) >= keep

ListVictims(w) ==
  /\ body[w].pc = "list"
  /\ body' = [body EXCEPT ![w].pc = "prune", ![w].keep = schedule.keep,
                ![w].victims = {k \in OnDisk : InExcess(k, schedule.keep)}]
  /\ UNCHANGED <<pool, disk, scheduled, schedule, clock, bounds>>

\* The oldest victim goes first.  One that cannot be removed (or has been
\* already) is passed over.
PruneOne(w) ==
  /\ body[w].pc = "prune" /\ body[w].victims # {}
  /\ LET v == CHOOSE k \in body[w].victims : \A j \in body[w].victims : k <= j IN
     /\ body' = [body EXCEPT ![w].victims = @ \ {v}]
     /\ \/ bundle' = [bundle EXCEPT ![v] = "none"] /\ UNCHANGED bounds
        \/ Fault("remove") /\ UNCHANGED bundle
  /\ UNCHANGED <<pool, deleted, good, scheduled, schedule, clock>>

EndPrune(w) ==
  /\ body[w].pc = "prune"
  /\ \/ body[w].victims = {} /\ Goes(w, "pruned") /\ UNCHANGED bounds
     \/ Fault("db") /\ Goes(w, "unpruned")
  /\ UNCHANGED <<pool, disk, scheduled, schedule, clock>>

(***************************************************************************)
(* Shutdown and restart.                                                    *)
(***************************************************************************)
\* The operator stops the server; the scheduler has ended by then.
StopBackups ==
  /\ Edit
  /\ Stop
  /\ UNCHANGED <<disk, body, scheduled, schedule, clock>>

\* The thread goes on; what it returned is dropped.
LeaveBackup(w) ==
  /\ Leave(w)
  /\ UNCHANGED <<disk, body, scheduled, schedule, clock, bounds>>

EndAbandoned(w) ==
  /\ w \in gone
  /\ body[w].pc \in Returned
  /\ body' = [body EXCEPT ![w] = NoBody]
  /\ UNCHANGED <<pool, disk, scheduled, schedule, clock, bounds>>

Drained == stopping /\ gone = Workers /\ \A w \in Workers : body[w].pc = "idle"

\* A new process knows no job of the old one.
NewProcess ==
  /\ Start([k \in Keys |-> "absent"])
  /\ body' = [w \in Workers |-> NoBody]
  /\ scheduled' = {}
  /\ UNCHANGED <<disk, schedule, clock>>

Restart == Drained /\ NewProcess /\ UNCHANGED bounds
Kill == Fault("kill") /\ NewProcess

(***************************************************************************)
(* The specification.                                                       *)
(***************************************************************************)
BackupInit ==
  /\ Init
  /\ status = [k \in Keys |-> "absent"]
  /\ bundle = [k \in Keys |-> "none"]
  /\ body = [w \in Workers |-> NoBody]
  /\ scheduled = {}
  /\ schedule \in [enabled : BOOLEAN, due : {TRUE}, keep : 1..MaxKeep]
  /\ clock = 0
  /\ deleted = {}
  /\ good = FALSE
  /\ edits = 0 /\ faults = {} /\ days = 0

Manage(w) ==
  TakeBackup(w) \/ SkipBackup(w) \/ RecordBackup(w) \/ FinishBackup(w) \/ FailBackup(w)

Work(w) ==
  MakeDir(w) \/ WriteBundle(w) \/ ListVictims(w) \/ PruneOne(w) \/ EndPrune(w)

BackupNext ==
  \/ \E k \in Keys :
       \/ \E trigger \in {"manual", "scheduled"} : PostBackup(k, trigger)
       \/ Tick(k) \/ CancelBackup(k) \/ DeleteBundle(k) \/ SetClockBack(k)
  \/ \E enabled \in BOOLEAN, keep \in 1..MaxKeep : SaveSchedule(enabled, keep)
  \/ \E w \in Workers :
       Manage(w) \/ Work(w) \/ RecordFails(w) \/ ExportFails(w) \/ LeaveBackup(w)
         \/ EndAbandoned(w)
  \/ Elapse
  \/ StopBackups
  \/ Restart
  \/ Kill

BackupSpec == BackupInit /\ [][BackupNext]_vars

\* The scheduler ticks, the event loop and the threads run, and a server that
\* was stopped is started again.
BackupFairness ==
  /\ WF_vars(\E k \in Keys : Tick(k))
  /\ \A w \in Workers :
       WF_vars(Manage(w)) /\ WF_vars(Work(w)) /\ WF_vars(LeaveBackup(w))
         /\ WF_vars(EndAbandoned(w))
  /\ WF_vars(Restart)

BackupFairSpec == BackupSpec /\ BackupFairness

(***************************************************************************)
(* Properties.                                                              *)
(***************************************************************************)
\* A verdict tells what is on disk, whoever deletes or crashes: the bundle of a
\* completed backup has been written, and its own retention has not taken it; a
\* failed backup leaves nothing behind (_run_one).  Two things are excepted: with
\* the clock set back a new backup has the oldest name, and one that cannot be
\* recorded, or cleaned up after, stays.
VerdictMatchesDisk ==
  [][\A w \in Workers :
       LET k == worker[w] IN
       k # NoKey /\ ~stopping /\ worker'[w] = NoKey =>
         CASE status'[k] = "completed" ->
                bundle'[k] = "whole" \/ k \in deleted \/ "clock" \in faults
           [] status'[k] = "failed" ->
                bundle'[k] = "none" \/ {"db", "remove"} \cap faults' # {}
           [] OTHER -> TRUE]_vars

\* Once a backup has completed there is a whole bundle to restore from, though
\* crashes leave half-written directories that retention counts, exports fail
\* and settings change in between: it takes an operator who deletes the last one,
\* or the one that is being made, to lose it (or a clock that is set back).
LastGoodKept ==
  good /\ "clock" \notin faults => \E k \in Keys : bundle[k] = "whole"

\* When the pruning of a backup is through, no more bundles are there than the
\* retention it read, with what crashes have left behind ("the oldest
\* directories under backups_root beyond backup.retention_count are deleted").
RetentionHolds ==
  \A w \in Workers :
    body[w].pc = "pruned" /\ "remove" \notin faults
      => Cardinality(OnDisk) <= body[w].keep

\* A backup that is due happens, unless the schedule is switched off: failures,
\* cancellations and restarts only delay it ("due immediately", _is_due).
DueBackupHappens == Due ~> ~Due
=============================================================================
