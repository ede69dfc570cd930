----------------------------- MODULE ReleaseFetch -----------------------------
(***************************************************************************)
(* Fetching the netboot artifacts into the boot directory: the worker pool  *)
(* with the body of ReleaseFetchManager, the threads that run fetch_release *)
(* (for a worker, or for a POST of the netboot page), the per-file rows of  *)
(* a job, and the events from which a new process remembers old outcomes.   *)
(*                                                                          *)
(* A file is known by the repository it came from.  Environment names what  *)
(* may happen besides: "network" a download or its verification fails,      *)
(* "rename" a file cannot be moved into place, "settings" and "log" state.db*)
(* cannot be read or written, "remove" the operator removes an installed    *)
(* file, "kill" the server dies at any point.                               *)
(***************************************************************************)
EXTENDS WorkerPool

CONSTANTS
  Sessions,     \* threads of POST /ui/netboot/fetch-release
  Repos,        \* release repositories
  OwnRepo,      \* DEFAULT_NETBOOT_REPO, or BTY_BOOT_RELEASE_REPO
  NoRepo,       \* no override in the settings; a missing file
  Published,    \* the tags whose release has the file names of this server
  NumFiles,     \* length of ALL_NAMES
  Environment,  \* see above
  MaxFaults     \* bound on the faults of a behaviour

Files == 1..NumFiles
Fetchers == Workers \cup Sessions

ASSUME ReleaseFetchAssumption ==
  /\ OwnRepo \in Repos /\ NoRepo \notin Repos
  /\ Published \subseteq Keys
  /\ NumFiles \in Nat \ {0}
  /\ Workers \cap Sessions = {}
  /\ MaxFaults \in Nat

VARIABLES
  override,  \* KEY_NETBOOT_REPO
  boot,      \* boot[f]: where the installed file f comes from
  fetch,     \* fetch[t]: the call of fetch_release in thread t
  rows,      \* rows[k][f]: the status of file f of job k
  log,       \* log[k]: the last event of a worker, the last outcome of a tag
  faults

vars == <<pool, override, boot, fetch, rows, log, faults>>

Ends == {"ok", "cancelled", "error", "crash", "unset"}
Places == {"idle", "start", "stream", "verify", "install"} \cup Ends

\* `before` is history: the boot directory when the fetch began.
Fetch == [pc : Places, tag : Keys \cup {NoKey}, repo : Repos \cup {NoRepo},
          n : Files, before : [Files -> Repos \cup {NoRepo}]]
NoFetch == [pc |-> "idle", tag |-> NoKey, repo |-> NoRepo, n |-> 1,
            before |-> [f \in Files |-> NoRepo]]
NoRows == [f \in Files |-> "absent"]

FetchTypeOK ==
  /\ TypeOK
  /\ override \in Repos \cup {NoRepo}
  /\ boot \in [Files -> Repos \cup {NoRepo}]
  /\ fetch \in [Fetchers -> Fetch]
  /\ rows \in [Keys -> [Files -> Status]]
  /\ log \in [Keys -> [last : {"none", "started"} \cup Verdicts,
                       outcome : {"absent", "completed", "failed"}]]
  /\ faults \in 0..MaxFaults

Fault(kind) ==
  /\ kind \in Environment
  /\ faults < MaxFaults
  /\ faults' = faults + 1

(***************************************************************************)
(* Jobs: the manager and its routes.                                        *)
(***************************************************************************)
\* POST /boot/releases: a new job has a row for every file.
RequestFetch(k) ==
  /\ Enqueue(k)
  /\ rows' = [rows EXCEPT ![k] = [f \in Files |-> "queued"]]
  /\ UNCHANGED <<override, boot, fetch, log, faults>>

\* DELETE /boot/releases/{tag}.
CancelFetch(k) ==
  /\ Cancel(k)
  /\ UNCHANGED <<override, boot, fetch, rows, log, faults>>

ChangeRepo(r) ==
  /\ r # override
  /\ override' = r
  /\ UNCHANGED <<pool, boot, fetch, rows, log, faults>>

\* The operator takes a file out of the boot directory.
RemoveFile(f) ==
  /\ Fault("remove")
  /\ boot[f] # NoRepo
  /\ boot' = [boot EXCEPT ![f] = NoRepo]
  /\ UNCHANGED <<pool, override, fetch, rows, log>>

Begun(tag, repo) ==
  [pc |-> "start", tag |-> tag, repo |-> repo, n |-> 1, before |-> boot]

\* A worker takes a job, reads the repository, logs the start (a failure to
\* log is swallowed) and hands fetch_release to a thread.
TakeFetch(w) ==
  /\ Take(w)
  /\ LET k == Head(queue)
         repo == IF override = NoRepo THEN OwnRepo ELSE override
     IN  /\ fetch' = [fetch EXCEPT ![w] = Begun(k, repo)]
         /\ log' = [log EXCEPT ![k].last = "started"]
  /\ UNCHANGED <<override, boot, rows, faults>>

\* The settings cannot be read: _run_one raises before its try.
TakeRaises(w) ==
  /\ Fault("settings")
  /\ Take(w)
  /\ fetch' = [fetch EXCEPT ![w] = [Begun(Head(queue), NoRepo) EXCEPT !.pc = "unset"]]
  /\ UNCHANGED <<override, boot, rows, log>>

SkipFetch(w) ==
  /\ SkipStale(w)
  /\ UNCHANGED <<override, boot, fetch, rows, log, faults>>

\* What _run_one writes; an exception after a cancel counts as cancelled.
Verdict(end, wanted) ==
  CASE end = "ok" -> "completed"
    [] end = "cancelled" \/ (end \in {"error", "crash"} /\ wanted) -> "cancelled"
    [] end \in {"error", "crash"} /\ ~wanted -> "failed"
    [] end = "unset" -> "running"

\* Mutant: the files a failed fetch did not come to are left queued.
RowAfterOnlyRunning(verdict, row) ==
  CASE verdict = "completed" -> "completed"
    [] verdict = "cancelled" /\ row \in Pending -> "cancelled"
    [] verdict = "failed" /\ row = "running" -> "failed"
    [] OTHER -> row

\* The verdict of a job on the row of one of its files.
RowAfter(verdict, row) ==
  CASE verdict = "completed" -> "completed"
    [] verdict = "cancelled" /\ row \in Pending -> "cancelled"
    [] verdict = "failed" /\ row = "running" -> "failed"
    [] verdict = "failed" /\ row = "queued" -> "cancelled"
    [] OTHER -> row

\* The answer of the thread: verdict, rows and event, with no await between.
\* The event may be impossible to write, after the verdict.
EndFetch(w) ==
  /\ worker[w] # NoKey
  /\ fetch[w].pc \in Ends
  /\ LET k == worker[w]
         verdict == Verdict(fetch[w].pc, asked[k])
     IN \E raised \in BOOLEAN :
          /\ EndJob(w, verdict, raised)
          /\ IF raised /\ verdict # "running" THEN Fault("log")
             ELSE UNCHANGED faults
          /\ rows' = [rows EXCEPT ![k] = [f \in Files |-> RowAfter(verdict, @[f])]]
          /\ log' = IF raised THEN log
                    ELSE [log EXCEPT ![k].last = verdict,
                                     ![k].outcome = IF verdict = "cancelled"
                                                    THEN @ ELSE verdict]
  /\ fetch' = [fetch EXCEPT ![w] = NoFetch]
  /\ UNCHANGED <<override, boot>>

StopManager ==
  /\ Stop
  /\ UNCHANGED <<override, boot, fetch, rows, log, faults>>

\* The worker leaves; the thread it waited for goes on.
LeaveFetch(w) ==
  /\ Leave(w)
  /\ UNCHANGED <<override, boot, fetch, rows, log, faults>>

\* A thread nobody waits for any more comes to its end.
EndAbandoned(w) ==
  /\ w \in gone
  /\ fetch[w].pc \in Ends
  /\ fetch' = [fetch EXCEPT ![w] = NoFetch]
  /\ UNCHANGED <<pool, override, boot, rows, log, faults>>

Drained == stopping /\ gone = Workers /\ \A t \in Fetchers : fetch[t].pc = "idle"

\* What a new process finds in the events: the last outcome of a tag, of those
\* that the 200 latest events still tell; nothing if they cannot be read.
Backfilled(known) ==
  [k \in Keys |-> IF k \in known THEN log[k].outcome ELSE "absent"]

\* The process ends when its threads have, or is killed.
Restart ==
  /\ \/ Drained /\ UNCHANGED faults
     \/ Fault("kill")
  /\ \E known \in SUBSET Keys : Start(Backfilled(known))
  /\ fetch' = [t \in Fetchers |-> NoFetch]
  /\ rows' = [k \in Keys |-> NoRows]
  /\ UNCHANGED <<override, boot, log>>

(***************************************************************************)
(* The page that fetches while its request waits.                           *)
(***************************************************************************)
\* It passes no repository, so the override is not looked at.
StartUiFetch(s, k) ==
  /\ ~stopping
  /\ fetch[s].pc = "idle"
  /\ fetch' = [fetch EXCEPT ![s] = Begun(k, OwnRepo)]
  /\ UNCHANGED <<pool, override, boot, rows, log, faults>>

\* Only a FetchError is caught and logged as a failure.
EndUiFetch(s) ==
  /\ fetch[s].pc \in Ends
  /\ log' = CASE fetch[s].pc = "ok" ->
                   [log EXCEPT ![fetch[s].tag].outcome = "completed"]
              [] fetch[s].pc = "error" ->
                   [log EXCEPT ![fetch[s].tag].outcome = "failed"]
              [] OTHER -> log
  /\ fetch' = [fetch EXCEPT ![s] = NoFetch]
  /\ UNCHANGED <<pool, override, boot, rows, faults>>

(***************************************************************************)
(* fetch_release in a thread.                                               *)
(***************************************************************************)
Goes(t, pc) == fetch' = [fetch EXCEPT ![t].pc = pc]

\* Only the manager passes a cancel callback.
Wanted(t) == t \in Workers /\ asked[fetch[t].tag]

\* on_artifact_start, then the request: a tag of another version has no such
\* file; a cancellation is noticed before the first chunk.
StartFile(t) ==
  /\ fetch[t].pc = "start"
  /\ LET k == fetch[t].tag IN
     /\ Goes(t, CASE k \notin Published -> "error"
                  [] k \in Published /\ Wanted(t) -> "cancelled"
                  [] OTHER -> "stream")
     /\ rows' = IF t \in Workers
                THEN [rows EXCEPT ![k] = [f \in Files |->
                        CASE f = fetch[t].n -> "running"
                          [] f < fetch[t].n /\ @[f] = "running" -> "completed"
                          [] OTHER -> @[f]]]
                ELSE rows
  /\ UNCHANGED <<pool, override, boot, log, faults>>

\* The last chunk has been read (a cancellation after the last look at it is
\* not noticed).
EndFile(t) ==
  /\ fetch[t].pc = "stream"
  /\ fetch' = IF fetch[t].n < NumFiles
              THEN [fetch EXCEPT ![t].pc = "start", ![t].n = @ + 1]
              ELSE [fetch EXCEPT ![t].pc = "verify"]
  /\ UNCHANGED <<pool, override, boot, rows, log, faults>>

\* Mutant: the cancellation is also looked at between two renames.
PollsWhileInstalling == {"stream", "install"}

\* Where fetch_release looks at the cancel callback.
Polls == {"stream"}

NoticeCancel(t) ==
  /\ fetch[t].pc \in Polls
  /\ Wanted(t)
  /\ Goes(t, "cancelled")
  /\ UNCHANGED <<pool, override, boot, rows, log, faults>>

FailFetch(t) ==
  /\ Fault("network")
  /\ fetch[t].pc \in {"stream", "verify"}
  /\ Goes(t, "error")
  /\ UNCHANGED <<pool, override, boot, rows, log>>

\* Both manifests match what was downloaded.
Verify(t) ==
  /\ fetch[t].pc = "verify"
  /\ fetch' = [fetch EXCEPT ![t].pc = "install", ![t].n = 1]
  /\ UNCHANGED <<pool, override, boot, rows, log, faults>>

\* One rename into the boot directory.
Install(t) ==
  /\ fetch[t].pc = "install"
  /\ boot' = [boot EXCEPT ![fetch[t].n] = fetch[t].repo]
  /\ fetch' = IF fetch[t].n < NumFiles THEN [fetch EXCEPT ![t].n = @ + 1]
              ELSE [fetch EXCEPT ![t].pc = "ok"]
  /\ UNCHANGED <<pool, override, rows, log, faults>>

InstallFails(t) ==
  /\ Fault("rename")
  /\ fetch[t].pc = "install"
  /\ Goes(t, "crash")
  /\ UNCHANGED <<pool, override, boot, rows, log>>

(***************************************************************************)
(* The specification.                                                       *)
(***************************************************************************)
FetchInit ==
  /\ Init
  /\ status = [k \in Keys |-> "absent"]
  /\ override = NoRepo
  /\ boot = [f \in Files |-> NoRepo]
  /\ fetch = [t \in Fetchers |-> NoFetch]
  /\ rows = [k \in Keys |-> NoRows]
  /\ log = [k \in Keys |-> [last |-> "none", outcome |-> "absent"]]
  /\ faults = 0

Manage(w) == TakeFetch(w) \/ TakeRaises(w) \/ SkipFetch(w) \/ EndFetch(w)

\* A thread goes on by itself.
Work(t) == StartFile(t) \/ EndFile(t) \/ NoticeCancel(t) \/ Verify(t) \/ Install(t)

FetchNext ==
  \/ \E k \in Keys : RequestFetch(k) \/ CancelFetch(k)
  \/ \E w \in Workers : Manage(w) \/ LeaveFetch(w) \/ EndAbandoned(w)
  \/ \E s \in Sessions : EndUiFetch(s) \/ \E k \in Keys : StartUiFetch(s, k)
  \/ \E t \in Fetchers : Work(t) \/ FailFetch(t) \/ InstallFails(t)
  \/ \E r \in Repos \cup {NoRepo} : ChangeRepo(r)
  \/ \E f \in Files : RemoveFile(f)
  \/ StopManager
  \/ Restart

FetchSpec == FetchInit /\ [][FetchNext]_vars

\* The event loop and the threads run; a read that gets no data times out.
FetchFairness ==
  /\ \A w \in Workers : WF_vars(Manage(w))
  /\ \A t \in Fetchers : WF_vars(Work(t))

FetchFairSpec == FetchSpec /\ FetchFairness

(***************************************************************************)
(* Properties.                                                              *)
(***************************************************************************)
\* A job whose fetch got as far as a file shows no active file once it has a
\* verdict, whatever failed ("Propagate the terminal verdict onto the
\* per-artifact rows", _run_one).
RowsFollowBody ==
  \A k \in Keys :
    status[k] \in Verdicts /\ (\E f \in Files : rows[k][f] # "queued")
      => \A f \in Files : rows[k][f] \notin Pending

\* The verdict of a job tells what became of the boot directory, when the
\* network, the settings or the event fail and whenever the job is cancelled:
\* "completed" means that every file of the release is installed, any other
\* verdict that the directory is as it was ("leaving the boot dir's existing
\* artifacts untouched", _release_mgr).  A rename that fails, a kill and others
\* who write to the directory break it, and are not in the run that checks it.
VerdictIsTrue ==
  [][\A w \in Workers :
       LET k == worker[w] IN
       worker[w] # NoKey /\ ~stopping /\ status'[k] \in Verdicts /\ worker'[w] = NoKey
         => IF status'[k] = "completed"
            THEN \A f \in Files : boot[f] = fetch[w].repo
            ELSE boot = fetch[w].before]_vars

\* While nothing is being installed, the boot directory holds one release or
\* none, also while a server that stops waits for its threads ("Atomic
\* install", fetch_release).
BootDirIsWhole ==
  (\A t \in Fetchers : fetch[t].pc # "install") =>
    \A f, g \in Files : boot[f] = boot[g]
=============================================================================
