-------------------------- MODULE ReleaseFetchProofs --------------------------
(***************************************************************************)
(* Proofs about ReleaseFetch, for any tags, files, repositories and faults. *)
(***************************************************************************)
EXTENDS ReleaseFetch, WorkerPoolProofs

(***************************************************************************)
(* Every step of a fetch is a step of the pool, or invisible to it.         *)
(***************************************************************************)
\* The steps that leave the pool alone.
Aside ==
  \/ \E w \in Workers : EndAbandoned(w)
  \/ \E s \in Sessions : EndUiFetch(s) \/ \E k \in Keys : StartUiFetch(s, k)
  \/ \E t \in Fetchers : Work(t) \/ FailFetch(t) \/ InstallFails(t)
  \/ \E r \in Repos \cup {NoRepo} : ChangeRepo(r)
  \/ \E f \in Files : RemoveFile(f)

\* What happens aside of the jobs leaves the pool as it is.
LEMMA AsideKeepsPool == Aside => UNCHANGED pool
BY DEF Aside, EndAbandoned, EndUiFetch, StartUiFetch, Work, StartFile, EndFile,
       NoticeCancel, Verify, Install, FailFetch, InstallFails, ChangeRepo,
       RemoveFile

\* The outcomes in the events are what a process may remember.
LEMMA OutcomesRemembered ==
  ASSUME FetchTypeOK
  PROVE  \A known : Backfilled(known) \in Lifecycle!Remembered
BY DEF FetchTypeOK, Backfilled, Lifecycle!Remembered

\* The verdict a thread's end leads to.
LEMMA VerdictTyped ==
  ASSUME NEW end \in Ends, NEW wanted \in BOOLEAN
  PROVE  /\ Verdict(end, wanted) \in Verdicts \cup {"running"}
         /\ Verdict(end, wanted) = "completed" <=> end = "ok"
         /\ Verdict(end, wanted) = "running" <=> end = "unset"
BY DEF Verdict, Ends, Verdicts

\* Every step of the fetches is a step of the pool or leaves it alone.
LEMMA PoolStep ==
  ASSUME FetchTypeOK, [FetchNext]_vars
  PROVE  [Next]_pool
<1>1. ASSUME NEW k \in Keys, RequestFetch(k) \/ CancelFetch(k) PROVE Next
  BY <1>1 DEF RequestFetch, CancelFetch, Next
<1>2. ASSUME NEW w \in Workers, EndFetch(w) PROVE Next
  <2> DEFINE verdict == Verdict(fetch[w].pc, asked[worker[w]])
  <2>1. asked[worker[w]] \in BOOLEAN
    BY <1>2 DEF FetchTypeOK, TypeOK, EndFetch
  <2>2. verdict \in Verdicts \cup {"running"}
    BY <1>2, <2>1, VerdictTyped DEF EndFetch
  <2>3. \E raised \in BOOLEAN : EndJob(w, verdict, raised)
    BY <1>2 DEF EndFetch
  <2> HIDE DEF verdict
  <2> QED BY <2>2, <2>3 DEF Next, Ended
<1>3. ASSUME NEW w \in Workers, TakeFetch(w) \/ TakeRaises(w) \/ SkipFetch(w)
      PROVE  Next
  BY <1>3 DEF TakeFetch, TakeRaises, SkipFetch, Next
<1>4. ASSUME NEW w \in Workers, LeaveFetch(w) PROVE Next
  BY <1>4 DEF LeaveFetch, Next
<1>5. CASE StopManager
  BY <1>5 DEF StopManager, Next
<1>6. CASE Restart
  BY <1>6, OutcomesRemembered DEF Restart, Next
<1>7. CASE Aside
  BY <1>7, AsideKeepsPool
<1>8. CASE UNCHANGED vars
  BY <1>8 DEF vars
<1> QED BY <1>1, <1>2, <1>3, <1>4, <1>5, <1>6, <1>7, <1>8 DEF FetchNext, Manage, Aside

(***************************************************************************)
(* Types.                                                                   *)
(***************************************************************************)
\* The record of a fetch that begins is typed.
LEMMA BegunTyped ==
  ASSUME FetchTypeOK, NEW tag \in Keys, NEW repo \in Repos \cup {NoRepo}
  PROVE  /\ Begun(tag, repo) \in Fetch
         /\ [Begun(tag, repo) EXCEPT !.pc = "unset"] \in Fetch
<1>1. /\ 1 \in Files /\ boot \in [Files -> Repos \cup {NoRepo}]
      /\ "start" \in Places /\ "unset" \in Places
  BY ReleaseFetchAssumption DEF FetchTypeOK, Places, Ends, Files
<1>2. \A place \in Places : [pc |-> place, tag |-> tag, repo |-> repo, n |-> 1, before |-> boot] \in Fetch
  BY <1>1 DEF Fetch
<1>3. [Begun(tag, repo) EXCEPT !.pc = "unset"]
        = [pc |-> "unset", tag |-> tag, repo |-> repo, n |-> 1, before |-> boot]
  BY DEF Begun
<1> QED BY <1>1, <1>2, <1>3 DEF Begun

\* The record of an idle thread is typed.
LEMMA NoFetchTyped == NoFetch \in Fetch
BY ReleaseFetchAssumption DEF NoFetch, Fetch, Places, Files

\* What a step may do to the record of a thread, by place and file.
LEMMA FetchMoves ==
  ASSUME NEW r \in Fetch, NEW pc \in Places, NEW n \in Files
  PROVE  /\ [r EXCEPT !.pc = pc] \in Fetch
         /\ [r EXCEPT !.pc = pc, !.n = n] \in Fetch
         /\ [r EXCEPT !.n = n] \in Fetch
BY DEF Fetch

\* Replacing the record of one thread by a typed one keeps the type.
LEMMA FetchTyped ==
  ASSUME FetchTypeOK, NEW t \in Fetchers
  PROVE  /\ fetch[t] \in Fetch
         /\ \A r \in Fetch : [fetch EXCEPT ![t] = r] \in [Fetchers -> Fetch]
BY DEF FetchTypeOK

\* While files are left, the next one is a file.
LEMMA NextFile ==
  ASSUME NEW n \in Files, n < NumFiles
  PROVE  n + 1 \in Files
BY ReleaseFetchAssumption DEF Files

\* A verdict leaves a row with a status.
LEMMA RowAfterTyped ==
  ASSUME NEW row \in Status, NEW verdict \in Verdicts \cup {"running"}
  PROVE  RowAfter(verdict, row) \in Status
BY DEF RowAfter, Status, Verdicts, Pending

\* The steps of a thread keep the types.
LEMMA WorkTyped ==
  ASSUME FetchTypeOK, NEW t \in Fetchers,
         Work(t) \/ FailFetch(t) \/ InstallFails(t)
  PROVE  /\ fetch' \in [Fetchers -> Fetch]
         /\ boot' \in [Files -> Repos \cup {NoRepo}]
         /\ rows' \in [Keys -> [Files -> Status]]
<1>1. fetch[t] \in Fetch /\ fetch[t].n \in Files /\ fetch[t].repo \in Repos \cup {NoRepo}
      /\ 1 \in Files /\ fetch \in [Fetchers -> Fetch]
      /\ boot \in [Files -> Repos \cup {NoRepo}] /\ rows \in [Keys -> [Files -> Status]]
  BY FetchTyped, ReleaseFetchAssumption DEF Fetch, Files, FetchTypeOK
<1>2. \A pc \in Places : [fetch EXCEPT ![t].pc = pc] \in [Fetchers -> Fetch]
  <2> TAKE pc \in Places
  <2>1. [fetch EXCEPT ![t].pc = pc] = [fetch EXCEPT ![t] = [fetch[t] EXCEPT !.pc = pc]]
    BY <1>1
  <2> QED BY <1>1, <2>1, FetchMoves, FetchTyped
<1>3. \A pc \in Places, n \in Files :
        [fetch EXCEPT ![t].pc = pc, ![t].n = n] \in [Fetchers -> Fetch]
  <2> TAKE pc \in Places, n \in Files
  <2>1. [fetch EXCEPT ![t].pc = pc, ![t].n = n]
          = [fetch EXCEPT ![t] = [fetch[t] EXCEPT !.pc = pc, !.n = n]]
    BY <1>1
  <2> QED BY <1>1, <2>1, FetchMoves, FetchTyped
<1>4. \A n \in Files : [fetch EXCEPT ![t].n = n] \in [Fetchers -> Fetch]
  <2> TAKE n \in Files
  <2>1. [fetch EXCEPT ![t].n = n] = [fetch EXCEPT ![t] = [fetch[t] EXCEPT !.n = n]]
    BY <1>1
  <2>2. [fetch[t] EXCEPT !.n = n] \in Fetch
    BY <1>1 DEF Fetch
  <2> QED BY <2>1, <2>2, FetchTyped
<1>5. CASE StartFile(t)
  <2>1. fetch' \in [Fetchers -> Fetch] /\ boot' = boot
    <3> DEFINE k == fetch[t].tag
               pc == CASE k \notin Published -> "error"
                       [] k \in Published /\ Wanted(t) -> "cancelled"
                       [] OTHER -> "stream"
    <3>1. pc \in Places
      BY DEF Places, Ends
    <3>2. fetch' = [fetch EXCEPT ![t].pc = pc] /\ boot' = boot
      BY <1>5 DEF StartFile, Goes
    <3> HIDE DEF pc
    <3> QED BY <1>2, <3>1, <3>2
  <2>2. rows' \in [Keys -> [Files -> Status]]
    BY <1>1, <1>5 DEF StartFile, Status, Pending, Verdicts
  <2> QED BY <1>1, <2>1, <2>2
<1>6. CASE EndFile(t)
  <2>1. CASE fetch[t].n < NumFiles
    <3>1. fetch[t].n + 1 \in Files
      BY <1>1, <2>1, NextFile
    <3>2. fetch' = [fetch EXCEPT ![t].pc = "start", ![t].n = fetch[t].n + 1]
      BY <1>1, <1>6, <2>1 DEF EndFile
    <3>3. "start" \in Places /\ boot' = boot /\ rows' = rows
      BY <1>6 DEF EndFile, Places
    <3> QED BY <1>1, <1>3, <3>1, <3>2, <3>3
  <2>2. CASE ~(fetch[t].n < NumFiles)
    BY <1>1, <1>2, <1>6, <2>2 DEF EndFile, Places
  <2> QED BY <2>1, <2>2
<1>7. CASE NoticeCancel(t) \/ FailFetch(t) \/ InstallFails(t)
  BY <1>1, <1>2, <1>7 DEF NoticeCancel, FailFetch, InstallFails, Goes, Places, Ends
<1>8. CASE Verify(t)
  BY <1>1, <1>3, <1>8 DEF Verify, Places
<1>9. CASE Install(t)
  <2>1. boot' \in [Files -> Repos \cup {NoRepo}] /\ rows' = rows
    BY <1>1, <1>9 DEF Install
  <2>2. CASE fetch[t].n < NumFiles
    <3>1. fetch[t].n + 1 \in Files
      BY <1>1, <2>2, NextFile
    <3>2. fetch' = [fetch EXCEPT ![t].n = fetch[t].n + 1]
      BY <1>1, <1>9, <2>2 DEF Install
    <3> QED BY <1>1, <1>4, <2>1, <3>1, <3>2
  <2>3. CASE ~(fetch[t].n < NumFiles)
    BY <1>1, <1>2, <1>9, <2>1, <2>3 DEF Install, Places, Ends
  <2> QED BY <2>2, <2>3
<1> QED BY <1>5, <1>6, <1>7, <1>8, <1>9 DEF Work

\* A fault is counted within its bound.
LEMMA FaultTyped ==
  ASSUME FetchTypeOK, NEW kind, Fault(kind)
  PROVE  faults' \in 0..MaxFaults
BY ReleaseFetchAssumption DEF FetchTypeOK, Fault

\* The types are kept by every step.
LEMMA FetchTypeStep ==
  ASSUME FetchTypeOK, [FetchNext]_vars
  PROVE  FetchTypeOK'
<1>1. TypeOK'
  BY PoolStep, TypeStep DEF FetchTypeOK
<1>2. /\ TypeOK /\ override \in Repos \cup {NoRepo}
      /\ boot \in [Files -> Repos \cup {NoRepo}] /\ fetch \in [Fetchers -> Fetch]
      /\ rows \in [Keys -> [Files -> Status]]
      /\ log \in [Keys -> [last : {"none", "started"} \cup Verdicts,
                           outcome : {"absent", "completed", "failed"}]]
      /\ faults \in 0..MaxFaults
  BY DEF FetchTypeOK
<1>3. ASSUME NEW k \in Keys, RequestFetch(k) PROVE FetchTypeOK'
  BY <1>1, <1>2, <1>3 DEF RequestFetch, FetchTypeOK, Status, Pending
<1>4. ASSUME NEW k \in Keys, CancelFetch(k) PROVE FetchTypeOK'
  BY <1>1, <1>2, <1>4 DEF CancelFetch, FetchTypeOK
<1>5. ASSUME NEW w \in Workers, TakeFetch(w) PROVE FetchTypeOK'
  <2>1. Head(queue) \in Keys /\ w \in Fetchers
    BY <1>2, <1>5, TakeKeeps DEF TakeFetch, Take, Waiting, TypeOK, Fetchers
  <2>2. (IF override = NoRepo THEN OwnRepo ELSE override) \in Repos \cup {NoRepo}
    BY <1>2, ReleaseFetchAssumption
  <2>3. Begun(Head(queue), IF override = NoRepo THEN OwnRepo ELSE override) \in Fetch
    BY <2>1, <2>2, BegunTyped
  <2>4. fetch' \in [Fetchers -> Fetch]
    BY <1>2, <1>5, <2>1, <2>3 DEF TakeFetch
  <2>5. log' \in [Keys -> [last : {"none", "started"} \cup Verdicts,
                          outcome : {"absent", "completed", "failed"}]]
    BY <1>2, <1>5, <2>1 DEF TakeFetch
  <2> QED BY <1>1, <1>2, <1>5, <2>4, <2>5 DEF TakeFetch, FetchTypeOK
<1>6. ASSUME NEW w \in Workers, TakeRaises(w) PROVE FetchTypeOK'
  <2>1. Head(queue) \in Keys /\ w \in Fetchers
    BY <1>2, <1>6, TakeKeeps DEF TakeRaises, Take, Waiting, TypeOK, Fetchers
  <2>2. fetch' \in [Fetchers -> Fetch]
    BY <1>2, <1>6, <2>1, BegunTyped DEF TakeRaises
  <2>3. faults' \in 0..MaxFaults
    BY <1>6, FaultTyped DEF TakeRaises
  <2> QED BY <1>1, <1>2, <1>6, <2>2, <2>3 DEF TakeRaises, FetchTypeOK
<1>7. ASSUME NEW w \in Workers, SkipFetch(w) \/ LeaveFetch(w) PROVE FetchTypeOK'
  BY <1>1, <1>2, <1>7 DEF SkipFetch, LeaveFetch, FetchTypeOK
<1>8. ASSUME NEW w \in Workers, EndFetch(w) PROVE FetchTypeOK'
  <2> DEFINE k == worker[w]
             verdict == Verdict(fetch[w].pc, asked[worker[w]])
  <2>1. k \in Keys /\ w \in Fetchers /\ asked[k] \in BOOLEAN
    BY <1>2, <1>8 DEF EndFetch, TypeOK, Fetchers
  <2>2. verdict \in Verdicts \cup {"running"}
    BY <1>8, <2>1, VerdictTyped DEF EndFetch
  <2>3. PICK raised \in BOOLEAN :
          /\ verdict = "running" => raised
          /\ IF raised /\ verdict # "running" THEN Fault("log")
             ELSE UNCHANGED faults
          /\ log' = IF raised THEN log
                    ELSE [log EXCEPT ![k].last = verdict,
                                     ![k].outcome = IF verdict = "cancelled"
                                                    THEN @ ELSE verdict]
    BY <1>8 DEF EndFetch, EndJob
  <2>4. rows' = [rows EXCEPT ![k] = [f \in Files |-> RowAfter(verdict, @[f])]]
    BY <1>8 DEF EndFetch
  <2>5. fetch' = [fetch EXCEPT ![w] = NoFetch] /\ UNCHANGED <<override, boot>>
    BY <1>8 DEF EndFetch
  <2> HIDE DEF k, verdict
  <2>6. faults' \in 0..MaxFaults
    BY <1>2, <2>3, FaultTyped
  <2>7. rows' \in [Keys -> [Files -> Status]]
    <3>1. rows' = [rows EXCEPT ![k] = [f \in Files |-> RowAfter(verdict, rows[k][f])]]
      BY <1>2, <2>1, <2>4
    <3>2. [f \in Files |-> RowAfter(verdict, rows[k][f])] \in [Files -> Status]
      BY <1>2, <2>1, <2>2, RowAfterTyped
    <3> QED BY <1>2, <3>1, <3>2
  <2>8. log' \in [Keys -> [last : {"none", "started"} \cup Verdicts,
                          outcome : {"absent", "completed", "failed"}]]
    BY <1>2, <2>1, <2>2, <2>3 DEF Verdicts
  <2>9. fetch' \in [Fetchers -> Fetch]
    BY <1>2, <2>1, <2>5, NoFetchTyped
  <2> QED BY <1>1, <1>2, <2>5, <2>6, <2>7, <2>8, <2>9 DEF FetchTypeOK
<1>9. CASE StopManager
  BY <1>1, <1>2, <1>9 DEF StopManager, FetchTypeOK
<1>10. ASSUME NEW w \in Workers, EndAbandoned(w) PROVE FetchTypeOK'
  BY <1>1, <1>2, <1>10, NoFetchTyped DEF EndAbandoned, FetchTypeOK
<1>11. CASE Restart
  <2>1. faults' \in 0..MaxFaults
    BY <1>2, <1>11, FaultTyped DEF Restart
  <2>2. NoRows \in [Files -> Status]
    BY DEF NoRows, Status
  <2> QED BY <1>1, <1>2, <1>11, <2>1, <2>2, NoFetchTyped DEF Restart, FetchTypeOK
<1>12. ASSUME NEW s \in Sessions, NEW k \in Keys, StartUiFetch(s, k)
       PROVE  FetchTypeOK'
  <2>1. Begun(k, OwnRepo) \in Fetch
    BY BegunTyped, ReleaseFetchAssumption
  <2> QED BY <1>1, <1>2, <1>12, <2>1 DEF StartUiFetch, FetchTypeOK
<1>13. ASSUME NEW s \in Sessions, EndUiFetch(s) PROVE FetchTypeOK'
  <2>1. log' \in [Keys -> [last : {"none", "started"} \cup Verdicts,
                          outcome : {"absent", "completed", "failed"}]]
    BY <1>2, <1>13 DEF EndUiFetch
  <2> QED BY <1>1, <1>2, <1>13, <2>1, NoFetchTyped DEF EndUiFetch, FetchTypeOK
<1>14. ASSUME NEW t \in Fetchers, Work(t) PROVE FetchTypeOK'
  <2>1. UNCHANGED <<override, log, faults>>
    BY <1>14 DEF Work, StartFile, EndFile, NoticeCancel, Verify, Install
  <2> QED BY <1>1, <1>2, <1>14, <2>1, WorkTyped DEF FetchTypeOK
<1>15. ASSUME NEW t \in Fetchers, FailFetch(t) \/ InstallFails(t) PROVE FetchTypeOK'
  <2>1. UNCHANGED <<override, log>> /\ faults' \in 0..MaxFaults
    BY <1>15, FaultTyped DEF FailFetch, InstallFails
  <2> QED BY <1>1, <1>2, <1>15, <2>1, WorkTyped DEF FetchTypeOK
<1>16. ASSUME NEW r \in Repos \cup {NoRepo}, ChangeRepo(r) PROVE FetchTypeOK'
  BY <1>1, <1>2, <1>16 DEF ChangeRepo, FetchTypeOK
<1>17. CASE UNCHANGED vars
  BY <1>1, <1>2, <1>17 DEF vars, FetchTypeOK
<1>18. ASSUME NEW f \in Files, RemoveFile(f) PROVE FetchTypeOK'
  BY <1>1, <1>2, <1>18, FaultTyped DEF RemoveFile, FetchTypeOK
<1> QED BY <1>3, <1>4, <1>5, <1>6, <1>7, <1>8, <1>9, <1>10, <1>11, <1>12, <1>13,
           <1>14, <1>15, <1>16, <1>17, <1>18 DEF FetchNext, Manage

\* Type correctness of the fetches.
THEOREM FetchTypeCorrect == FetchSpec => []FetchTypeOK
<1>1. FetchInit => FetchTypeOK
  <2> SUFFICES ASSUME FetchInit PROVE FetchTypeOK
    OBVIOUS
  <2>1. TypeOK
    BY RememberedTyped, EmptyQueue DEF FetchInit, Init, TypeOK
  <2>2. NoRows \in [Files -> Status]
    BY DEF NoRows, Status
  <2> QED BY <2>1, <2>2, NoFetchTyped, ReleaseFetchAssumption DEF FetchInit, FetchTypeOK
<1> QED BY <1>1, FetchTypeStep, PTL DEF FetchSpec

\* The manager of release fetches is a worker pool: whatever its threads, its
\* rows, its database and the netboot page do, the promises of WorkerPool and
\* of JobLifecycle hold of its jobs.
THEOREM FetchImplementsPool == FetchSpec => Spec
<1>1. FetchInit => Init
  BY DEF FetchInit
<1> QED BY <1>1, FetchTypeCorrect, PoolStep, PTL DEF FetchSpec, Spec

(***************************************************************************)
(* The boot directory, when one worker fetches (DEFAULT_MAX_PARALLEL = 1),  *)
(* nobody uses the page that fetches in its request or removes files, the   *)
(* server is not killed and renames do not fail.                            *)
(***************************************************************************)
Alone ==
  /\ Sessions = {}
  /\ \A v, w \in Workers : v = w
  /\ {"kill", "rename", "remove"} \cap Environment = {}

\* Nobody removes files.
LEMMA NoRemoval == ASSUME Alone PROVE ~\E f \in Files : RemoveFile(f)
BY DEF Alone, RemoveFile, Fault

\* The worker of a live fetch has not left, and a worker that can take a job
\* has no thread of an earlier one.
OneThread ==
  \A w \in Workers :
    /\ worker[w] # NoKey => w \notin gone
    /\ worker[w] = NoKey /\ w \notin gone => fetch[w].pc = "idle"

\* What is in the boot directory at each place of a fetch.
Honest ==
  \A w \in Workers :
    LET r == fetch[w] IN
      /\ r.pc # "crash"
      /\ r.pc = "install" =>
           \A f \in Files : boot[f] = IF f < r.n THEN r.repo ELSE r.before[f]
      /\ r.pc = "ok" => \A f \in Files : boot[f] = r.repo
      /\ r.pc \in {"start", "stream", "verify", "cancelled", "error", "unset"} =>
           boot = r.before
      /\ r.pc # "idle" => \A f, g \in Files : r.before[f] = r.before[g]

BootInv == FetchTypeOK /\ OneThread /\ Honest /\ BootDirIsWhole

\* A step of the pool keeps the workers and their threads in correspondence.
LEMMA OneThreadStep ==
  ASSUME Alone, BootInv, [FetchNext]_vars
  PROVE  OneThread'
<1> USE DEF OneThread, BootInv, Alone
<1>0. \A w \in Workers : w \in Fetchers
  BY DEF Fetchers
<1>t. fetch \in [Fetchers -> Fetch] /\ worker \in [Workers -> Keys \cup {NoKey}]
  BY DEF FetchTypeOK, TypeOK
<1>1. ASSUME NEW k \in Keys, RequestFetch(k) \/ CancelFetch(k) PROVE OneThread'
  BY <1>1 DEF RequestFetch, CancelFetch, Enqueue, Cancel
<1>2. ASSUME NEW w \in Workers, TakeFetch(w) \/ TakeRaises(w) PROVE OneThread'
  <2>1. w \notin gone /\ gone' = gone /\ worker'[w] # NoKey
    BY <1>t, <1>2, TakeKeeps, WorkerPoolAssumption
       DEF TakeFetch, TakeRaises, Take, Waiting, FetchTypeOK, TypeOK
  <2> QED BY <2>1
<1>3. ASSUME NEW w \in Workers, SkipFetch(w) PROVE OneThread'
  BY <1>3 DEF SkipFetch, SkipStale
<1>4. ASSUME NEW w \in Workers, EndFetch(w) PROVE OneThread'
  <2>1. fetch'[w].pc = "idle" /\ worker'[w] = NoKey
    BY <1>0, <1>t, <1>4 DEF EndFetch, EndJob, NoFetch
  <2> QED BY <2>1
<1>5. ASSUME NEW w \in Workers, LeaveFetch(w) PROVE OneThread'
  BY <1>t, <1>5 DEF LeaveFetch, Leave
<1>6. CASE StopManager
  BY <1>6 DEF StopManager, Stop
<1>7. CASE Restart
  BY <1>0, <1>7 DEF Restart, Start, NoFetch, Fault
<1>8. ASSUME NEW w \in Workers, EndAbandoned(w) PROVE OneThread'
  BY <1>0, <1>t, <1>8 DEF EndAbandoned, pool, NoFetch
<1>9. ASSUME NEW t \in Fetchers, Work(t) \/ FailFetch(t) \/ InstallFails(t)
      PROVE  OneThread'
  <2>1. fetch[t].pc # "idle" /\ t \in Workers /\ UNCHANGED pool
    BY <1>9 DEF Work, StartFile, EndFile, NoticeCancel, Verify, Install, FailFetch,
                InstallFails, Fetchers, Polls
  <2> QED BY <2>1 DEF pool
<1>10. ASSUME NEW r \in Repos \cup {NoRepo}, ChangeRepo(r) PROVE OneThread'
  BY <1>10 DEF ChangeRepo, pool
<1>11. CASE UNCHANGED vars
  BY <1>11 DEF vars, pool
<1> QED BY NoRemoval, <1>1, <1>2, <1>3, <1>4, <1>5, <1>6, <1>7, <1>8, <1>9, <1>10, <1>11
        DEF FetchNext, Manage

\* What the boot directory must be for a thread with record r.
HonestRecord(r) ==
  /\ r.pc # "crash"
  /\ r.pc = "install" =>
       \A f \in Files : boot[f] = IF f < r.n THEN r.repo ELSE r.before[f]
  /\ r.pc = "ok" => \A f \in Files : boot[f] = r.repo
  /\ r.pc \in {"start", "stream", "verify", "cancelled", "error", "unset"} =>
       boot = r.before
  /\ r.pc # "idle" => \A f, g \in Files : r.before[f] = r.before[g]

\* Every step of the only thread keeps its record honest.
LEMMA HonestStep ==
  ASSUME Alone, BootInv, [FetchNext]_vars
  PROVE  Honest'
<1> USE DEF BootInv, Alone
<1>0. \A w \in Workers : w \in Fetchers
  BY DEF Fetchers
<1>t. fetch \in [Fetchers -> Fetch] /\ boot \in [Files -> Repos \cup {NoRepo}]
  BY DEF FetchTypeOK
<1>u. ASSUME UNCHANGED <<boot, fetch>> PROVE Honest'
  BY <1>u DEF Honest
<1>v. ASSUME NEW w \in Workers, fetch'[w].pc = "idle" PROVE Honest'
  <2>1. \A v \in Workers : fetch'[v].pc = "idle"
    BY <1>v
  <2> QED BY <2>1 DEF Honest
<1>1. ASSUME NEW k \in Keys, RequestFetch(k) \/ CancelFetch(k) PROVE Honest'
  BY <1>1, <1>u DEF RequestFetch, CancelFetch
<1>2. ASSUME NEW w \in Workers, TakeFetch(w) \/ TakeRaises(w) PROVE Honest'
  <2>1. fetch[w].pc = "idle"
    BY <1>2 DEF OneThread, TakeFetch, TakeRaises, Take, Waiting
  <2>2. \A t \in Fetchers : fetch[t].pc = "idle"
    BY <2>1 DEF Fetchers
  <2>3. \A f, g \in Files : boot[f] = boot[g]
    BY <2>2 DEF BootDirIsWhole
  <2>4. boot' = boot /\ fetch'[w].before = boot /\ fetch'[w].pc \in {"start", "unset"}
    BY <1>0, <1>t, <1>2 DEF TakeFetch, TakeRaises, Begun
  <2>5. \A v \in Workers : fetch'[v] = fetch'[w]
    OBVIOUS
  <2> QED BY <2>3, <2>4, <2>5 DEF Honest
<1>3. ASSUME NEW w \in Workers, SkipFetch(w) \/ LeaveFetch(w) PROVE Honest'
  BY <1>3, <1>u DEF SkipFetch, LeaveFetch
<1>4. ASSUME NEW w \in Workers, EndFetch(w) \/ EndAbandoned(w) PROVE Honest'
  <2>1. fetch'[w].pc = "idle"
    BY <1>0, <1>t, <1>4 DEF EndFetch, EndAbandoned, NoFetch
  <2> QED BY <2>1, <1>v
<1>5. CASE StopManager
  BY <1>5, <1>u DEF StopManager
<1>6. CASE Restart
  BY <1>0, <1>6 DEF Restart, NoFetch, Honest
<1>7. ASSUME NEW t \in Fetchers, Work(t) \/ FailFetch(t) \/ InstallFails(t)
      PROVE  Honest'
  <2> DEFINE r == fetch[t]
  <2>1. t \in Workers /\ \A v \in Workers : v = t
    BY DEF Fetchers
  <2>2. r \in Fetch /\ r.n \in Files /\ r.n \in Nat /\ NumFiles \in Nat
    BY <1>t, ReleaseFetchAssumption DEF Fetch, Files
  <2>3. HonestRecord(r)
    BY <2>1 DEF Honest, HonestRecord
  <2>4. SUFFICES HonestRecord(fetch[t])'
    BY <2>1 DEF Honest, HonestRecord
  <2>5. ~InstallFails(t)
    BY DEF InstallFails, Fault
  <2>6. CASE StartFile(t)
    <3>1. boot' = boot /\ r.pc = "start"
      BY <2>6 DEF StartFile
    <3>2. \E pc \in {"error", "cancelled", "stream"} : fetch' = [fetch EXCEPT ![t].pc = pc]
      BY <2>6 DEF StartFile, Goes
    <3>3. fetch'[t].pc \in {"error", "cancelled", "stream"} /\ fetch'[t].before = r.before
      BY <1>t, <2>2, <3>2 DEF Fetch
    <3> QED BY <2>3, <3>1, <3>3 DEF HonestRecord
  <2>7. CASE EndFile(t)
    <3>1. boot' = boot /\ r.pc = "stream"
      BY <2>7 DEF EndFile
    <3>2. fetch'[t].pc \in {"start", "verify"} /\ fetch'[t].before = r.before
      BY <1>t, <2>2, <2>7 DEF Fetch, EndFile
    <3> QED BY <2>3, <3>1, <3>2 DEF HonestRecord
  <2>8. CASE NoticeCancel(t) \/ FailFetch(t)
    <3>1. boot' = boot /\ r.pc \in {"stream", "verify"}
      BY <2>8 DEF NoticeCancel, FailFetch, Polls
    <3>2. fetch'[t].pc \in {"cancelled", "error"} /\ fetch'[t].before = r.before
      BY <1>t, <2>2, <2>8 DEF Fetch, NoticeCancel, FailFetch, Goes
    <3> QED BY <2>3, <3>1, <3>2 DEF HonestRecord
  <2>9. CASE Verify(t)
    <3>1. boot' = boot /\ r.pc = "verify"
      BY <2>9 DEF Verify
    <3>2. fetch'[t].pc = "install" /\ fetch'[t].before = r.before /\ fetch'[t].n = 1
      BY <1>t, <2>2, <2>9 DEF Fetch, Verify
    <3>3. boot = r.before /\ \A f \in Files : ~(f < 1)
      BY <2>3, <3>1 DEF HonestRecord, Files
    <3> QED BY <2>3, <3>1, <3>2, <3>3 DEF HonestRecord
  <2>10. CASE Install(t)
    <3>1. r.pc = "install" /\ boot' = [boot EXCEPT ![r.n] = r.repo]
      BY <2>10 DEF Install
    <3>2. fetch'[t].before = r.before /\ fetch'[t].repo = r.repo
      BY <1>t, <2>2, <2>10 DEF Fetch, Install
    <3>3. \A f \in Files : boot'[f] = IF f < r.n + 1 THEN r.repo ELSE r.before[f]
      BY <1>t, <2>2, <2>3, <3>1 DEF HonestRecord, Files
    <3>4. CASE r.n < NumFiles
      <4>1. fetch'[t].pc = "install" /\ fetch'[t].n = r.n + 1
        BY <1>t, <2>2, <2>10, <3>1, <3>4 DEF Fetch, Install
      <4> QED BY <2>3, <3>1, <3>2, <3>3, <4>1 DEF HonestRecord
    <3>5. CASE ~(r.n < NumFiles)
      <4>1. fetch'[t].pc = "ok"
        BY <1>t, <2>2, <2>10, <3>5 DEF Fetch, Install
      <4>2. \A f \in Files : boot'[f] = r.repo
        BY <2>2, <3>3, <3>5 DEF Files
      <4> QED BY <2>3, <3>1, <3>2, <4>1, <4>2 DEF HonestRecord
    <3> QED BY <3>4, <3>5
  <2> QED BY <1>7, <2>5, <2>6, <2>7, <2>8, <2>9, <2>10 DEF Work
<1>8. ASSUME NEW r \in Repos \cup {NoRepo}, ChangeRepo(r) PROVE Honest'
  BY <1>8, <1>u DEF ChangeRepo
<1>9. CASE UNCHANGED vars
  BY <1>9, <1>u DEF vars
<1> QED BY NoRemoval, <1>1, <1>2, <1>3, <1>4, <1>5, <1>6, <1>7, <1>8, <1>9
        DEF FetchNext, Manage

\* An installing thread does not become idle, nor does the boot directory
\* change, in a step after which all threads are idle.
LEMMA InstallIsBusy ==
  ASSUME Alone, BootInv, [FetchNext]_vars,
         \A t \in Fetchers : fetch'[t].pc = "idle"
  PROVE  boot' = boot /\ \A t \in Fetchers : fetch[t].pc # "install"
<1> USE DEF BootInv
<1>t. fetch \in [Fetchers -> Fetch] /\ \A w \in Workers : w \in Fetchers
  BY DEF FetchTypeOK, Fetchers
<1>a. \A v, w \in Fetchers : v = w
  BY DEF Alone, Fetchers
<1>1. ASSUME NEW k \in Keys, RequestFetch(k) \/ CancelFetch(k)
      PROVE  UNCHANGED <<boot, fetch>>
  BY <1>1 DEF RequestFetch, CancelFetch
<1>2. ASSUME NEW w \in Workers, TakeFetch(w) \/ TakeRaises(w) PROVE FALSE
  BY <1>2, <1>t DEF TakeFetch, TakeRaises, Begun
<1>3. ASSUME NEW w \in Workers, SkipFetch(w) \/ LeaveFetch(w)
      PROVE  UNCHANGED <<boot, fetch>>
  BY <1>3 DEF SkipFetch, LeaveFetch
<1>4. ASSUME NEW w \in Workers, EndFetch(w) \/ EndAbandoned(w)
      PROVE  boot' = boot /\ fetch[w].pc # "install"
  BY <1>4 DEF EndFetch, EndAbandoned, Ends
<1>5. CASE Restart
  BY <1>5 DEF Restart, Drained, Fault, Alone
<1>6. ASSUME NEW t \in Fetchers, Work(t) \/ FailFetch(t) \/ InstallFails(t)
      PROVE  FALSE
  <2>1. fetch'[t].pc # "idle"
    <3>1. CASE StartFile(t)
      BY <1>t, <3>1 DEF StartFile, Goes, Fetch
    <3>2. CASE EndFile(t)
      BY <1>t, <3>2 DEF EndFile, Fetch
    <3>3. CASE NoticeCancel(t) \/ FailFetch(t) \/ InstallFails(t)
      BY <1>t, <3>3 DEF NoticeCancel, FailFetch, InstallFails, Goes, Fetch
    <3>4. CASE Verify(t) \/ Install(t)
      BY <1>t, <3>4 DEF Verify, Install, Fetch
    <3> QED BY <1>6, <3>1, <3>2, <3>3, <3>4 DEF Work
  <2> QED BY <2>1
<1>7. CASE StopManager \/ UNCHANGED vars \/ \E r \in Repos \cup {NoRepo} : ChangeRepo(r)
  BY <1>7 DEF StopManager, vars, ChangeRepo
<1>8. ASSUME UNCHANGED <<boot, fetch>>
      PROVE  boot' = boot /\ \A t \in Fetchers : fetch[t].pc # "install"
  BY <1>8
<1>9. ASSUME NEW w \in Workers, EndFetch(w) \/ EndAbandoned(w)
      PROVE  \A t \in Fetchers : fetch[t].pc # "install"
  BY <1>a, <1>t, <1>4, <1>9
<1>10. ~(\E s \in Sessions : EndUiFetch(s) \/ \E k \in Keys : StartUiFetch(s, k))
  BY DEF Alone
<1> QED BY NoRemoval, <1>1, <1>2, <1>3, <1>4, <1>5, <1>6, <1>7, <1>8, <1>9, <1>10
        DEF FetchNext, Manage

\* Every step keeps the boot directory whole: only the last rename of a thread
\* ends an installation.
LEMMA WholeStep ==
  ASSUME Alone, BootInv, [FetchNext]_vars
  PROVE  BootDirIsWhole'
<1>1. FetchTypeOK' /\ Honest'
  BY FetchTypeStep, HonestStep DEF BootInv
<1>2. SUFFICES ASSUME \A t \in Fetchers : fetch'[t].pc # "install"
               PROVE  \A f, g \in Files : boot'[f] = boot'[g]
  BY DEF BootDirIsWhole
<1>3. CASE boot' = boot /\ \A t \in Fetchers : fetch[t].pc # "install"
  BY <1>3 DEF BootInv, BootDirIsWhole
<1>4. CASE \E w \in Workers : fetch'[w].pc # "idle"
  <2>1. PICK w \in Workers : fetch'[w].pc # "idle"
    BY <1>4
  <2>2. fetch'[w].pc \notin {"idle", "install"} /\ fetch'[w].pc \in Places
    BY <1>1, <1>2, <2>1 DEF Fetchers, FetchTypeOK, Fetch
  <2>3. CASE fetch'[w].pc = "ok"
    BY <1>1, <2>3 DEF Honest
  <2>4. CASE fetch'[w].pc # "ok"
    BY <1>1, <2>2, <2>4 DEF Honest, Places, Ends
  <2> QED BY <2>3, <2>4
<1>5. CASE ~(\E w \in Workers : fetch'[w].pc # "idle")
  <2>1. \A t \in Fetchers : fetch'[t].pc = "idle"
    BY <1>5 DEF Alone, Fetchers
  <2>2. boot' = boot
    BY <2>1, InstallIsBusy
  <2>3. \A t \in Fetchers : fetch[t].pc # "install"
    BY <2>1, InstallIsBusy
  <2> QED BY <1>3, <2>2, <2>3
<1> QED BY <1>4, <1>5

\* The inductive invariant of the boot directory holds.
LEMMA BootInvHolds ==
  ASSUME Alone
  PROVE  FetchSpec => []BootInv
<1>1. FetchInit => OneThread /\ Honest /\ BootDirIsWhole
  BY DEF FetchInit, OneThread, Honest, BootDirIsWhole, NoFetch, Fetchers, Init
<1>2. OneThread /\ Honest /\ BootDirIsWhole /\ FetchTypeOK /\ [FetchNext]_vars
        => (OneThread /\ Honest /\ BootDirIsWhole)'
  BY OneThreadStep, HonestStep, WholeStep DEF BootInv
<1>3. BootInv <=> OneThread /\ Honest /\ BootDirIsWhole /\ FetchTypeOK
  BY DEF BootInv
<1> QED BY <1>1, <1>2, <1>3, FetchTypeCorrect, PTL DEF FetchSpec

\* With one worker, no kill, no failing rename and no removal, the boot
\* directory holds one release or none whenever nothing is being installed, also while a
\* server that stops waits for the thread its worker has left
\* (fetch_release, "Atomic install").
THEOREM BootDirIsWholeHolds ==
  ASSUME Alone
  PROVE  FetchSpec => []BootDirIsWhole
<1>1. BootInv => BootDirIsWhole
  BY DEF BootInv
<1> QED BY <1>1, BootInvHolds, PTL

\* With one worker, no kill, no failing rename and no removal, "completed" means that the
\* whole release is installed and any other verdict that the boot directory
\* is as it was, when the network, the settings or the event fail and whenever
\* the fetch is cancelled (_run_one, the except clause of _worker).
THEOREM VerdictIsTrueHolds ==
  ASSUME Alone
  PROVE  FetchSpec => VerdictIsTrue
<1> DEFINE Told ==
      \A w \in Workers :
        LET k == worker[w] IN
        worker[w] # NoKey /\ ~stopping /\ status'[k] \in Verdicts /\ worker'[w] = NoKey
          => IF status'[k] = "completed"
             THEN \A f \in Files : boot[f] = fetch[w].repo
             ELSE boot = fetch[w].before
<1>1. BootInv /\ [FetchNext]_vars => [Told]_vars
  <2> SUFFICES ASSUME BootInv, [FetchNext]_vars, NEW w \in Workers,
                      worker[w] # NoKey, ~stopping,
                      status'[worker[w]] \in Verdicts, worker'[w] = NoKey
               PROVE  IF status'[worker[w]] = "completed"
                      THEN \A f \in Files : boot[f] = fetch[w].repo
                      ELSE boot = fetch[w].before
    OBVIOUS
  <2>1. EndFetch(w)
    <3>1. worker' # worker
      OBVIOUS
    <3>2. ASSUME NEW k \in Keys, RequestFetch(k) \/ CancelFetch(k) PROVE FALSE
      BY <3>1, <3>2 DEF RequestFetch, CancelFetch, Enqueue, Cancel
    <3>3. ASSUME NEW v \in Workers,
                 \/ TakeFetch(v) \/ TakeRaises(v) \/ SkipFetch(v) \/ LeaveFetch(v)
                 \/ EndAbandoned(v)
          PROVE  FALSE
      BY <3>1, <3>3
         DEF Alone, TakeFetch, TakeRaises, SkipFetch, LeaveFetch, EndAbandoned, Take,
             Waiting, SkipStale, Leave, pool
    <3>4. ASSUME StopManager \/ Restart PROVE FALSE
      BY <3>1, <3>4 DEF StopManager, Stop, Restart, Drained, Fault, Alone
    <3>5. ~(Aside \/ UNCHANGED vars)
      BY <3>1, AsideKeepsPool DEF vars, pool
    <3> QED BY <3>2, <3>3, <3>4, <3>5 DEF FetchNext, Manage, Aside, Alone
  <2> DEFINE k == worker[w]
             verdict == Verdict(fetch[w].pc, asked[worker[w]])
  <2>2. k \in Keys /\ asked[k] \in BOOLEAN /\ status \in [Keys -> Status]
        /\ fetch[w].pc \in Ends
    BY <2>1 DEF BootInv, FetchTypeOK, TypeOK, EndFetch
  <2>3. verdict \in Verdicts \cup {"running"} /\ (verdict = "completed" <=> fetch[w].pc = "ok")
    BY <2>2, VerdictTyped
  <2>4. status'[k] = "completed" <=> verdict = "completed"
    <3>1. \E raised \in BOOLEAN : EndJob(w, verdict, raised)
      BY <2>1 DEF EndFetch
    <3> HIDE DEF verdict
    <3> QED BY <2>2, <3>1 DEF EndJob, SafetyNet
  <2>5. CASE fetch[w].pc = "ok"
    BY <2>3, <2>4, <2>5 DEF BootInv, Honest
  <2>6. CASE fetch[w].pc # "ok"
    BY <2>2, <2>3, <2>4, <2>6 DEF BootInv, Honest, Ends
  <2> QED BY <2>5, <2>6
<1>2. VerdictIsTrue <=> [][Told]_vars
  BY DEF VerdictIsTrue
<1> QED BY <1>1, <1>2, BootInvHolds, PTL DEF FetchSpec

(***************************************************************************)
(* The rows of the files follow the job, in every environment.              *)
(***************************************************************************)
\* A thread of the manager works for a job that is running: the one its worker
\* awaits, or one that a shutdown abandoned.
OwnJob ==
  \A w \in Workers :
    /\ w \in gone => stopping /\ worker[w] = NoKey
    /\ worker[w] # NoKey => fetch[w].pc # "idle" /\ fetch[w].tag = worker[w]
    /\ fetch[w].pc # "idle" =>
         /\ fetch[w].tag \in Keys
         /\ status[fetch[w].tag] = "running"
         /\ worker[w] = fetch[w].tag \/ w \in gone

\* The rows of a job whose fetch never came to a file.
Untouched(k) == \A f \in Files : rows[k][f] = "queued"

\* No row of a job shows an active file.
Settled(k) == \A f \in Files : rows[k][f] \notin Pending

\* The rows are queued until a thread comes to a file, and settled after.
RowsAgree ==
  /\ \A k \in Keys :
       /\ status[k] = "queued" => Untouched(k)
       /\ status[k] \in Verdicts => Untouched(k) \/ Settled(k)
  /\ ~stopping => \A w \in Workers : fetch[w].pc = "unset" => Untouched(fetch[w].tag)

RowInv == FetchTypeOK /\ RunningHasOneWorker /\ OwnJob /\ RowsAgree

\* Every step keeps threads and jobs in correspondence.
LEMMA OwnJobStep ==
  ASSUME RowInv, [FetchNext]_vars
  PROVE  OwnJob'
<1> USE DEF OwnJob, RowInv
<1>w. \A w \in Workers : w \in Fetchers
  BY DEF Fetchers
<1>s. \A s \in Sessions : s \notin Workers
  BY ReleaseFetchAssumption
<1>t. /\ fetch \in [Fetchers -> Fetch] /\ worker \in [Workers -> Keys \cup {NoKey}]
      /\ status \in [Keys -> Status] /\ NoKey \notin Keys
  BY WorkerPoolAssumption DEF FetchTypeOK, TypeOK
<1>1. ASSUME NEW k \in Keys, RequestFetch(k) PROVE OwnJob'
  BY <1>t, <1>1 DEF RequestFetch, Enqueue, Deduplicated
<1>2. ASSUME NEW k \in Keys, CancelFetch(k) PROVE OwnJob'
  BY <1>t, <1>2 DEF CancelFetch, Cancel
<1>3. ASSUME NEW w \in Workers, TakeFetch(w) \/ TakeRaises(w) PROVE OwnJob'
  <2>1. Head(queue) \in Keys /\ w \notin gone
    BY <1>3, TakeKeeps DEF TakeFetch, TakeRaises, Take, Waiting, FetchTypeOK, TypeOK
  <2>2. /\ status' = [status EXCEPT ![Head(queue)] = "running"]
        /\ worker' = [worker EXCEPT ![w] = Head(queue)]
        /\ gone' = gone /\ stopping' = stopping
    BY <1>3 DEF TakeFetch, TakeRaises, Take
  <2>3. /\ fetch'[w].pc # "idle" /\ fetch'[w].tag = Head(queue)
        /\ \A v \in Workers \ {w} : fetch'[v] = fetch[v]
    BY <1>w, <1>t, <1>3 DEF TakeFetch, TakeRaises, Begun
  <2> QED BY <1>t, <2>1, <2>2, <2>3
<1>4. ASSUME NEW w \in Workers, SkipFetch(w) PROVE OwnJob'
  BY <1>4 DEF SkipFetch, SkipStale
<1>5. ASSUME NEW w \in Workers, EndFetch(w) PROVE OwnJob'
  <2>1. worker[w] \in Keys /\ ~stopping
    BY <1>t, <1>5 DEF EndFetch, EndJob
  <2>2. /\ \A k \in Keys \ {worker[w]} : status'[k] = status[k]
        /\ worker' = [worker EXCEPT ![w] = NoKey]
        /\ gone' = gone /\ stopping' = stopping
    BY <1>5 DEF EndFetch, EndJob
  <2>3. /\ fetch'[w].pc = "idle"
        /\ \A v \in Workers \ {w} : fetch'[v] = fetch[v]
    BY <1>w, <1>t, <1>5 DEF EndFetch, NoFetch
  <2>4. \A v \in Workers \ {w} : worker[v] # worker[w]
    BY <2>1 DEF RunningHasOneWorker
  <2>5. \A v \in Workers \ {w} : fetch[v].pc # "idle" => fetch[v].tag # worker[w]
    BY <2>1, <2>4
  <2> QED BY <1>t, <2>1, <2>2, <2>3, <2>5
<1>6. ASSUME NEW w \in Workers, LeaveFetch(w) PROVE OwnJob'
  BY <1>t, <1>6 DEF LeaveFetch, Leave
<1>7. CASE StopManager
  BY <1>t, <1>7 DEF StopManager, Stop
<1>8. CASE Restart
  BY <1>w, <1>8 DEF Restart, Start, NoFetch
<1>9. ASSUME NEW w \in Workers, EndAbandoned(w) PROVE OwnJob'
  BY <1>w, <1>t, <1>9 DEF EndAbandoned, pool, NoFetch
<1>10. ASSUME NEW s \in Sessions,
              EndUiFetch(s) \/ \E k \in Keys : StartUiFetch(s, k)
       PROVE  OwnJob'
  <2>1. \A w \in Workers : fetch'[w] = fetch[w]
    BY <1>s, <1>w, <1>t, <1>10 DEF EndUiFetch, StartUiFetch
  <2> QED BY <1>10, <2>1 DEF EndUiFetch, StartUiFetch, pool
<1>11. ASSUME NEW t \in Fetchers, Work(t) \/ FailFetch(t) \/ InstallFails(t)
       PROVE  OwnJob'
  <2>1. UNCHANGED pool
    BY <1>11, AsideKeepsPool DEF Aside
  <2>2. /\ fetch[t].pc # "idle"
        /\ \A u \in Fetchers : /\ fetch'[u].tag = fetch[u].tag
                               /\ u # t => fetch'[u].pc = fetch[u].pc
    BY <1>t, <1>11
       DEF Work, StartFile, EndFile, NoticeCancel, Verify, Install, FailFetch,
           InstallFails, Goes, Polls, Fetch
  <2>3. fetch'[t].pc # "idle"
    BY <1>t, <1>11
       DEF Work, StartFile, EndFile, NoticeCancel, Verify, Install, FailFetch,
           InstallFails, Goes, Polls, Fetch
  <2> QED BY <1>w, <2>1, <2>2, <2>3 DEF pool
<1>12. ASSUME NEW r \in Repos \cup {NoRepo}, ChangeRepo(r) PROVE OwnJob'
  BY <1>12 DEF ChangeRepo, pool
<1>13. ASSUME NEW f \in Files, RemoveFile(f) PROVE OwnJob'
  BY <1>13 DEF RemoveFile, pool
<1>14. CASE UNCHANGED vars
  BY <1>14 DEF vars, pool
<1> QED BY <1>1, <1>2, <1>3, <1>4, <1>5, <1>6, <1>7, <1>8, <1>9, <1>10, <1>11, <1>12,
           <1>13, <1>14 DEF FetchNext, Manage

\* A verdict that the body has written settles every row.
LEMMA VerdictSettles ==
  ASSUME NEW row \in Status, NEW verdict \in Verdicts
  PROVE  RowAfter(verdict, row) \notin Pending
BY DEF RowAfter, Status, Verdicts, Pending

\* Every step keeps rows and jobs in agreement.
LEMMA RowsStep ==
  ASSUME RowInv, [FetchNext]_vars
  PROVE  RowsAgree'
<1> USE DEF RowsAgree, RowInv, Untouched, Settled
<1>w. \A w \in Workers : w \in Fetchers
  BY DEF Fetchers
<1>s. \A s \in Sessions : s \notin Workers
  BY ReleaseFetchAssumption
<1>t. /\ fetch \in [Fetchers -> Fetch] /\ worker \in [Workers -> Keys \cup {NoKey}]
      /\ status \in [Keys -> Status] /\ NoKey \notin Keys
      /\ rows \in [Keys -> [Files -> Status]]
  BY WorkerPoolAssumption DEF FetchTypeOK, TypeOK
<1>u. ~stopping => \A v, w \in Workers :
        /\ fetch[v].pc # "idle" => fetch[v].tag = worker[v]
        /\ fetch[v].pc # "idle" /\ fetch[w].pc # "idle" /\ fetch[v].tag = fetch[w].tag
             => v = w
  BY DEF OwnJob, RunningHasOneWorker
<1>1. ASSUME NEW k \in Keys, RequestFetch(k) PROVE RowsAgree'
  <2>1. /\ status' = [status EXCEPT ![k] = "queued"]
        /\ rows' = [rows EXCEPT ![k] = [f \in Files |-> "queued"]]
        /\ fetch' = fetch /\ stopping' = stopping
    BY <1>1 DEF RequestFetch, Enqueue
  <2>2. \A w \in Workers : fetch[w].pc = "unset" => fetch[w].tag \in Keys
    BY DEF OwnJob
  <2> QED BY <1>t, <2>1, <2>2 DEF Verdicts
<1>2. ASSUME NEW k \in Keys, CancelFetch(k) PROVE RowsAgree'
  BY <1>t, <1>2 DEF CancelFetch, Cancel, Verdicts, Pending
<1>3. ASSUME NEW w \in Workers, TakeFetch(w) \/ TakeRaises(w) PROVE RowsAgree'
  <2>1. Head(queue) \in Keys /\ status[Head(queue)] = "queued"
    BY <1>3, TakeKeeps DEF TakeFetch, TakeRaises, Take, Waiting, FetchTypeOK, TypeOK
  <2>2. /\ status' = [status EXCEPT ![Head(queue)] = "running"]
        /\ rows' = rows /\ stopping' = stopping
    BY <1>3 DEF TakeFetch, TakeRaises, Take
  <2>3. /\ fetch'[w].tag = Head(queue)
        /\ \A v \in Workers \ {w} : fetch'[v] = fetch[v]
    BY <1>w, <1>t, <1>3 DEF TakeFetch, TakeRaises, Begun
  <2> QED BY <1>t, <2>1, <2>2, <2>3 DEF Verdicts
<1>4. ASSUME NEW w \in Workers, SkipFetch(w) PROVE RowsAgree'
  BY <1>4 DEF SkipFetch, SkipStale
<1>5. ASSUME NEW w \in Workers, EndFetch(w) PROVE RowsAgree'
  <2>1. /\ worker[w] \in Keys /\ ~stopping /\ fetch[w].pc \in Ends
        /\ asked[worker[w]] \in BOOLEAN
    BY <1>t, <1>5 DEF EndFetch, EndJob, FetchTypeOK, TypeOK
  <2>2. PICK verdict \in Verdicts \cup {"running"} :
          /\ verdict = Verdict(fetch[w].pc, asked[worker[w]])
          /\ verdict = "running" => fetch[w].pc = "unset"
    BY <2>1, VerdictTyped
  <2>3. /\ rows' = [rows EXCEPT ![worker[w]] =
                      [f \in Files |-> RowAfter(verdict, rows[worker[w]][f])]]
        /\ \A k \in Keys \ {worker[w]} : status'[k] = status[k]
        /\ stopping' = stopping
    BY <1>t, <1>5, <2>1, <2>2 DEF EndFetch, EndJob
  <2>4. /\ fetch'[w].pc = "idle"
        /\ \A v \in Workers \ {w} : fetch'[v] = fetch[v]
    BY <1>w, <1>t, <1>5 DEF EndFetch, NoFetch
  <2>5. fetch[w].pc # "idle" /\ fetch[w].tag = worker[w]
    BY <1>t, <2>1 DEF OwnJob, Ends
  <2>6. \A v \in Workers \ {w} :
          fetch[v].pc = "unset" => fetch[v].tag \in Keys /\ fetch[v].tag # worker[w]
    BY <1>u, <2>1, <2>5 DEF OwnJob
  <2>7. \A k \in Keys \ {worker[w]} : rows'[k] = rows[k]
    BY <1>t, <2>3
  <2>8. status'[worker[w]] # "queued"
    BY <1>t, <1>5, <2>1, <2>2 DEF EndFetch, EndJob, SafetyNet, Verdicts
  <2>9. \/ \A f \in Files : rows'[worker[w]][f] = "queued"
        \/ \A f \in Files : rows'[worker[w]][f] \notin Pending
    <3>1. CASE verdict = "running"
      <4>1. Untouched(worker[w])
        BY <2>1, <2>2, <2>5, <3>1
      <4>2. \A f \in Files : rows'[worker[w]][f] = RowAfter("running", "queued")
        BY <1>t, <2>1, <2>3, <3>1, <4>1
      <4>3. RowAfter("running", "queued") = "queued"
        BY DEF RowAfter
      <4> QED BY <4>2, <4>3
    <3>2. CASE verdict \in Verdicts
      <4>1. \A f \in Files : rows'[worker[w]][f] = RowAfter(verdict, rows[worker[w]][f])
        BY <1>t, <2>1, <2>3
      <4>2. \A f \in Files : rows[worker[w]][f] \in Status
        BY <1>t, <2>1
      <4> QED BY <3>2, <4>1, <4>2, VerdictSettles
    <3> QED BY <3>1, <3>2
  <2> QED BY <2>1, <2>3, <2>4, <2>6, <2>7, <2>8, <2>9
<1>6. ASSUME NEW w \in Workers, LeaveFetch(w) PROVE RowsAgree'
  BY <1>6 DEF LeaveFetch, Leave
<1>7. CASE StopManager
  BY <1>t, <1>7 DEF StopManager, Stop, Verdicts
<1>8. CASE Restart
  <2>1. /\ \A k \in Keys : status'[k] # "queued"
        /\ \A k \in Keys, f \in Files : rows'[k][f] = "absent"
        /\ \A w \in Workers : fetch'[w].pc = "idle"
    BY <1>w, <1>8, OutcomesRemembered
       DEF Restart, Start, NoFetch, NoRows, Lifecycle!Remembered
  <2> QED BY <2>1 DEF Pending
<1>9. ASSUME NEW w \in Workers, EndAbandoned(w) PROVE RowsAgree'
  BY <1>w, <1>t, <1>9 DEF EndAbandoned, pool, NoFetch
<1>10. ASSUME NEW s \in Sessions,
              EndUiFetch(s) \/ \E k \in Keys : StartUiFetch(s, k)
       PROVE  RowsAgree'
  <2>1. \A w \in Workers : fetch'[w] = fetch[w]
    BY <1>s, <1>w, <1>t, <1>10 DEF EndUiFetch, StartUiFetch
  <2> QED BY <1>10, <2>1 DEF EndUiFetch, StartUiFetch, pool
<1>11. ASSUME NEW t \in Fetchers, Work(t) \/ FailFetch(t) \/ InstallFails(t)
       PROVE  RowsAgree'
  <2>1. UNCHANGED <<status, stopping>>
    BY <1>11, AsideKeepsPool DEF Aside, pool
  <2>2. /\ fetch[t].pc \notin {"idle", "unset"} /\ fetch'[t].pc # "unset"
        /\ \A u \in Fetchers \ {t} : fetch'[u] = fetch[u]
    BY <1>t, <1>11
       DEF Work, StartFile, EndFile, NoticeCancel, Verify, Install, FailFetch,
           InstallFails, Goes, Polls, Fetch
  <2>3. CASE t \in Workers /\ StartFile(t)
    <3>1. /\ fetch[t].tag \in Keys /\ status[fetch[t].tag] = "running"
      BY <2>2, <2>3 DEF OwnJob
    <3>2. \A k \in Keys \ {fetch[t].tag} : rows'[k] = rows[k]
      BY <1>t, <2>3, <3>1 DEF StartFile
    <3>3. \A w \in Workers \ {t} : ~stopping /\ fetch[w].pc = "unset" =>
            fetch[w].tag \in Keys /\ fetch[w].tag # fetch[t].tag
      BY <1>u, <2>2, <2>3 DEF OwnJob
    <3> QED BY <1>w, <2>1, <2>2, <3>1, <3>2, <3>3 DEF Verdicts
  <2>4. CASE ~(t \in Workers /\ StartFile(t))
    <3>1. rows' = rows
      BY <1>11, <2>4
         DEF Work, StartFile, EndFile, NoticeCancel, Verify, Install, FailFetch,
             InstallFails
    <3> QED BY <1>w, <2>1, <2>2, <3>1
  <2> QED BY <2>3, <2>4
<1>12. ASSUME NEW r \in Repos \cup {NoRepo}, ChangeRepo(r) PROVE RowsAgree'
  BY <1>12 DEF ChangeRepo, pool
<1>13. ASSUME NEW f \in Files, RemoveFile(f) PROVE RowsAgree'
  BY <1>13 DEF RemoveFile, pool
<1>14. CASE UNCHANGED vars
  BY <1>14 DEF vars, pool
<1> QED BY <1>1, <1>2, <1>3, <1>4, <1>5, <1>6, <1>7, <1>8, <1>9, <1>10, <1>11, <1>12,
           <1>13, <1>14 DEF FetchNext, Manage

\* In every environment and for any number of threads and pages, a job whose
\* fetch came to a file shows no active file once it has a verdict (_run_one).
THEOREM RowsFollowBodyHolds == FetchSpec => []RowsFollowBody
<1>1. FetchInit => OwnJob /\ RowsAgree
  BY WorkerPoolAssumption
     DEF FetchInit, Init, OwnJob, RowsAgree, Untouched, Settled, NoFetch, NoRows, Fetchers,
         Verdicts
<1>2. FetchTypeOK /\ RunningHasOneWorker /\ OwnJob /\ RowsAgree /\ [FetchNext]_vars
        => (OwnJob /\ RowsAgree)'
  BY OwnJobStep, RowsStep DEF RowInv
<1>3. RowsAgree => RowsFollowBody
  BY DEF RowsAgree, RowsFollowBody, Untouched, Settled
<1> QED BY <1>1, <1>2, <1>3, FetchTypeCorrect, FetchImplementsPool,
           RunningHasOneWorkerHolds, PTL DEF FetchSpec
=============================================================================
