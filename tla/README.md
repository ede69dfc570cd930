# A formal model of bty

bty puts disk images on machines.  `bty-web` is a FastAPI server that answers
PXE-booting boxes, keeps one row per MAC address in a SQLite database and runs
background jobs; `bty` is the wizard and flasher that runs in the live
environment a box boots into.  This directory holds TLA+ modules translated from
that code, the configurations that TLC checks them with, and theorems about them
that TLAPS proves.

    tlc -config netboot_once.cfg MCNetboot      # check an instance
    tlapm NetbootProofs.tla                     # check the proofs of a module

`PROJECT.json` lists every run with the module it belongs to, and for every
definition the source lines it stands for.

## 1. The system and its parts

| Part | Source | State it keeps | Operations |
|---|---|---|---|
| Netboot handlers | `web/_app.py` | `machines` row: policy, `saw_flasher_boot`, `last_flashed_at`, `known_disks_at` | `GET /pxe/{mac}`, `/plan`, `POST /status`, `/inventory`, `GET /boot/{name}?mac=`, PUT, DELETE |
| Live env | `tui/_app.py` | where the box is, its plan, its disk | fetch plan, flash, post done / failed / inventory, reboot |
| UI forms | `web/_ui.py` | none of its own | save a machine, save settings, fetch a release in the request |
| Export and import | `web/_portability.py` | none of its own | write a bundle, read one into `machines` |
| Withcache catalog | `web/_withcache_catalog.py` | entries in memory, the URL | refresh, rebind |
| Ramboot exports | `web/_ramboot.py` | none (nbdmux has it) | status, warm |
| Worker pool | `web/_jobs.py` | `_states`, `_queue`, `_workers`, `_stopping` | start, enqueue, cancel, worker loop, stop |
| Release fetch | `web/_release_mgr.py`, `_releases.py`, `_routes_releases.py` | the boot directory, per-file rows | request, cancel, fetch, verify, install, backfill |
| Backups | `web/_backup.py`, `_routes_backups.py` | bundles on disk, last run | enqueue, export, prune, delete, scheduler tick |
| Event bus | `web/_events.py` | subscribers and their queues | publish, subscribe, close |
| Events log | `web/_events_log.py` | append-only table | record, list |
| State database | `web/_db.py` | `state.db` and its rotated copies | open, create, rotate on a version change |
| Settings | `web/_settings_store.py` | key/value table | get with precedence, set |
| Configuration | `web/_config.py`, the editor in `_ui.py` | TOML files, the active configuration | load, save a key, clear a key |
| Flash pipeline | `flash.py` | subprocesses of a flash | plan, re-probe, write, verify, cancel |
| Images, catalogs, disks | `images.py`, `catalog.py`, `disks.py` | none | parse, canonicalise, probe |
| Wizard | `tui/_app.py` | the current screen and its choices | one screen per step |
| Deployment tool | `deploy.py` | the deploy directory, units, containers | init, deploy, upgrade, purge |
| Table state, helpers, auth | `web/_table_state.py`, ... | none | paging, formatting, sessions |

How they meet:

* A box and the server exchange HTTP requests that may be repeated, lost or
  late.  The server's only memory of the box is its row, and every handler reads
  and writes it in SQLite transactions that interleave with each other and with
  the operator's edits.  FastAPI runs synchronous handlers in a thread pool.
* The managers run on the event loop: their critical sections await nothing, so
  they do not interleave with each other.  The blocking body of a job runs in a
  thread, reports through callbacks and is cancelled through a flag.
* `_ui.py` also reaches into what the managers own: `POST
  /ui/netboot/fetch-release` runs the fetch in its own request thread.
* Outcomes survive a restart only through the events log, from which the release
  manager restores its jobs.
* Handlers tell the pages of a change through the event bus: what they render in
  their thread reaches the event loop as a callback, and the pages through queues.
* The wizard runs a flash in a thread, which starts processes and pipes; a second
  thread, the watchdog, and the terminal's Ctrl+C can end them.
* `bty-lab` replaces the files, units and containers around a server whose
  database outlives them, and which decides by its own version what to do with it.

What makes each part correct:

* Netboot: a box is flashed as often as its policy says, with an image and a
  disk that were saved together; it boots a disk only when that disk has been
  written completely; crashes and lost messages delay this and do not break it.
* Worker pool: no job is lost, run twice at a time, or left running without a
  worker; every job comes to exactly one verdict.
* Release fetch: the boot directory holds one release and a verdict says the
  truth about it.
* Backups: a verdict tells what is on disk, retention deletes no bundle that is
  the last one to restore from, a due backup happens.
* Flash pipeline and wizard: only the disk that was picked is written, "success"
  means that the image is on it, Ctrl+C ends a flash.
* Event bus: whatever a page has missed, the next change brings it up to date,
  and an open page holds up a shutdown for the ten seconds of grace and no longer.
* State database: no rotation loses a save, a server has tables of its own version.
* Deployment tool: a command that reports success has its version running; what was
  cut off can be forced or purged, unless a purge itself failed to stop it.
* Configuration: the documented order of the layers, a save that changes one key
  and wipes none.

## 2. The modules

    FlashOrder    <== Netboot       ---- NetbootProofs
    JobLifecycle  <== WorkerPool ---- WorkerPoolProofs
                      ^   ^   ^                     ^
                      |   |   +- ReleaseFetch ---- ReleaseFetchProofs
                      |   +----- Backup       ---- BackupProofs
    FlashCall     <== FlashPipeline
                      ^
                      Wizard        ---- WizardProofs (of both)
    StateDb <-- Deploy               ---- DeployProofs
    Config                           ---- ConfigProofs
    EventBus                         ---- EventBusProofs

`<==` is refinement (`INSTANCE ... WITH` in `Netboot`, `WorkerPool` and
`FlashPipeline`), the arrows are EXTENDS.  The `MC` modules give names to the values of constants.

### FlashOrder and Netboot

One MAC: rows of different MACs never meet.  Variables: `row` (the `machines`
row; the timestamps `last_flashed_at` and `known_disks_at` are "NULL or not",
because that is all the code asks), `req[h]` (a thread that serves `GET
/pxe/{mac}` and the row it has read), `net` (POSTs of the live env on their way),
`box` (where the box is and the job it has been given), `disk` (blank, half
written, or an image), `catalog` and `exports` (what withcache and nbdmux
resolve).

Each action is one SQLite transaction or one step of the box.  `GET /pxe/{mac}`
is the only handler with two transactions, `PxeTouch` (read or insert the row,
stamp it) and `PxeOffer` (decide on the row *that was read*, then clear the bit of
whatever row there is now); everything else may happen between them.  The
decision itself is `OfferFor`, with `Flashable`, `FlashedSinceArmed` and
`ListedSinceArmed` for its gates.  `Armed` is `_arm_flasher_boot`, `Upserted` is what
a save does to the row.  The live env is the chain `StartBty`, `FetchPlan`,
`StartFlash`, `FinishFlash`, `PostAnswered`, `AutoReboot` with its failures.

`Environment` names which faults a run allows (power loss, retries, lost and late
POSTs, timeouts, edits at any time, ...).  The field `since` of a row is history:
the evidence recorded since the policy was saved.  Two lookups that the code makes
between the transactions of `GET /pxe/{mac}` (the catalog entry, the export) are
taken in `PxeOffer`.  The gates of the PUT route and of the UI form differ in the
code, and so `PutMachine` and `UiMachineUpsert` differ here.

`FlashOrder` is what a `bty-flash-once` save promises its operator ("reimage this box
now, then leave it alone"), with no bits, handlers or POSTs: an order is worked off on
its disk with its image, is closed only when the image is there, is not worked off
again once it is closed, and the box boots its disk only with the order closed, or
while its image cannot be resolved (the fallback that the code offers then).
`OrderOf` is the mapping: a save of another mode, or without image or disk, orders
nothing; `last_flashed_at` closes.

### JobLifecycle and WorkerPool

`JobLifecycle` is what a client of a manager is promised, with no queue and no
workers: a key has one job at a time, a job is queued, begins and ends or is
withdrawn, it is "cancelled" only if somebody asked, a completed key is not run
again, and every job that was submitted ends.

`WorkerPool` is `_BaseAsyncManager` with the `enqueue` of the release manager.
`status` and `asked` are `_states` (and the cancel event of each state), `queue` is
the `asyncio.Queue`, in which a cancelled key stays, `worker[w]` the job whose
body worker `w` awaits, `gone` the workers that have ended.  An action is what a
coroutine does between two awaits: `Enqueue`, `Cancel`, `Take`, `SkipStale` (an
entry whose job is not queued any more), `EndJob` (the body returns or raises;
`SafetyNet` is the except clause of the worker), `Stop` (up to its first await),
`Leave` (CancelledError reaches a worker), `Start` (a new process).

### ReleaseFetch

Extends `WorkerPool` with the body of `ReleaseFetchManager`.  `fetch[t]` is the
call of `fetch_release` in thread `t`, which belongs to a worker or to a request
of the netboot page (`Sessions`); `boot[f]` is the repository that the installed
file `f` came from; `rows[k][f]` are the per-file rows of a job; `log[k]` is the
last event a worker wrote for a tag and the last outcome, which is all a restart
remembers; `override` is the repository setting.

| Action | Code |
|---|---|
| `RequestFetch`, `CancelFetch`, `ChangeRepo` | the two routes, the settings form |
| `TakeFetch`, `TakeRaises`, `SkipFetch` | the worker takes a key; `_run_one` up to `to_thread`, or raising because the settings cannot be read |
| `StartFile`, `EndFile`, `NoticeCancel`, `FailFetch` | the download loop of `fetch_release` with `on_artifact_start` and the cancel flag |
| `Verify`, `Install`, `InstallFails` | manifests, and the renames one at a time |
| `EndFetch` | verdict, rows and event, which follow each other without an await |
| `StopManager`, `LeaveFetch`, `EndAbandoned`, `Restart` | shutdown; a thread outlives the task that awaited it and the process waits for it, unless it is killed |
| `StartUiFetch`, `EndUiFetch` | `ui_netboot_fetch` |
| `RemoveFile` | the operator deletes a file of the boot directory |

`fetch[t].before` is history, the boot directory when the fetch began.  `TakeRaises`
is a step of its own, though in the code the exception reaches the worker without
an await: the job is "running" a moment longer in the model.  What a new process
finds in the events is the last outcome of *some* of the tags, because it reads
the 200 latest events only, or none when the database was rotated or is unreadable.

### Backup

Extends `WorkerPool` with the body of `BackupManager`.  A backup id is the second it
was asked for, so keys are numbers and a later id has a greater name.  `bundle[k]` is
the directory of backup `k` ("partial" as long as there is no whole `inventory.json`),
`body[w]` the body of worker `w` or the thread it waits for, `schedule` the settings
and whether the cadence has run out, `scheduled` the jobs that the scheduler has
submitted, `clock` the id minted last.  `deleted` and `good` are history.

| Action | Code |
|---|---|
| `PostBackup`, `CancelBackup`, `DeleteBundle`, `SaveSchedule` | the routes and forms |
| `Tick`, `Elapse` | `_scheduler_loop` and the time that passes |
| `TakeBackup`, `RecordBackup`, `FinishBackup`, `FailBackup`, `RecordFails` | `_run_one` between its awaits; the safety net of the worker |
| `MakeDir`, `WriteBundle`, `ExportFails` | `export_bundle` in its thread |
| `ListVictims`, `PruneOne`, `EndPrune` | `_prune_old_backups` in its thread |
| `StopBackups`, `LeaveBackup`, `EndAbandoned`, `Restart`, `Kill` | shutdown, restart, and a kill anywhere |

The scheduler computes "due" from `last_run_at`, the model has the flag: it is set
when the cadence runs out and taken back when a scheduled backup is recorded.

### FlashCall, FlashPipeline and Wizard

`FlashCall` is the promise of `execute_plan` to its caller: it refuses and leaves the
disk alone, or opens one disk, writes to that and to no other, and reports success only
for a disk that holds the image (where the source has a digest, or is local).

`FlashPipeline` has the processes.  `stage[s]` is a process of the line curl, meter, tee
(with sha256sum), decompressor, dd, as far as the image needs them (`Uses`);
`sent[s]` is what it has passed on; `held` the pipes whose read end the caller still
has, which is why nobody sees a SIGPIPE there.  A process moves a chunk (`Move`), sees
the end of its input (`Finish`), breaks on a pipe nobody reads or on a full disk
(`Break`), is terminated (`Die`) or fails (`Fail`).  The caller is `Reprobe`, `Spawn` one
after the other, `HandOver`, `Collect`, with the conversion of a qcow2 and the unwinding
when a program is missing; `Verdict` has the order in which the code asks: cancel,
exit codes, digest.  `content[d]` is what a disk holds, `at[p]` the disk that has the
name `p`.  `Interrupt` and `SetCancel` are the two moments of a Ctrl+C: the terminal
signals the processes, then the main thread sets the event.

`Wizard` extends it with the screens (`Stage` is computed from what is chosen, as in
the code), `Probe` (the validation, with sizes that may be unknown or wrong: gzip
wraps, bz2 has none), the thread of the flash and the unattended flash of a plan.

### EventBus

Rows, catalog and jobs are version numbers.  `handler[h]` is a thread that has
committed a change (`Change`), re-renders (`Republish`) or refreshes the catalog
(`FetchCatalog` outside the lock, `StoreCatalog`), then renders and publishes the table
and the panel, each as a callback for the event loop (`callbacks`, in order).  `Fanout`
runs a callback: `put_nowait` on every queue, dropped when full.  `stream[p]` is the
generator behind a page: two snapshots, `Subscribe`, then events.  A page with jobs only
takes the event as a hint and asks for the jobs, also on a new connection and on a timer;
`answers` are on their way and may overtake each other.  `clean` is history: the pages that
have heard of the latest change, made while no other handler was at work.

A shutdown is `Terminate` (SIGTERM: no new connection, what is open goes on), `EndGrace`
(uvicorn has waited for what is open, or the ten seconds that `main` gives it are over and
it cancels the rest), `Close` (only then the lifespan's teardown, which stops the workers
and closes the bus) and `Restart` (the process has waited for its threads, and a new one
starts).  By the time the bus is closed no stream is left for it to end.

### StateDb and Deploy

`StateDb` is `init_db` as the steps a crash can separate: `Probe`, `Rotate` (one rename),
`Create` (`executescript` commits the tables), `Mark` (the version, with the event of the
rotation).  `archive[d]` holds the `.bak` files by name, `acked` the saves that were
answered.

`Deploy` extends it with the host.  A command of `bty-lab` is a sequence of steps
(`Plan`, from what the code looks at when it starts); each step is an action that goes
on, refuses, or fails (`Write` for every file with its refusal to overwrite,
`ComposeDown`, `ComposeUp`, `InstallUnit`, `Pin`, `DaemonReload`, `StartServices`,
`StopServices`, `RemoveUnit`, `WipeData`, `RemoveDest`).  A purge goes on over what fails
(`PurgeGoesOn`), and `spared` says that its stop has failed on a stack that runs; a server
whose directory is then deleted under it is "lost".  `host` has the installed units
and what systemd has read of them, `owner` who runs the stack (systemd, root's compose,
the user's compose), `dirs` the data directories, `home` the operator: root or not, the
`--data-dir` in use, and whether the host needs the firewall drop-in.  Commands can be
killed, programs fail, the host reboots, the server crashes (`Crash`: it is started again
by whoever owns it if what it needs is still there).  Deleting a directory is one step: a
tree that `rmtree` leaves in part is taken as left whole.

`Customary` says what the operators hold to, and the constant `Habits` which of these
they do not: "mixed" (root and a user both give commands), "forget" (an upgrade without
the `--data-dir` of the deploy), "redeploy" (`deploy --force` over running services).

### Config

`load_config` goes through the search list layer by layer (`Merged`, a recursive function
over it), with the environment on top and the provenance of each value; `Primary` is the file that the Settings page edits,
the last of the list that exists or can be made.  A save is `BeginSave`, `ReadDoc`,
`OpenTmp`, `WriteTmp`, `Rename` (or `RenameBusy` and `Fill`, when the file is a bind
mount), `Reload`, `EndSave`; saves run in threads and overlap, a descriptor follows
the file it was opened on when another save renames it (`AfterRename`), and `Kill` can
come between any two steps.  `Deployments` are the installations a run looks at.
`agreed` and `saved` are history: what the primary file may hold for a key, and which
keys were last written by a save that was answered.

## 3. What the runs show

A *pass* run holds in the whole state space of its instance.  A *violation* run
shows that a sentence of the code's own comments or documentation is not what the
code does; `PROJECT.json` quotes the sentence.

| Run | Question | Answer |
|---|---|---|
| `netboot_any` | With every mode, fault and two overlapping handlers: is the bit confined to its modes, does an exit rest on evidence of this policy, does an unattended flash follow one save? | pass |
| `netboot_once` | With an operator who edits while the box rests: does a flash-once box boot only a disk that holds its image, and is its save carried out as `FlashOrder` promises, once? | pass |
| `netboot_live` | Does a flash-once box end on its flashed disk in spite of crashes and lost POSTs? | pass |
| `netboot_cycle_crash` | The safety of `netboot_once`, for flash-always? | violation: `last_flashed_at` of the cycle before lets a half-written disk boot |
| `pool_jobs` | Is any job lost, run twice at a time, or running without a worker? Does the pool implement `JobLifecycle`, progress included? | pass |
| `fetch_any` | With every fault and a second fetcher: do the rows of a job follow its body? | pass |
| `fetch_alone` | One fetcher: is the boot directory whole, is the verdict true, do fetches implement `JobLifecycle`, progress included? | pass |
| `backup` | With one fault of any kind: does a verdict tell what is on disk, does retention keep something to restore from and no more than it says, and does a due backup happen? | pass |
| `flash` | With one fault of any kind and a Ctrl+C at any time: does the pipeline keep the contract of `FlashCall`, is only the picked disk written, is "Image written to" true, does Ctrl+C end a flash? | pass |
| `events` | With full queues, lost connections, overlapping handlers and a shutdown: does the next change bring a page up to date, do pages show the jobs, does a shutdown end although pages stay open? | pass |
| `deploy` | Any three commands with one fault, by operators with none of the `Habits`: is a save ever lost, does a server have its own schema, does success mean running, does purge find what runs (both but for what a purge failed to stop), does a forced deploy repair what was cut off? | pass |
| `config` | Four kinds of installation, two overlapping saves, a hand edit, kills: are the layers ranked as documented, is a key ever wiped, is a stored value in force? | pass |

### Bounds

* Netboot: two images and two serials, of which one is in the box, are enough for
  "the other image", "the other disk" and "a disk that is not there"; two handlers
  for one overlap.  Two or three faults and two or three edits allow a crash in
  one cycle and a second event in the next; the violation needs at most two of
  each.  One POST of a kind in flight (`MaxPosts = 1`): a second of the same kind
  sets the same columns again.
* Pool: two workers, three keys and a queue of four: a key can be in the queue
  twice beside another, which is the longest way to two bodies of one key.  `MaxQueue` bounds a queue that the
  code leaves unbounded.
* Fetch: two files stand for seven (one renamed, one not yet); two repositories for
  "the same" and "another"; a second tag, of another version, has none of the files
  this server asks for (`Published`).  One worker, as `DEFAULT_MAX_PARALLEL` says.
  One fault suffices where it
  leaves the boot directory alone; `fetch_any` has two, for a failure and another one
  while it is handled.
* Backup: five ids and a retention of at most two, so that a half-written directory,
  an old bundle and a new one meet; one worker (`backup_max_parallel` is 1 unless it
  is tuned), one fault, two things the operator does, one cadence.
* Flash: two chunks through pipes of one, so that a process is blocked, starved and
  in the middle; a disk that is large enough, one that is too small, one that is in
  use; a local packed image, a raw one and a packed one from a URL without a digest, a
  raw and a qcow2 one from a URL with a digest, each with its size known or not (a HEAD
  without a length, an oras reference) where the code may not know it; one fault and one call.  A digest that is
  taken before a decompressor, and several calls, are left to the proofs, which have no
  such bounds.
* Events: two handlers, a page of rows and one of jobs, queues of one (an event is
  dropped as soon as another waits), two calls, two lost connections or shutdowns.  Two calls
  are too few for a dropped event and a clean change after it; that no number of drops
  matters is the theorem.
* Deploy: two versions (up and down), two directories, two unit files for four, three
  commands and one fault: the longest story is a deploy that is cut off, a reboot, a
  forced deploy.  One save at a time to follow: what becomes of one save depends on no
  other.  A crash between the tables and the version makes the second archive of a version
  without it.  One archive of a version per second beside the first.
* Config: two keys, two values and two savers, two saves and one hand edit; the four
  installations are a mounted file that stays in use under a created one, a drop-in
  directory with an environment variable, a mounted file of the highest rank, and none
  that can be created.
* The handlers are symmetric in `netboot_any`, which has invariants only; no other run is
  reduced by symmetry.

Deadlock is checked in every run except `deploy`, where a host rests once the operator
has no command left.

### Seen in the models, without a run of their own

These are behaviours of the code that the models have too, which differ from a
comment, a document or what one would expect.  They bound what the properties above
can say.

Netboot and the live env:

* A plan request of an unknown MAC creates a `bty-inventory` row and is answered
  with an inventory plan; the docstring of `pxe_plan` promises a wizard.
* Saving a `bty-flash-once` machine again as it is re-arms nothing;
  `docs/src/concepts.md` says "Re-arm by re-saving the machine."
* A failed unattended flash waits for Enter before it is posted
  (`_screen_flash_running`); `_post_auto_failure` speaks of "the moment they detect"
  it.
* With edits at any time, not only while the box rests, the done of an old policy
  counts for the new one (`_app.py:1040`, against the comment at 1860), and a slow
  `GET /pxe/{mac}` clears the bit of the new policy, by MAC (`_app.py:985`).
* The answer of POST done that times out raises `TimeoutError`, which is no `URLError`
  (`tui/_app.py:2009`): bty is started again and flashes again.  A power loss in that
  second write sends a flash-once box to a half-written disk, so `netboot_live` is run
  without "timeout".
* A done that is delivered only after the next boot is taken for the flash in progress,
  and the done of a flash by hand, at the wizard, for the flash of the policy
  (`_app.py:1040`: a done names neither image nor disk).

Release fetch:

* Cancelling a queued fetch leaves its per-file rows "queued", and the netboot page
  goes on showing them; so `RowsFollowBody` excludes a job no file of which was
  begun.
* A fetch cancelled while its download is verified is installed all the same, and
  is then reported as completed, which is why `VerdictIsTrue` holds.
* The renames of a release are atomic one by one: a kill between two of them
  leaves a mixture, which is why `BootDirIsWhole` is about environments without "kill".
* A fetch that is cut off by the shutdown keeps its job "running" and its last event
  "started".
* The page that fetches in its request (`ui_netboot_fetch`) does not look at the
  repository override, and runs beside the manager: both can report success over a
  mixture of two releases.
* A completed fetch answers later requests also when its files have been removed,
  although the page says to remove a file in order to fetch it again.

Backups:

* With the clock set back, a new backup has the oldest name, and its own retention
  deletes it; ids of one second sort lexically, -10 before -2.
* A backup whose outcome cannot be recorded leaves a whole bundle with a failed job,
  no pruning, and a schedule that is still due: each tick leaves another bundle.
* Cancelling a running or a finished backup is logged as cancelled; it completes.
* Directories that a crash has left half-written count for retention; an operator who
  deletes the bundle that is being made while there is one can lose the last whole one.
* With `backup_max_parallel` above 1, the retention of one backup can take the bundle of
  another: the run and the proofs are about one worker.

Flash and wizard:

* A cancelled download with a digest can end in an IndexError, when sha256sum dies with
  nothing printed: the screen says "Flash FAILED", the docstring (`flash.py:649`)
  "cancelled".  A Ctrl+C whose event comes after the processes have died is also
  reported as a failure.
* A decompressor that is missing is noticed after curl was started and before the
  watchdog is: the call waits for the download.  curl has no timeout, so that a
  stalled server holds up an unattended flash for ever.
* The exit code of the download meter is ignored in front of a decompressor.
* A short body of a raw image without a digest is not noticed.
* Names of disks that change between the pick and the write, and a mount between the
  second probe and dd, are not noticed.
* Errors that are no `FlashError` (a missing file, a registry) leave no "failed" event; a
  rejected unattended plan falls back to the screens with its choice preselected.

Event bus:

* An older rendering can be published after a newer one, and what changes between a
  page's snapshot and its subscription is missed until the next change.
* Closing the bus ends no stream: uvicorn runs the teardown that closes it after the open
  streams have ended, or have been cancelled at the end of `timeout_graceful_shutdown=10`.
  The comments say otherwise (`_app.py:255-260`, `_events.py:84-88` and `158-164`: the close
  keeps pages from holding up the shutdown; `web/__init__.py:266-270`: the ten seconds are for
  future bugs), and so an open page delays every shutdown by ten seconds.
* For the same reason the last publication of a worker that ends in the teardown reaches no
  page, which the order of the teardown is meant for (`_app.py:241-250`).
* `set_withcache_url` is called at start-up only, though its docstring names the
  Settings page.

Deployment and database:

* `upgrade` without the `--data-dir` of the deploy rewrites the units with `./data`: the
  server starts on an empty directory (the quick start deploys with `--data-dir` and
  upgrades without; `operations.md:271` says that data is preserved).  With "forget" in
  `Habits`, `SuccessRuns` and `ForcedDeployWorks` are violated.
* `deploy --force` as root over running services uses `systemctl start`, which leaves the
  old version running.  With "redeploy", `SuccessRuns` is violated.
* Root does not see a user's containers, so that promoting a user's install with `sudo
  bty-lab deploy --force` fails, and purge misses what runs.  With "mixed",
  `PurgeFindsIt` and `ForcedDeployWorks` are violated.
* A user's `--data-dir` has no effect on compose.
* An upgrade of a directory without `bty.toml` fails after it has rewritten its files;
  `init` makes none, so its compose stack cannot start before the operator adds one.
* Purge tolerates a stop that fails, removes the units or deletes the directory all the
  same, and says "purge complete" (`deploy.py:1905`, `1930`): what still runs is found by no
  later purge, its server has lost its directory, and a later deploy can report
  success over it without having started anything.  Without `~spared` in them,
  `PurgeFindsIt` and `SuccessRuns` are violated.
* A root upgrade of a directory that is not managed by systemd brings the stack up with
  root's compose, which a reboot does not start.
* Two processes that open a database of another version in the same second can rename
  onto one archive (one opener in the model); a crash between the rename and the
  version loses the event of the rotation.

Configuration:

* `main` resolves its own list of paths, `create_app` and the Settings page load the
  default one: the file of `--config` does not reach what is read through `cfg()`, and
  the drop-in directory ranks differently in the two lists.
* In the stock container the primary file is the one in the state directory, which can
  be created and comes last: an edit of the Settings page does not reach the mounted
  `bty.toml` (`deploy.py:190` and `421` say that it does), it hides later edits of that
  file, and the keys that `main` reads are not taken from it.
* Overlapping saves share one temporary file: an edit can be lost, a truncated file
  can be renamed into place and outlive a kill, a save can be reported as failed and be
  stored, the active configuration can be older than the file.
* Clearing a key of a bind-mounted file always fails and leaves the temporary file;
  clearing a key brings back the layer below, which need not be the default.
* A write in place that is cut off has its body in the temporary file only, until the
  next save overwrites it.

### Fairness

* `Netboot!Fairness`: handlers run to their end (a thread of the server is
  scheduled), a POST on its way arrives unless it is lost (`urlopen` gives up or
  gets through), and a box that is on goes on.  Nothing is assumed of people, of
  faults, or of the installed system.
* `WorkerPool!Fairness`: the event loop resumes every worker, and every body ends.
* `ReleaseFetch!FetchFairness` replaces "every body ends" by the steps of a thread:
  weak fairness of each worker and each thread.  The code justifies it by the
  timeouts of its reads and by finitely many files and chunks.
* `Backup!BackupFairness`: the scheduler ticks, each worker and each thread goes on, and a
  server that was stopped is started again (the restart policy of its unit).
* `FlashPipeline!FlashFairness`: the caller and every process but curl goes on, since a server
  may stall; what the watchdog terminates dies; the signal handler sets its event.
  Nothing is assumed of the operator, who need not press Ctrl+C.
* `EventBus!BusFairness`: handlers, the event loop and the generators go on, a browser reads
  what it gets, its timer and its requests go on, the ten seconds of a shutdown pass
  (uvicorn's timeout), and a stopped server is started again.  A lost connection need not
  come back, and no page need ever be closed.
* `Deploy!DeployFairSpec`: a command that has begun goes on.  `Config` states safety only.

## 4. What is proved

All theorems hold for any values of the constants that satisfy the assumption of
the module (`NetbootAssumption`, `WorkerPoolAssumption`, ...: the sets are disjoint
where the code's values are, and bounds are numbers).

**NetbootProofs.**  `TypeCorrect`, by the invariant `Typed` (`TypeOK` and `HasJob`: a
box that flashes has a job; without it the disk written could be none).
`ArmedOnlyInCycleModesHolds` and `ExitNeedsEvidenceHolds`, by `Sound`: an armed row
exists, is in a mode that consumes the bit and was armed since its policy was
saved, and a completion signal is not older than the policy.  It has to speak of
the handlers' copies as well as of the row, since a copy may be old:
`RowChanges` and `CopyChanges` say once and for all in which ways a step can
change either.  `AutoFlashIsSavedHolds`, by `SavedJob`: the image and the disk of a
flash policy in the row come from one save.
`NoHalfFlashedBootHolds`, `TerminalBitKeptHolds` and `FlashedOnceHolds` under
`Disciplined`: edits while the box rests, POSTs before the next boot, no timed-out answer of a done, no flash by hand; power
losses, lost POSTs, repeated requests, missing artifacts and restarts of the server are
allowed in any number.  Each part is needed: TLC breaks `NoHalfFlashedBoot` when any one of
"rebind", "late", "timeout" and "hand" is added to `netboot_once`.  `OnceInv`: what a
handler read is still the policy (`CopiesAgree`), a done is on its way only after a flash
and before the next boot (`BoxAgrees`), and a bty-flash-once box that is served is armed,
works for the row, and is recorded as done only with the image written, after which no
handler that answers it sends it to flash (`OnceAgrees`).  `FlashedOnceHolds` is the
refinement of `FlashOrder`, one lemma for each kind of step that its variables see: an
answer that sends the box to its disk (`OfferPromise`), a done (`DonePromise`), a write
(`WritePromise`), an edit (`EditPromise`).  It needs one more fact, `RamAgrees`: a box on
its way to an export is not bound to be flashed.

**WorkerPoolProofs.**  `TypeCorrect`; `RunningHasOneWorkerHolds`, which is inductive
by itself, since only `Take` begins a body, and it does so for a queued job that
no worker has; `QueuedIsInQueueHolds`, where the step that matters is a worker taking the
head: a key behind it is still there, the head itself stops being queued;
`PoolImplementsLifecycle`, step by step, under the identity mapping.

**ReleaseFetchProofs.**  `FetchTypeCorrect`; `FetchImplementsPool`, so every theorem
about the pool holds of the fetches: `PoolStep` shows each action to be an action
of the pool or to leave it alone.  `BootDirIsWholeHolds` and `VerdictIsTrueHolds`
under the assumption `Alone`: one worker, no fetch by the page, no kill, no failing rename,
nobody removes files.  Each part is needed (with the page, two fetches leave a mixture).  The
inductive invariant is `BootInv`: `OneThread` (a worker that may take a job has no
thread left from an earlier one: this is where a shutdown that abandons a thread
could go wrong) and `Honest` (what is in the boot directory at each place of a
fetch, the files below `n` from the new release and the others as before).
`RowsFollowBodyHolds` needs no such assumption: `OwnJob` ties the thread of every worker to
a running job, also one that a shutdown has abandoned, and `RowsAgree` says that rows are
queued until a thread comes to a file and settled after the verdict.

**BackupProofs.**  `BackupTypeCorrect`; `BackupImplementsPool`.  Under `Single` (one
worker): `LastGoodKeptHolds`, `VerdictMatchesDiskHolds` and `RetentionHoldsAlways`.  The
invariant has to know, at each place of the body, which bundles there are and how they
compare with the one that is being made: without the clock being set back it has the
greatest name, so its retention cannot take it; what retention takes lies below `keep`
newer directories, of which one is whole.  The bounds on cardinalities use the library's
facts about finite sets.

**WizardProofs**, for the pipeline and the wizard.  `FlashTypeCorrect`, `FlashKeepsContract`: the
refinement of `FlashCall`.  The invariant relates neighbours in the line (nobody has
passed on more than the one before), what dd has passed on with what is on the disk, and
the exit codes with what went through, for lines of any of the shapes that `Uses` gives.
`WizardTypeCorrect`; `WizardKeepsContract`; `ShownIsTrue`, which adds to it that the name in the
plan still belongs to the disk that was picked unless names changed; `PickedDiskOnly`, where
what matters is that no process runs when a call has returned, although a call ends
without waiting for the download meter.

**DeployProofs.**  `DeployTypeCorrect` and `NothingLostHolds`, whatever the operators do: each
step leaves every save where it is, moves it to an archive name that no file has
(`TargetIsFree`, by the least element of a set of numbers), or deletes it on request.
`PurgeFindsItHolds` under `OneUser` ("mixed" is no habit), but for what is `spared`.  It is
inductive only with the rest of a command in view: `HostInv` says who may own
the stack (`Owned`), that what is left of a command is in the order of its kind
(`Orderly`, shown of each plan by `PlanFlows`), that an upgrade is still on the way it
chose at its start (`OnTrack`), and what holds when a step is the next one (`Ready`: a
purge that has come past its stop has nothing running or has spared it, units are installed
from files that are there).  `ServesOwnSchemaHolds`, whatever the operators do: `Opened` is what
the server knows at each step of `init_db`, and `Marked` that a version is only ever written
beside the tables it names, wherever crashes come in between.

`SuccessRunsHolds` under `Careful` (`Habits` is empty).  `StartInv`: what is left of a deploy
or an upgrade starts something in its last step and only there (`StartsLast`), and by then
the compose file, the units and what systemd has read of them name the version and the
directory that were asked for (`Laid`), so that whatever this step leaves running is that,
unless a purge has spared it (`Unserved`, `LostIsSpared`).

**EventBusProofs.**  `BusTypeCorrect`: no queue of a subscriber outgrows its size, however
many handlers publish.  `NextChangeCatchesUpHolds` follows one change from its commit to the
page, by `CleanInv`: as long as no other handler works (`OneAtWork`), whatever is rendered,
on its way to the event loop or queued for a page is the present state (`Fresh`), and a page
that is to hear of the change shows it already or has it coming, from its queue, from a
callback, or from the handler that has yet to publish it (`Heard`, `Coming`).  Whatever was
dropped before does no harm; a page whose queue is full when the event of the change itself
is handed out is left to the change after it (`clean`).

**ConfigProofs.**  `ConfigTypeCorrect`, which says also that what is shown as a default is
the value of no file.  `LayersRankedHolds`: the recursion over the search list comes to what
`Ranked` says of each key by itself, the last file that sets it.  It is no induction over
data: if it failed at some layer it would fail at a least one, and one step of the recursion
refutes that.
`SavedInForceHolds` under `FilesOnTop`: every drop-in directory of the search list has a
file above it that is there or can be made.  The default list has one, `<state_dir>/bty.toml`
(`_config.py`), as long as the state directory can be written; with `$BTY_CONFIG_DIR` set and
an unwritable state directory the assumption fails, the primary file can lie under the
drop-ins, and a stored value need not be in force.  The invariant is `ForceInv`: what the
active configuration holds, what a saver is about to put into it, and the primary file agree
on every key that is `saved`.  The proof showed that `saved` has to forget a key when a kill in
the middle of a write in place has lost its value from the file and another save begins.
`NothingWipedHolds`, for any number of files, keys, savers and overlaps.
`ConfigInv`: the primary file never changes while the process runs (`PrimaryStays`: a save
creates only the file it edits, which is the last of the list already), every saver
writes to it, and a saver that is alone is at a step where the file, or the temporary file
beside a mounted one, holds what is agreed.

Only model-checked: liveness under fairness (`FlashOnceCompletes`, `DueBackupHappens`,
`InterruptEnds`, `JobsAreShown`, `ShutdownEnds`, `ForcedDeployWorks`, the progress half of
`LifecycleKept`), which is out of reach of the prover.  Every safety property that a run
checks is a theorem, but for `NoHalfFlashedCycle`, which is false.

## 5. What is not modelled

* Access control, sessions and request context.
* Rendering, formatting, logging, validation of strings, byte counters.
* `PUT /boot/{name}`, which replaces one file of the boot directory by a file of
  the operator's choice; seeding of the boot directory, which copies other files.
* The bundle format, the HTTP clients of nbdmux and withcache, the hardware blob.
* The overrides in `_settings_store.py` but for the two that the models need, paging of
  `_table_state.py`, parsing and naming of images and catalogs: sequential lookups and
  conversions that unit tests cover.
* The boot entry that a flash writes to the firmware; ownership of files and removal of
  container images by `bty-lab`.
* A second SIGTERM, or a SIGKILL, during the ten seconds of a shutdown.
* A second process on `state.db`; several backup workers.
* Build files and packaging, except the restart policy of the live env's service.

## 6. What is left

* `Config` with the two search lists of `main` and `create_app` at once.
* Two openers of `state.db`.
* The canonical form of a `src` and the paging of tables, against reference definitions.
