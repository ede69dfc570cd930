------------------------------- MODULE EventBus -------------------------------
(***************************************************************************)
(* The server-sent events of the UI: request handlers in threads that       *)
(* change a row or refresh the catalog and then publish what they render,   *)
(* the callbacks they leave for the event loop, the bounded queue of every  *)
(* subscriber, the pages, the shutdown.                                     *)
(*                                                                          *)
(* Rows, catalog and jobs are version numbers: what a page shows is the     *)
(* version that was rendered.  A page swaps in one fragment: the table of   *)
(* the machines, the panel of the dashboard, or the jobs, which it asks for *)
(* by a request of its own whenever an event, a new connection or its timer *)
(* tells it to.                                                             *)
(***************************************************************************)
EXTENDS Naturals, Sequences

CONSTANTS
  Pages, Handlers,
  Fragment,      \* Fragment[p]: what page p swaps in
  QueueSize,     \* of a subscriber
  MaxCalls,      \* bound on the requests and on the changes of withcache and jobs
  MaxDrops       \* bound on lost connections and on shutdowns

Fragments == {"table", "panel"}

ASSUME BusAssumption ==
  /\ Fragment \in [Pages -> Fragments \cup {"jobs"}]
  /\ QueueSize \in Nat \ {0} /\ MaxCalls \in Nat /\ MaxDrops \in Nat

VARIABLES
  rows,        \* the version of the machines in state.db
  withcache,   \* the version of the catalog of withcache
  catalog,     \* the one that bty-web has in memory
  job,         \* the version of the status of the jobs
  handler,     \* handler[h]: where the thread h is, and what it has read
  callbacks,   \* what the event loop has still to run
  stream,      \* stream[p]: the generator behind the connection of page p
  queue,       \* queue[p]
  shown,       \* shown[p]: what is on the page
  answers,     \* answers[p]: the jobs in answers on their way to page p
  stopping,    \* the server: "no", "waiting" for what is open, "draining", "closed"
  clean,       \* history: the pages that have heard of a change made alone
  calls, drops

vars == <<rows, withcache, catalog, job, handler, callbacks, stream, queue, shown,
          answers, stopping, clean, calls, drops>>
state == <<rows, withcache, catalog, job>>
pages == <<stream, queue, shown, answers>>
server == <<stopping, drops>>

Version == 0..MaxCalls
Snapshot == [rows : Version, catalog : Version]
Event == [name : Fragments \cup {"job"}, what : Snapshot]
Pcs == {"idle", "fetched", "render", "publish"}
Streams == {"off", "table", "panel", "subscribe", "on"}

BusTypeOK ==
  /\ rows \in Version /\ withcache \in Version /\ catalog \in Version /\ job \in Version
  /\ handler \in [Handlers -> [pc : Pcs, fragment : Fragments, fetched : Version,
                               what : Snapshot]]
  /\ callbacks \in Seq(Event)
  /\ stream \in [Pages -> Streams]
  /\ queue \in [Pages -> Seq(Event)] /\ \A p \in Pages : Len(queue[p]) <= QueueSize
  /\ shown \in [Pages -> [rows : Version, catalog : Version, job : Version]]
  /\ answers \in [Pages -> SUBSET Version]
  /\ stopping \in {"no", "waiting", "draining", "closed"}
  /\ clean \subseteq Pages
  /\ calls \in Version /\ drops \in 0..MaxDrops

Now == [rows |-> rows, catalog |-> catalog]
Nothing == [rows |-> 0, catalog |-> 0]
Idle == [pc |-> "idle", fragment |-> "table", fetched |-> 0, what |-> Nothing]
AllIdle == \A h \in Handlers : handler[h].pc = "idle"
Call == calls < MaxCalls /\ calls' = calls + 1

(***************************************************************************)
(* The handlers: publish_state_changed after a commit or a refresh.         *)
(***************************************************************************)
\* The pages that hear of a change whose handler is the only one at work.
Hearing == {p \in Pages : stream[p] = "on" /\ queue[p] = <<>> /\ AllIdle /\ callbacks = <<>>}

Begins(h) ==
  /\ handler[h].pc = "idle" /\ stopping = "no"
  /\ Call
  /\ handler' = [handler EXCEPT ![h] = [Idle EXCEPT !.pc = "render"]]
  /\ clean' = Hearing
  /\ UNCHANGED <<callbacks, pages, server>>

\* A transaction on a row has been committed.
Change(h) ==
  /\ Begins(h)
  /\ rows' = rows + 1
  /\ UNCHANGED <<withcache, catalog, job>>

\* POST /admin/nbdmux/refresh: nothing but the rendering.
Republish(h) ==
  /\ Begins(h)
  /\ UNCHANGED state

\* POST /admin/withcache/refresh reads the catalog outside the lock ...
FetchCatalog(h) ==
  /\ handler[h].pc = "idle" /\ stopping = "no"
  /\ Call
  /\ handler' = [handler EXCEPT ![h] = [Idle EXCEPT !.pc = "fetched", !.fetched = withcache]]
  /\ clean' = {}
  /\ UNCHANGED <<state, callbacks, pages, server>>

\* ... and stores it; a failed request keeps the old one.
StoreCatalog(h) ==
  /\ handler[h].pc = "fetched"
  /\ catalog' \in {handler[h].fetched, catalog}
  /\ handler' = [handler EXCEPT ![h].pc = "render"]
  /\ clean' = IF \A g \in Handlers \ {h} : handler[g].pc = "idle"
              THEN {p \in Pages : stream[p] = "on" /\ queue[p] = <<>> /\ callbacks = <<>>}
              ELSE {}
  /\ UNCHANGED <<rows, withcache, job, callbacks, pages, server, calls>>

\* Mutant: rendered in a transaction that began before the commit.
RenderedEarly(h) == [Now EXCEPT !.rows = IF @ = 0 THEN 0 ELSE @ - 1]

\* What a handler renders: the rows, and the catalog with them.
Rendered(h) == Now

Render(h) ==
  /\ handler[h].pc = "render"
  /\ handler' = [handler EXCEPT ![h].pc = "publish", ![h].what = Rendered(h)]
  /\ UNCHANGED <<state, callbacks, pages, server, clean, calls>>

\* call_soon_threadsafe; the panel follows the table.
Publish(h) ==
  /\ handler[h].pc = "publish"
  /\ callbacks' = Append(callbacks, [name |-> handler[h].fragment, what |-> handler[h].what])
  /\ handler' = [handler EXCEPT ![h] =
                   IF @.fragment = "table" THEN [Idle EXCEPT !.pc = "render", !.fragment = "panel"]
                   ELSE Idle]
  /\ UNCHANGED <<state, pages, server, clean, calls>>

\* Somebody adds an image to withcache: bty-web is not told.
ChangeWithcache ==
  /\ Call
  /\ withcache' = withcache + 1
  /\ UNCHANGED <<rows, catalog, job, handler, callbacks, pages, server, clean>>

\* A worker manager changes the status of a job and publishes.
ChangeJob ==
  /\ Call /\ stopping # "closed"
  /\ job' = job + 1
  /\ callbacks' = Append(callbacks, [name |-> "job", what |-> Nothing])
  /\ UNCHANGED <<rows, withcache, catalog, handler, pages, server, clean>>

(***************************************************************************)
(* The event loop and the generators.                                       *)
(***************************************************************************)
\* Mutant: the queue has no bound.
Unbounded(q, e) == Append(q, e)

\* put_nowait; QueueFull is suppressed.
Offered(q, e) == IF Len(q) < QueueSize THEN Append(q, e) ELSE q

Fanout ==
  /\ callbacks # <<>>
  /\ callbacks' = Tail(callbacks)
  /\ LET e == Head(callbacks) IN
     /\ queue' = [p \in Pages |-> IF stream[p] = "on" THEN Offered(queue[p], e) ELSE queue[p]]
     /\ clean' = {p \in clean : Len(queue[p]) < QueueSize}
  /\ UNCHANGED <<state, handler, stream, shown, answers, server, calls>>

Runs(p, s) == stream' = [stream EXCEPT ![p] = s]

\* GET /events/machines and GET /events/workers; a page that has (re)connected
\* to the latter asks for the jobs.
Connect(p) ==
  /\ stream[p] = "off" /\ stopping = "no"
  /\ IF Fragment[p] = "jobs"
     THEN Runs(p, "subscribe") /\ answers' = [answers EXCEPT ![p] = @ \cup {job}]
     ELSE Runs(p, "table") /\ UNCHANGED answers
  /\ UNCHANGED <<state, handler, callbacks, queue, shown, server, clean, calls>>

Shows(p) == [rows |-> rows, catalog |-> catalog, job |-> shown[p].job]

\* The two snapshots at the beginning of a stream.
SendSnapshot(p) ==
  /\ stream[p] \in Fragments
  /\ Runs(p, IF stream[p] = "table" THEN "panel" ELSE "subscribe")
  /\ shown' = IF Fragment[p] = stream[p] THEN [shown EXCEPT ![p] = Shows(p)] ELSE shown
  /\ UNCHANGED <<state, handler, callbacks, queue, answers, server, clean, calls>>

Subscribe(p) ==
  /\ stream[p] = "subscribe"
  /\ Runs(p, "on")
  /\ UNCHANGED <<state, handler, callbacks, queue, shown, answers, server, clean, calls>>

\* The next event goes to the page, which takes those of its fragment, and asks
\* for the jobs if there is a server to ask.
Deliver(p) ==
  /\ stream[p] = "on" /\ queue[p] # <<>>
  /\ LET e == Head(queue[p]) IN
     /\ shown' = IF e.name = Fragment[p]
                 THEN [shown EXCEPT ![p].rows = e.what.rows, ![p].catalog = e.what.catalog]
                 ELSE shown
     /\ answers' = IF e.name = "job" /\ Fragment[p] = "jobs" /\ stopping = "no"
                   THEN [answers EXCEPT ![p] = @ \cup {job}] ELSE answers
  /\ queue' = [queue EXCEPT ![p] = Tail(@)]
  /\ UNCHANGED <<state, handler, callbacks, stream, server, clean, calls>>

Lost(p) ==
  /\ drops < MaxDrops /\ drops' = drops + 1
  /\ stream[p] # "off"
  /\ Runs(p, "off")
  /\ queue' = [queue EXCEPT ![p] = <<>>]
  /\ clean' = clean \ {p}
  /\ UNCHANGED <<state, handler, callbacks, shown, answers, stopping, calls>>

(***************************************************************************)
(* The timer of a page with jobs, and its answers, in any order.            *)
(***************************************************************************)
\* Mutant: no timer.
NoTimer(p) == FALSE

Timer(p) == Fragment[p] = "jobs"

\* A server that is going down refuses.
Poll(p) ==
  /\ Timer(p)
  /\ answers' = IF stopping = "no" THEN [answers EXCEPT ![p] = @ \cup {job}] ELSE answers
  /\ UNCHANGED <<state, handler, callbacks, stream, queue, shown, server, clean, calls>>

Answer(p) ==
  /\ \E seen \in answers[p] :
       /\ shown' = [shown EXCEPT ![p].job = seen]
       /\ answers' = [answers EXCEPT ![p] = @ \ {seen}]
  /\ UNCHANGED <<state, handler, callbacks, stream, queue, server, clean, calls>>

(***************************************************************************)
(* Shutdown.  The bus is closed after the last stream has gone, so that      *)
(* nothing in a stream has to wait for it.                                  *)
(***************************************************************************)
\* SIGTERM: no new connection; what is open goes on.
Terminate ==
  /\ drops < MaxDrops /\ drops' = drops + 1
  /\ stopping = "no" /\ stopping' = "waiting"
  /\ UNCHANGED <<state, handler, callbacks, pages, clean, calls>>

AllAnswered == AllIdle /\ \A p \in Pages : stream[p] = "off"

\* Mutant: uvicorn is run without timeout_graceful_shutdown.
NeverExpires == FALSE

\* The ten seconds of timeout_graceful_shutdown, which may be over at any moment.
Expires == TRUE

\* Then what is still open is cancelled: a stream ends, a thread goes on.
EndGrace ==
  /\ stopping = "waiting" /\ (AllAnswered \/ Expires)
  /\ stopping' = "draining"
  /\ stream' = [p \in Pages |-> "off"] /\ queue' = [p \in Pages |-> <<>>]
  /\ clean' = {}
  /\ UNCHANGED <<state, handler, callbacks, shown, answers, drops, calls>>

\* The teardown of the lifespan: the workers have ended, and the bus is closed.
Close ==
  /\ stopping = "draining" /\ stopping' = "closed"
  /\ UNCHANGED <<state, handler, callbacks, pages, drops, clean, calls>>

\* The process waits for its threads; a new one primes its catalog.
Restart ==
  /\ stopping = "closed" /\ AllIdle
  /\ stopping' = "no" /\ callbacks' = <<>> /\ clean' = {}
  /\ catalog' \in {0, withcache}
  /\ UNCHANGED <<rows, withcache, job, handler, pages, drops, calls>>

(***************************************************************************)
(* The specification.                                                       *)
(***************************************************************************)
BusInit ==
  /\ rows = 0 /\ withcache = 0 /\ catalog = 0 /\ job = 0
  /\ handler = [h \in Handlers |-> Idle]
  /\ callbacks = <<>>
  /\ stream = [p \in Pages |-> "off"]
  /\ queue = [p \in Pages |-> <<>>]
  /\ shown = [p \in Pages |-> [rows |-> 0, catalog |-> 0, job |-> 0]]
  /\ answers = [p \in Pages |-> {}]
  /\ stopping = "no"
  /\ clean = {} /\ calls = 0 /\ drops = 0

Handle(h) == StoreCatalog(h) \/ Render(h) \/ Publish(h)
Stream(p) == SendSnapshot(p) \/ Subscribe(p) \/ Deliver(p)

BusNext ==
  \/ \E h \in Handlers : Change(h) \/ Republish(h) \/ FetchCatalog(h) \/ Handle(h)
  \/ \E p \in Pages : Connect(p) \/ Stream(p) \/ Lost(p) \/ Poll(p) \/ Answer(p)
  \/ ChangeWithcache \/ ChangeJob
  \/ Fanout
  \/ Terminate \/ EndGrace \/ Close \/ Restart

BusSpec == BusInit /\ [][BusNext]_vars

\* The threads and the event loop run, the ten seconds pass, a browser reads, its
\* timer and its requests go on, and a server that was stopped is started again.
BusFairness ==
  /\ \A h \in Handlers : WF_vars(Handle(h))
  /\ WF_vars(Fanout) /\ WF_vars(EndGrace) /\ WF_vars(Close) /\ WF_vars(Restart)
  /\ \A p \in Pages : WF_vars(Stream(p)) /\ WF_vars(Poll(p)) /\ WF_vars(Answer(p))

BusFairSpec == BusSpec /\ BusFairness

(***************************************************************************)
(* Properties.                                                              *)
(***************************************************************************)
\* Whatever a page has missed (events dropped earlier at a full queue, older
\* renderings published after newer ones, the gap between snapshot and
\* subscription), the next change that no other handler overlaps, and whose events
\* find room in its queue, brings it up to date, catalog and all ("they will catch
\* up on the next mutation", MachineEventBus).
NextChangeCatchesUp ==
  \A p \in clean :
    /\ stream[p] = "on" /\ queue[p] = <<>>
    /\ AllIdle /\ callbacks = <<>> /\ Fragment[p] # "jobs"
    => shown[p].rows = rows /\ shown[p].catalog = catalog

\* A page with jobs ends up with their present status, though events are dropped,
\* connections and servers go away, and answers overtake each other.
JobsAreShown ==
  \A p \in Pages : Fragment[p] = "jobs" => []<>(shown[p].job = job)

\* A shutdown ends, and the server comes back, whatever pages are open and whatever
\* their generators and the threads of the handlers are doing.  Nobody has to close
\* a page: the stream of a page that stays open is cancelled when the ten seconds
\* are over, which is what ends it ("a hard 10s upper bound", main).
ShutdownEnds == []<>(stopping = "no")
=============================================================================
