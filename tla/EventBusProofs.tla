---------------------------- MODULE EventBusProofs ----------------------------
(***************************************************************************)
(* What a page shows, for any pages, handlers, sizes of the queues and any  *)
(* number of changes, lost connections and shutdowns.                       *)
(*                                                                          *)
(* The argument follows one change from its commit to the page: as long as  *)
(* a page is clean, everything on its way is a rendering of the present      *)
(* rows and catalog, and either the page shows it, or it is in the queue of  *)
(* the page, or in a callback, or in the thread that has made the change.    *)
(***************************************************************************)
EXTENDS EventBus, TLAPS

Shown == [rows : Version, catalog : Version, job : Version]
Threads == [pc : Pcs, fragment : Fragments, fetched : Version, what : Snapshot]

(***************************************************************************)
(* Sequences of events.                                                     *)
(***************************************************************************)
\* Appending adds one event behind the others.
LEMMA Appended ==
  ASSUME NEW q \in Seq(Event), NEW e \in Event
  PROVE  /\ Append(q, e) \in Seq(Event) /\ Len(Append(q, e)) = Len(q) + 1
         /\ \A i \in 1..Len(q) : Append(q, e)[i] = q[i]
         /\ Append(q, e)[Len(q) + 1] = e
OBVIOUS

\* Taking the first event leaves the others in their order.
LEMMA Shortened ==
  ASSUME NEW q \in Seq(Event), q # <<>>
  PROVE  /\ Len(q) \in Nat \ {0} /\ Head(q) = q[1] /\ Head(q) \in Event
         /\ Tail(q) \in Seq(Event) /\ Len(Tail(q)) = Len(q) - 1
         /\ \A i \in 1..Len(Tail(q)) : Tail(q)[i] = q[i + 1]
OBVIOUS

\* A queue never grows beyond its size.
LEMMA OfferedFits ==
  ASSUME NEW q \in Seq(Event), NEW e \in Event, Len(q) <= QueueSize
  PROVE  Offered(q, e) \in Seq(Event) /\ Len(Offered(q, e)) <= QueueSize
<1>1. QueueSize \in Nat /\ Len(q) \in Nat
  BY BusAssumption
<1>2. CASE Len(q) < QueueSize
  BY <1>1, <1>2, Appended DEF Offered
<1>3. CASE ~(Len(q) < QueueSize)
  BY <1>3 DEF Offered
<1> QED BY <1>2, <1>3

(***************************************************************************)
(* Types.                                                                   *)
(***************************************************************************)
\* Versions are counted by the calls that made them.
Counters ==
  /\ rows \in Version /\ withcache \in Version /\ catalog \in Version /\ job \in Version
  /\ calls \in Version
  /\ rows + withcache + job <= calls

Serving ==
  /\ handler \in [Handlers -> Threads]
  /\ callbacks \in Seq(Event)
  /\ stopping \in {"no", "waiting", "draining", "closed"}
  /\ clean \subseteq Pages /\ drops \in 0..MaxDrops

Paging ==
  /\ stream \in [Pages -> Streams]
  /\ queue \in [Pages -> Seq(Event)] /\ \A p \in Pages : Len(queue[p]) <= QueueSize
  /\ shown \in [Pages -> Shown]
  /\ answers \in [Pages -> SUBSET Version]

BusTyped == Counters /\ Serving /\ Paging

\* The parts say what the type invariant says.
LEMMA TypedIsWanted == BusTyped => BusTypeOK
BY DEF BusTyped, BusTypeOK, Counters, Serving, Paging, Threads, Shown

\* The present rows and catalog are a snapshot, and so is nothing.
LEMMA SnapshotTyped ==
  ASSUME Counters
  PROVE  /\ Now \in Snapshot /\ Nothing \in Snapshot /\ Idle \in Threads
         /\ 0 \in Version /\ Version \subseteq Nat /\ MaxCalls \in Nat
<1>1. 0 \in Version /\ Version \subseteq Nat /\ MaxCalls \in Nat
  BY BusAssumption DEF Version
<1>2. Now \in Snapshot /\ Nothing \in Snapshot
  BY <1>1 DEF Counters, Now, Nothing, Snapshot
<1> QED BY <1>1, <1>2 DEF Idle, Threads, Pcs, Fragments

\* The initial state is typed.
LEMMA InitTyped == BusInit => BusTyped
<1> SUFFICES ASSUME BusInit PROVE BusTyped
  OBVIOUS
<1>1. 0 \in Version /\ 0 \in 0..MaxDrops /\ QueueSize \in Nat
  BY BusAssumption DEF Version
<1>2. <<>> \in Seq(Event) /\ Len(<<>>) = 0
  OBVIOUS
<1>3. Counters
  BY <1>1 DEF BusInit, Counters
<1>4. Serving
  BY <1>1, <1>2, <1>3, SnapshotTyped DEF BusInit, Serving
<1>5. Paging
  BY <1>1, <1>2 DEF BusInit, Paging, Streams, Shown
<1> QED BY <1>3, <1>4, <1>5 DEF BusTyped

(***************************************************************************)
(* The steps of the handlers.                                               *)
(***************************************************************************)
\* A call is one of finitely many, and a version that it makes is too.
LEMMA CallCounts ==
  ASSUME Counters, Call
  PROVE  /\ calls' \in Version /\ calls' = calls + 1
         /\ \A v \in {rows, withcache, job} : v + 1 \in Version
<1>1. calls < MaxCalls /\ calls' = calls + 1 /\ MaxCalls \in Nat
  BY BusAssumption DEF Call
<1> QED BY <1>1 DEF Counters, Version

LEMMA HandlerTyped ==
  ASSUME BusTyped, NEW h \in Handlers,
         Change(h) \/ Republish(h) \/ FetchCatalog(h) \/ Handle(h)
  PROVE  BusTyped'
<1> USE DEF BusTyped, Counters
<1>1. /\ rows' \in Version /\ catalog' \in Version /\ calls' \in Version
      /\ withcache' = withcache /\ job' = job
      /\ rows' + withcache' + job' <= calls'
  <2>1. CASE Change(h)
    BY <2>1, CallCounts DEF Change, Begins, Version
  <2>2. CASE Republish(h) \/ FetchCatalog(h)
    BY <2>2, CallCounts DEF Republish, FetchCatalog, Begins, state, Version
  <2>3. CASE StoreCatalog(h)
    BY <2>3 DEF StoreCatalog, Serving, Threads
  <2>4. CASE Render(h) \/ Publish(h)
    BY <2>4 DEF Render, Publish, state
  <2> QED BY <2>1, <2>2, <2>3, <2>4 DEF Handle
<1>2. handler' \in [Handlers -> Threads]
  <2>0. /\ handler \in [Handlers -> Threads]
        /\ [Idle EXCEPT !.pc = "render"] \in Threads
        /\ [Idle EXCEPT !.pc = "fetched", !.fetched = withcache] \in Threads
    BY SnapshotTyped DEF Serving, Threads, Pcs
  <2>1. CASE Change(h) \/ Republish(h)
    <3>1. handler' = [handler EXCEPT ![h] = [Idle EXCEPT !.pc = "render"]]
      BY <2>1 DEF Change, Republish, Begins
    <3> QED BY <2>0, <3>1
  <2>2. CASE FetchCatalog(h)
    BY <2>0, <2>2 DEF FetchCatalog
  <2>3. CASE StoreCatalog(h)
    BY <2>3 DEF StoreCatalog, Serving, Threads, Pcs
  <2>4. CASE Render(h)
    BY <2>4, SnapshotTyped DEF Render, Rendered, Serving, Threads, Pcs
  <2>5. CASE Publish(h)
    BY <2>5, SnapshotTyped DEF Publish, Serving, Threads, Pcs, Fragments
  <2> QED BY <2>1, <2>2, <2>3, <2>4, <2>5 DEF Handle
<1>3. callbacks' \in Seq(Event)
  <2>1. CASE Publish(h)
    <3>1. [name |-> handler[h].fragment, what |-> handler[h].what] \in Event
      BY DEF Serving, Threads, Event
    <3> QED BY <2>1, <3>1, Appended DEF Publish, Serving
  <2>2. CASE ~Publish(h)
    BY <2>2 DEF Change, Republish, Begins, FetchCatalog, Handle, StoreCatalog, Render, Serving
  <2> QED BY <2>1, <2>2
<1>4. clean' \subseteq Pages
  BY DEF Change, Republish, Begins, FetchCatalog, Handle, StoreCatalog, Render, Publish,
         Serving, Hearing
<1>5. UNCHANGED <<pages, server>>
  BY DEF Change, Republish, Begins, FetchCatalog, Handle, StoreCatalog, Render, Publish
<1> QED BY <1>1, <1>2, <1>3, <1>4, <1>5 DEF Serving, Paging, pages, server

\* Changes of withcache and of jobs, and the three steps of a shutdown.
LEMMA OutsideTyped ==
  ASSUME BusTyped, ChangeWithcache \/ ChangeJob \/ Terminate \/ EndGrace \/ Close \/ Restart
  PROVE  BusTyped'
<1> USE DEF BusTyped, Counters
<1>1. /\ catalog' \in Version /\ withcache' \in Version /\ job' \in Version /\ calls' \in Version
      /\ rows' = rows /\ rows' + withcache' + job' <= calls'
  <2>1. CASE ChangeWithcache \/ ChangeJob
    <3>1. /\ Call
          /\ \/ withcache' = withcache + 1 /\ UNCHANGED <<rows, catalog, job>>
             \/ job' = job + 1 /\ UNCHANGED <<rows, catalog, withcache>>
      BY <2>1 DEF ChangeWithcache, ChangeJob
    <3>2. calls' \in Version /\ calls' = calls + 1 /\ withcache + 1 \in Version /\ job + 1 \in Version
      BY <3>1, CallCounts
    <3>3. rows \in Nat /\ withcache \in Nat /\ job \in Nat /\ calls \in Nat
      BY DEF Version
    <3>4. rows' + withcache' + job' <= calls'
      BY <3>1, <3>2, <3>3
    <3> QED BY <3>1, <3>2, <3>4
  <2>2. CASE Terminate \/ EndGrace \/ Close
    BY <2>2 DEF Terminate, EndGrace, Close, state
  <2>3. CASE Restart
    BY <2>3, SnapshotTyped DEF Restart
  <2> QED BY <2>1, <2>2, <2>3
<1>2. callbacks' \in Seq(Event)
  <2>1. [name |-> "job", what |-> Nothing] \in Event
    BY SnapshotTyped DEF Event
  <2>2. CASE ChangeJob
    BY <2>1, <2>2, Appended DEF ChangeJob, Serving
  <2>3. CASE ChangeWithcache \/ Terminate \/ EndGrace \/ Close
    BY <2>3 DEF ChangeWithcache, Terminate, EndGrace, Close, Serving
  <2>4. CASE Restart
    BY <2>4 DEF Restart
  <2> QED BY <2>2, <2>3, <2>4
<1>3. /\ handler' = handler /\ stopping' \in {"no", "waiting", "draining", "closed"}
      /\ clean' \subseteq Pages /\ drops' \in 0..MaxDrops
  <2>1. CASE ChangeWithcache \/ ChangeJob
    BY <2>1 DEF ChangeWithcache, ChangeJob, Serving, server
  <2>2. CASE Terminate
    BY <2>2, BusAssumption DEF Terminate, Serving
  <2>3. CASE EndGrace \/ Close \/ Restart
    BY <2>3 DEF EndGrace, Close, Restart, Serving
  <2> QED BY <2>1, <2>2, <2>3
<1>4. Paging'
  <2>1. CASE EndGrace
    <3>1. <<>> \in Seq(Event) /\ Len(<<>>) = 0 /\ QueueSize \in Nat
      BY BusAssumption
    <3> QED BY <2>1, <3>1 DEF EndGrace, Paging, Streams
  <2>2. CASE UNCHANGED pages
    BY <2>2 DEF Paging, pages
  <2> QED BY <2>1, <2>2 DEF ChangeWithcache, ChangeJob, Terminate, Close, Restart
<1> QED BY <1>1, <1>2, <1>3, <1>4 DEF Serving


(***************************************************************************)
(* The steps of the event loop, the generators and the pages.               *)
(***************************************************************************)
LEMMA FanoutTyped == ASSUME BusTyped, Fanout PROVE BusTyped'
<1> USE DEF BusTyped
<1>1. /\ callbacks # <<>> /\ Head(callbacks) \in Event /\ callbacks' \in Seq(Event)
  BY Shortened DEF Fanout, Serving
<1>2. queue' \in [Pages -> Seq(Event)] /\ \A p \in Pages : Len(queue'[p]) <= QueueSize
  BY <1>1, OfferedFits DEF Fanout, Paging
<1>3. clean' \subseteq Pages
  BY DEF Fanout, Serving
<1>4. Counters' /\ UNCHANGED <<handler, stopping, drops, stream, shown, answers>>
  BY DEF Fanout, Counters, state, server
<1> QED BY <1>1, <1>2, <1>3, <1>4 DEF Serving, Paging

LEMMA PageTyped ==
  ASSUME BusTyped, NEW p \in Pages,
         Connect(p) \/ Stream(p) \/ Lost(p) \/ Poll(p) \/ Answer(p)
  PROVE  BusTyped'
<1> USE DEF BusTyped
<1>1. UNCHANGED <<state, calls, handler, callbacks, stopping>>
  BY DEF Connect, Stream, SendSnapshot, Subscribe, Deliver, Lost, Poll, Answer, server
<1>2. clean' \subseteq Pages /\ drops' \in 0..MaxDrops
  <2>1. CASE Lost(p)
    BY <2>1, BusAssumption DEF Lost, Serving
  <2>2. CASE ~Lost(p)
    BY <2>2 DEF Connect, Stream, SendSnapshot, Subscribe, Deliver, Poll, Answer,
                server, Serving
  <2> QED BY <2>1, <2>2
<1>3. stream' \in [Pages -> Streams]
  BY DEF Connect, Stream, SendSnapshot, Subscribe, Deliver, Lost, Poll, Answer,
         Runs, Paging, Streams
<1>4. queue' \in [Pages -> Seq(Event)] /\ \A q \in Pages : Len(queue'[q]) <= QueueSize
  <2>1. <<>> \in Seq(Event) /\ Len(<<>>) = 0 /\ QueueSize \in Nat
    BY BusAssumption
  <2>2. CASE Lost(p)
    <3>1. queue \in [Pages -> Seq(Event)] /\ queue' = [queue EXCEPT ![p] = <<>>]
      BY <2>2 DEF Lost, Paging
    <3>2. queue' \in [Pages -> Seq(Event)]
      BY <2>1, <3>1
    <3>3. \A q \in Pages : Len(queue'[q]) <= QueueSize
      BY <2>1, <3>1 DEF Paging
    <3> QED BY <3>2, <3>3
  <2>3. CASE Deliver(p)
    <3>1. /\ queue[p] \in Seq(Event) /\ queue[p] # <<>>
          /\ queue' = [queue EXCEPT ![p] = Tail(queue[p])]
      BY <2>3 DEF Deliver, Paging
    <3>2. Tail(queue[p]) \in Seq(Event) /\ Len(Tail(queue[p])) <= QueueSize
      BY <2>1, <3>1, Shortened DEF Paging
    <3> QED BY <2>1, <3>1, <3>2 DEF Paging
  <2>4. CASE UNCHANGED queue
    BY <2>4 DEF Paging
  <2> QED BY <2>2, <2>3, <2>4 DEF Connect, Stream, SendSnapshot, Subscribe, Poll, Answer
<1>5. shown' \in [Pages -> Shown]
  <2>1. CASE SendSnapshot(p)
    BY <2>1 DEF SendSnapshot, Shows, Paging, Shown, Counters
  <2>2. CASE Deliver(p)
    <3>1. Head(queue[p]).what \in Snapshot
      BY <2>2, Shortened DEF Deliver, Paging, Event
    <3>2. CASE shown' = shown
      BY <3>2 DEF Paging
    <3>3. CASE shown' = [shown EXCEPT ![p].rows = Head(queue[p]).what.rows,
                                      ![p].catalog = Head(queue[p]).what.catalog]
      BY <3>1, <3>3 DEF Paging, Shown, Snapshot
    <3> QED
      <4>1. \/ shown' = shown
            \/ shown' = [shown EXCEPT ![p].rows = Head(queue[p]).what.rows,
                                     ![p].catalog = Head(queue[p]).what.catalog]
        BY <2>2, Zenon DEF Deliver
      <4> QED BY <3>2, <3>3, <4>1
  <2>3. CASE Answer(p)
    <3>1. PICK seen \in answers[p] : shown' = [shown EXCEPT ![p].job = seen]
      BY <2>3 DEF Answer
    <3>2. seen \in Version
      BY DEF Paging
    <3> QED BY <3>1, <3>2 DEF Paging, Shown
  <2>4. CASE UNCHANGED shown
    BY <2>4 DEF Paging
  <2> QED BY <2>1, <2>2, <2>3, <2>4 DEF Connect, Stream, Subscribe, Lost, Poll
<1>6. answers' \in [Pages -> SUBSET Version]
  <2>1. CASE Connect(p) \/ Poll(p) \/ Deliver(p)
    BY <2>1 DEF Connect, Poll, Deliver, Paging, Counters
  <2>2. CASE Answer(p)
    BY <2>2 DEF Answer, Paging
  <2>3. CASE UNCHANGED answers
    BY <2>3 DEF Paging
  <2> QED BY <2>1, <2>2, <2>3 DEF Stream, SendSnapshot, Subscribe, Lost
<1> QED BY <1>1, <1>2, <1>3, <1>4, <1>5, <1>6 DEF Counters, Serving, Paging, state

\* Every step keeps the types.
LEMMA StepTyped == BusTyped /\ [BusNext]_vars => BusTyped'
<1>1. ASSUME BusTyped, UNCHANGED vars PROVE BusTyped'
  BY <1>1 DEF BusTyped, Counters, Serving, Paging, vars
<1> QED BY <1>1, HandlerTyped, OutsideTyped, FanoutTyped, PageTyped DEF BusNext

LEMMA TypedHolds == BusSpec => []BusTyped
BY InitTyped, StepTyped, PTL DEF BusSpec

\* Every reachable state of the bus is well typed; above all, no queue of a
\* subscriber grows beyond its size, however slowly the page reads.
THEOREM BusTypeCorrect == BusSpec => []BusTypeOK
BY TypedHolds, TypedIsWanted, PTL

(***************************************************************************)
(* A change on its way to the pages.                                        *)
(***************************************************************************)
\* No event of s shows other rows or another catalog than these.
Fresh(s, now) == \A i \in 1..Len(s) : s[i].name \in Fragments => s[i].what = now

Holds(s, f) == \E i \in 1..Len(s) : s[i].name = f

\* The thread h has yet to publish fragment f: the panel follows the table.
Brings(h, f) ==
  handler[h].pc \in {"render", "publish"} /\ handler[h].fragment \in {"table", f}

\* At most one handler is at work, and what it has rendered is the present state.
OneAtWork ==
  /\ \A g, h \in Handlers : handler[g].pc # "idle" /\ handler[h].pc # "idle" => g = h
  /\ \A h \in Handlers : /\ handler[h].pc # "fetched"
                         /\ handler[h].pc = "publish" => handler[h].what = Now

UpToDate(p) == shown[p].rows = rows /\ shown[p].catalog = catalog

Coming(p) ==
  \/ UpToDate(p)
  \/ Holds(queue[p], Fragment[p])
  \/ Holds(callbacks, Fragment[p])
  \/ \E h \in Handlers : Brings(h, Fragment[p])

TableFirst == \A h \in Handlers : handler[h].pc = "fetched" => handler[h].fragment = "table"

Heard(p) ==
  /\ stream[p] = "on"
  /\ Fresh(queue[p], Now)
  /\ Fragment[p] # "jobs" => Coming(p)

CleanInv ==
  /\ TableFirst
  /\ clean # {} => OneAtWork /\ Fresh(callbacks, Now)
  /\ \A p \in clean : Heard(p)

\* With nothing left on its way, what the page shows is up to date.
LEMMA CleanIsWanted == BusTyped /\ CleanInv => NextChangeCatchesUp
<1> SUFFICES ASSUME BusTyped, CleanInv, NEW p \in clean, stream[p] = "on", queue[p] = <<>>,
                    AllIdle, callbacks = <<>>, Fragment[p] # "jobs"
             PROVE  UpToDate(p)
  BY DEF NextChangeCatchesUp, UpToDate
<1>1. \A f : ~Holds(queue[p], f) /\ ~Holds(callbacks, f)
  BY DEF Holds
<1>2. \A h \in Handlers : ~Brings(h, Fragment[p])
  BY DEF AllIdle, Brings
<1> QED BY <1>1, <1>2 DEF CleanInv, Heard, Coming

\* An appended event is the only new one.
LEMMA FreshAppended ==
  ASSUME NEW q \in Seq(Event), NEW e \in Event, NEW now
  PROVE  /\ Fresh(q, now) /\ (e.name \in Fragments => e.what = now) => Fresh(Append(q, e), now)
         /\ \A f : Holds(Append(q, e), f) <=> Holds(q, f) \/ e.name = f
<1>1. Len(q) \in Nat
  OBVIOUS
<1> QED BY <1>1, Appended DEF Fresh, Holds

\* What the first event is taken from keeps the others.
LEMMA FreshShortened ==
  ASSUME NEW q \in Seq(Event), q # <<>>, NEW now
  PROVE  /\ Fresh(q, now) => /\ Fresh(Tail(q), now)
                             /\ Head(q).name \in Fragments => Head(q).what = now
         /\ \A f : Holds(q, f) => Head(q).name = f \/ Holds(Tail(q), f)
<1>1. /\ Len(q) \in Nat \ {0} /\ Head(q) = q[1] /\ Len(Tail(q)) = Len(q) - 1
      /\ \A i \in 1..Len(Tail(q)) : Tail(q)[i] = q[i + 1]
  BY Shortened
<1>2. Fresh(q, now) => Fresh(Tail(q), now) /\ (Head(q).name \in Fragments => Head(q).what = now)
  BY <1>1 DEF Fresh
<1>3. ASSUME NEW f, Holds(q, f) PROVE Head(q).name = f \/ Holds(Tail(q), f)
  <2>1. PICK i \in 1..Len(q) : q[i].name = f
    BY <1>3 DEF Holds
  <2>2. CASE i = 1
    BY <1>1, <2>1, <2>2
  <2>3. CASE i # 1
    <3>1. i - 1 \in 1..Len(Tail(q)) /\ Tail(q)[i - 1] = q[i]
      BY <1>1, <2>1, <2>3
    <3> QED BY <2>1, <3>1 DEF Holds
  <2> QED BY <2>2, <2>3
<1> QED BY <1>2, <1>3

\* Where nobody is clean there is nothing to keep.
LEMMA NobodyClean == ASSUME TableFirst', clean' = {} PROVE CleanInv'
BY DEF CleanInv

\* Fetching and storing are the only steps about what is fetched.
LEMMA TableFirstStays ==
  ASSUME BusTyped, TableFirst, BusNext \/ UNCHANGED vars
  PROVE  TableFirst'
<1> USE DEF BusTyped, Serving, TableFirst, Threads
<1>1. ASSUME NEW h \in Handlers, Change(h) \/ Republish(h) \/ FetchCatalog(h) PROVE TableFirst'
  <2>1. handler'[h].fragment = "table"
    <3>1. CASE Change(h) \/ Republish(h)
      BY <3>1 DEF Change, Republish, Begins, Idle
    <3>2. CASE FetchCatalog(h)
      BY <3>2 DEF FetchCatalog, Idle
    <3> QED BY <1>1, <3>1, <3>2
  <2>2. \A g \in Handlers \ {h} : handler'[g] = handler[g]
    BY <1>1 DEF Change, Republish, Begins, FetchCatalog
  <2>3. ASSUME NEW g \in Handlers, handler'[g].pc = "fetched" PROVE handler'[g].fragment = "table"
    BY <2>1, <2>2, <2>3
  <2> QED BY <2>3
<1>2. ASSUME NEW h \in Handlers, Handle(h) PROVE TableFirst'
  <2>1. handler'[h].pc # "fetched"
    <3>1. CASE StoreCatalog(h) \/ Render(h)
      BY <3>1 DEF StoreCatalog, Render
    <3>2. CASE Publish(h)
      BY <3>2 DEF Publish, Idle
    <3> QED BY <1>2, <3>1, <3>2 DEF Handle
  <2>2. \A g \in Handlers \ {h} : handler'[g] = handler[g]
    BY <1>2 DEF Handle, StoreCatalog, Render, Publish
  <2>3. ASSUME NEW g \in Handlers, handler'[g].pc = "fetched" PROVE handler'[g].fragment = "table"
    BY <2>1, <2>2, <2>3
  <2> QED BY <2>3
<1>3. CASE UNCHANGED handler
  BY <1>3
<1>4. ASSUME NEW p \in Pages, Connect(p) \/ Stream(p) \/ Lost(p) \/ Poll(p) \/ Answer(p)
      PROVE  UNCHANGED handler
  BY <1>4 DEF Connect, Stream, SendSnapshot, Subscribe, Deliver, Lost, Poll, Answer
<1>5. CASE ChangeWithcache \/ ChangeJob \/ Fanout \/ Terminate \/ EndGrace \/ Close \/ Restart \/ UNCHANGED vars
  BY <1>3, <1>5 DEF ChangeWithcache, ChangeJob, Fanout, Terminate, EndGrace, Close, Restart, vars
<1> QED BY <1>1, <1>2, <1>3, <1>4, <1>5 DEF BusNext

(***************************************************************************)
(* The handlers.                                                            *)
(***************************************************************************)
\* A handler that is alone at work, with everything delivered, makes the pages
\* that are connected hear of its change.
LEMMA AloneHears ==
  ASSUME BusTyped, TableFirst', NEW h \in Handlers,
         handler'[h].pc = "render", handler'[h].fragment = "table",
         \A g \in Handlers \ {h} : handler'[g].pc = "idle",
         UNCHANGED <<callbacks, stream, queue>>, callbacks = <<>>,
         \A p \in clean' : stream[p] = "on" /\ queue[p] = <<>>
  PROVE  CleanInv'
<1> USE DEF BusTyped, Serving, Paging
<1>2. OneAtWork'
  BY DEF OneAtWork
<1>3. Fresh(<<>>, Now')
  BY DEF Fresh
<1>4. ASSUME NEW p \in clean' PROVE Heard(p)'
  <2>1. Brings(h, Fragment[p])'
    BY DEF Brings
  <2> QED BY <1>3, <2>1 DEF Heard, Coming
<1> QED BY <1>2, <1>3, <1>4 DEF CleanInv

LEMMA BeginsClean ==
  ASSUME BusTyped, CleanInv, TableFirst', NEW h \in Handlers, Begins(h)
  PROVE  CleanInv'
<1>1. CASE Hearing = {}
  BY <1>1, NobodyClean DEF Begins
<1>2. CASE Hearing # {}
  <2>1. /\ AllIdle /\ callbacks = <<>> /\ clean' = Hearing
        /\ \A p \in Hearing : stream[p] = "on" /\ queue[p] = <<>>
    BY <1>2 DEF Begins, Hearing
  <2>2. handler' = [handler EXCEPT ![h] = [Idle EXCEPT !.pc = "render"]]
    BY DEF Begins
  <2>3. handler'[h].pc = "render" /\ handler'[h].fragment = "table"
    BY <2>2 DEF BusTyped, Serving, Idle
  <2>4. \A g \in Handlers \ {h} : handler'[g].pc = "idle"
    BY <2>1, <2>2 DEF BusTyped, Serving, AllIdle
  <2>5. UNCHANGED <<callbacks, stream, queue>>
    BY DEF Begins, pages
  <2> QED BY <2>1, <2>3, <2>4, <2>5, AloneHears
<1> QED BY <1>1, <1>2

LEMMA StoreClean ==
  ASSUME BusTyped, CleanInv, TableFirst', NEW h \in Handlers, StoreCatalog(h)
  PROVE  CleanInv'
<1>1. CASE clean' = {}
  BY <1>1, NobodyClean
<1>2. CASE clean' # {}
  <2>1. /\ \A g \in Handlers \ {h} : handler[g].pc = "idle"
        /\ callbacks = <<>> /\ \A p \in clean' : stream[p] = "on" /\ queue[p] = <<>>
    BY <1>2 DEF StoreCatalog
  <2>2. /\ handler[h].pc = "fetched" /\ handler' = [handler EXCEPT ![h].pc = "render"]
        /\ UNCHANGED <<callbacks, stream, queue>>
    BY DEF StoreCatalog, pages
  <2>3. /\ handler'[h].pc = "render" /\ handler'[h].fragment = handler[h].fragment
        /\ \A g \in Handlers \ {h} : handler'[g] = handler[g]
    BY <2>2 DEF BusTyped, Serving, Threads
  <2>4. handler[h].fragment = "table"
    BY <2>2 DEF CleanInv, TableFirst
  <2> QED BY <2>1, <2>2, <2>3, <2>4, AloneHears
<1> QED BY <1>1, <1>2

\* What is rendered is the present state, and publishing hands it on.
LEMMA RenderClean ==
  ASSUME BusTyped, CleanInv, TableFirst', NEW h \in Handlers, Render(h)
  PROVE  CleanInv'
<1> USE DEF BusTyped, Serving
<1>1. /\ handler[h].pc = "render"
      /\ handler' = [handler EXCEPT ![h].pc = "publish", ![h].what = Now]
      /\ UNCHANGED <<rows, catalog, callbacks, stream, queue, shown, clean>>
  BY DEF Render, Rendered, state, pages
<1>2. Now' = Now
  BY <1>1 DEF Now
<1>3. /\ handler'[h].pc = "publish" /\ handler'[h].what = Now
      /\ handler'[h].fragment = handler[h].fragment
      /\ \A g \in Handlers \ {h} : handler'[g] = handler[g]
  BY <1>1 DEF Threads
<1>4. OneAtWork => OneAtWork'
  BY <1>1, <1>2, <1>3 DEF OneAtWork
<1>5. \A g \in Handlers : \A f : Brings(g, f) => Brings(g, f)'
  BY <1>1, <1>3 DEF Brings
<1>6. ASSUME NEW p \in clean PROVE Heard(p)'
  <2>1. Heard(p)
    BY <1>6 DEF CleanInv
  <2>2. Coming(p) => Coming(p)'
    BY <1>1, <1>5 DEF Coming, UpToDate
  <2> QED BY <1>1, <1>2, <2>1, <2>2 DEF Heard
<1> QED BY <1>1, <1>2, <1>4, <1>6 DEF CleanInv

LEMMA PublishClean ==
  ASSUME BusTyped, CleanInv, TableFirst', NEW h \in Handlers, Publish(h)
  PROVE  CleanInv'
<1> USE DEF BusTyped, Serving
<1> DEFINE e == [name |-> handler[h].fragment, what |-> handler[h].what]
<1>1. /\ handler[h].pc = "publish" /\ callbacks' = Append(callbacks, e)
      /\ UNCHANGED <<rows, catalog, stream, queue, shown, clean>>
  BY DEF Publish, state, pages
<1>2. Now' = Now
  BY <1>1 DEF Now
<1>3. e \in Event /\ e.name = handler[h].fragment /\ e.what = handler[h].what
  BY DEF Threads, Event
<1>4. /\ handler[h].fragment = "table" => handler'[h].pc = "render" /\ handler'[h].fragment = "panel"
      /\ handler[h].fragment # "table" => handler'[h].pc = "idle"
      /\ \A g \in Handlers \ {h} : handler'[g] = handler[g]
  BY DEF Publish, Idle, Threads
<1> HIDE DEF e
<1>5. ASSUME clean # {} PROVE OneAtWork' /\ Fresh(callbacks, Now)' /\ e.what = Now
  <2>1. OneAtWork /\ Fresh(callbacks, Now) /\ handler[h].what = Now
    BY <1>1, <1>5 DEF CleanInv, OneAtWork
  <2>2. OneAtWork'
    BY <1>1, <1>2, <1>4, <2>1 DEF OneAtWork
  <2>3. Fresh(callbacks', Now')
    BY <1>1, <1>2, <1>3, <2>1, FreshAppended
  <2> QED BY <1>3, <2>1, <2>2, <2>3
<1>6. ASSUME NEW p \in clean PROVE Heard(p)'
  <2>1. Heard(p) /\ OneAtWork
    BY <1>6 DEF CleanInv
  <2>2. ASSUME Fragment[p] # "jobs", Coming(p) PROVE Coming(p)'
    <3>1. \A f : Holds(callbacks', f) <=> Holds(callbacks, f) \/ e.name = f
      BY <1>1, <1>3, FreshAppended
    <3>2. ASSUME NEW g \in Handlers, Brings(g, Fragment[p]), e.name # Fragment[p]
          PROVE  Brings(h, Fragment[p])'
      <4>1. g = h
        BY <1>1, <2>1, <3>2 DEF Brings, OneAtWork
      <4>2. handler[h].fragment = "table" /\ Fragment[p] = "panel"
        BY <1>3, <2>2, <3>2, <4>1, BusAssumption DEF Brings, Fragments
      <4> QED BY <1>4, <4>2 DEF Brings
    <3> QED BY <1>1, <2>2, <3>1, <3>2 DEF Coming, UpToDate
  <2> QED BY <1>1, <1>2, <2>1, <2>2 DEF Heard
<1> QED BY <1>1, <1>5, <1>6 DEF CleanInv

(***************************************************************************)
(* The event loop.                                                          *)
(***************************************************************************)
\* A callback hands its event to the page, or the page is not clean any more.
LEMMA FanoutClean == ASSUME BusTyped, CleanInv, TableFirst', Fanout PROVE CleanInv'
<1> USE DEF BusTyped, Serving, Paging
<1> DEFINE e == Head(callbacks)
<1>1. /\ callbacks # <<>> /\ callbacks' = Tail(callbacks)
      /\ UNCHANGED <<rows, catalog, handler, stream, shown>>
      /\ queue' = [p \in Pages |-> IF stream[p] = "on" THEN Offered(queue[p], e) ELSE queue[p]]
      /\ clean' = {p \in clean : Len(queue[p]) < QueueSize}
  BY DEF Fanout, state
<1>2. e \in Event
  BY <1>1, Shortened
<1>3. Now' = Now
  BY <1>1 DEF Now
<1>4. ASSUME clean # {}
      PROVE  /\ OneAtWork' /\ Fresh(callbacks', Now')
             /\ e.name \in Fragments => e.what = Now
  <2>1. OneAtWork /\ Fresh(callbacks, Now)
    BY <1>4 DEF CleanInv
  <2>2. OneAtWork'
    BY <1>1, <1>3, <2>1 DEF OneAtWork
  <2> QED BY <1>1, <1>3, <2>1, <2>2, FreshShortened
<1>5. \A f : Holds(callbacks, f) => e.name = f \/ Holds(callbacks', f)
  BY <1>1, FreshShortened
<1> HIDE DEF e
<1>6. ASSUME NEW p \in clean' PROVE Heard(p)'
  <2>1. p \in clean /\ p \in Pages /\ Len(queue[p]) < QueueSize /\ Heard(p)
    BY <1>1 DEF CleanInv
  <2>2. queue'[p] = Append(queue[p], e)
    BY <1>1, <2>1 DEF Offered, Heard
  <2>3. /\ Fresh(queue'[p], Now')
        /\ \A f : Holds(queue'[p], f) <=> Holds(queue[p], f) \/ e.name = f
    BY <1>2, <1>3, <1>4, <2>1, <2>2, FreshAppended DEF Heard
  <2>4. Coming(p) => Coming(p)'
    BY <1>1, <1>5, <2>3 DEF Coming, UpToDate, Brings
  <2> QED BY <1>1, <2>1, <2>3, <2>4 DEF Heard
<1>7. clean' # {} => clean # {}
  BY <1>1
<1> QED BY <1>4, <1>6, <1>7 DEF CleanInv

\* Changes elsewhere, and jobs, are none of the rows or of the catalog.
LEMMA OutsideClean ==
  ASSUME BusTyped, CleanInv, TableFirst',
         ChangeWithcache \/ ChangeJob \/ Terminate \/ EndGrace \/ Close \/ Restart
  PROVE  CleanInv'
<1> USE DEF BusTyped, Serving, Paging
<1>1. CASE EndGrace \/ Restart
  BY <1>1, NobodyClean DEF EndGrace, Restart
<1>2. CASE ChangeWithcache \/ ChangeJob \/ Terminate \/ Close
  <2>1. /\ UNCHANGED <<rows, catalog, handler, stream, queue, shown, clean>>
        /\ \/ callbacks' = callbacks
           \/ callbacks' = Append(callbacks, [name |-> "job", what |-> Nothing])
    BY <1>2 DEF ChangeWithcache, ChangeJob, Terminate, Close, state, pages
  <2>2. Now' = Now
    BY <2>1 DEF Now
  <2>3. ASSUME callbacks' = Append(callbacks, [name |-> "job", what |-> Nothing])
        PROVE  /\ \A f : Holds(callbacks, f) => Holds(callbacks', f)
               /\ Fresh(callbacks, Now) => Fresh(callbacks', Now)
    <3>1. [name |-> "job", what |-> Nothing] \in Event /\ "job" \notin Fragments
      BY SnapshotTyped DEF Event, Fragments
    <3> QED BY <2>3, <3>1, FreshAppended
  <2>4. \A f : Holds(callbacks, f) => Holds(callbacks', f)
    BY <2>1, <2>3
  <2>5. Fresh(callbacks, Now) => Fresh(callbacks', Now')
    BY <2>1, <2>2, <2>3
  <2>6. OneAtWork => OneAtWork'
    BY <2>1, <2>2 DEF OneAtWork
  <2>7. ASSUME NEW p \in clean PROVE Heard(p)'
    <3>1. Heard(p)
      BY <2>7 DEF CleanInv
    <3>2. Coming(p) => Coming(p)'
      BY <2>1, <2>4 DEF Coming, UpToDate, Brings
    <3> QED BY <2>1, <2>2, <3>1, <3>2 DEF Heard
  <2> QED BY <2>1, <2>5, <2>6, <2>7 DEF CleanInv
<1> QED BY <1>1, <1>2

(***************************************************************************)
(* The pages.                                                               *)
(***************************************************************************)
\* What happens to the connection of one page concerns no other.
LEMMA OtherPage ==
  ASSUME CleanInv, NEW p \in clean, NEW q, q # p,
         UNCHANGED <<rows, catalog, handler, callbacks>>,
         stream'[p] = stream[p], queue'[p] = queue[p],
         shown'[p].rows = shown[p].rows, shown'[p].catalog = shown[p].catalog
  PROVE  Heard(p)'
<1>1. Heard(p) /\ Now' = Now
  BY DEF CleanInv, Now
<1>2. Coming(p) => Coming(p)'
  BY DEF Coming, UpToDate, Brings
<1> QED BY <1>1, <1>2 DEF Heard

LEMMA PageClean ==
  ASSUME BusTyped, CleanInv, TableFirst', NEW q \in Pages,
         Connect(q) \/ Stream(q) \/ Lost(q) \/ Poll(q) \/ Answer(q)
  PROVE  CleanInv'
<1> USE DEF BusTyped, Serving, Paging
<1>1. /\ UNCHANGED <<rows, catalog, handler, callbacks>>
      /\ clean' = IF Lost(q) THEN clean \ {q} ELSE clean
      /\ \A p \in Pages \ {q} :
           stream'[p] = stream[p] /\ queue'[p] = queue[p] /\ shown'[p] = shown[p]
  <2>1. CASE Connect(q) \/ Poll(q)
    BY <2>1 DEF Connect, Poll, Lost, Runs, state
  <2>2. CASE Stream(q)
    <3>1. UNCHANGED <<rows, catalog, handler, callbacks, clean>>
      BY <2>2 DEF Stream, SendSnapshot, Subscribe, Deliver, state
    <3>2. \A p \in Pages \ {q} : stream'[p] = stream[p] /\ queue'[p] = queue[p]
      BY <2>2 DEF Stream, SendSnapshot, Subscribe, Deliver, Runs
    <3>3. \A p \in Pages \ {q} : shown'[p] = shown[p]
      BY <2>2 DEF Stream, SendSnapshot, Subscribe, Deliver
    <3>4. ~Lost(q)
      BY <2>2 DEF Stream, SendSnapshot, Subscribe, Deliver, Lost, server
    <3> QED BY <3>1, <3>2, <3>3, <3>4
  <2>3. CASE Lost(q)
    BY <2>3 DEF Lost, Runs, state
  <2>4. CASE Answer(q)
    <3>1. \A p \in Pages \ {q} : shown'[p] = shown[p]
      BY <2>4 DEF Answer
    <3> QED BY <2>4, <3>1 DEF Answer, Lost, state
  <2> QED BY <2>1, <2>2, <2>3, <2>4
<1>2. Now' = Now
  BY <1>1 DEF Now
<1>3. clean # {} => OneAtWork' /\ Fresh(callbacks', Now')
  BY <1>1, <1>2 DEF CleanInv, OneAtWork
<1>4. ASSUME NEW p \in clean', p # q PROVE Heard(p)'
  BY <1>1, <1>4, OtherPage
<1>5. ASSUME q \in clean' PROVE Heard(q)'
  <2>1. q \in clean /\ Heard(q) /\ ~Lost(q)
    BY <1>1, <1>5 DEF CleanInv
  <2>2. CASE Connect(q) \/ SendSnapshot(q) \/ Subscribe(q)
    BY <2>1, <2>2 DEF Heard, Connect, SendSnapshot, Subscribe, Fragments
  <2>3. CASE Poll(q) \/ Answer(q)
    <3>1. /\ stream' = stream /\ queue' = queue
          /\ shown'[q].rows = shown[q].rows /\ shown'[q].catalog = shown[q].catalog
      BY <2>3 DEF Poll, Answer, Shown
    <3>2. Coming(q) => Coming(q)'
      BY <1>1, <3>1 DEF Coming, UpToDate, Brings
    <3> QED BY <1>2, <2>1, <3>1, <3>2 DEF Heard
  <2>4. CASE Deliver(q)
    <3>1. stream[q] = "on" /\ queue[q] # <<>>
      BY <2>4 DEF Deliver
    <3>2. stream' = stream /\ queue'[q] = Tail(queue[q])
      BY <2>4, <3>1 DEF Deliver
    <3>3. /\ Fresh(queue'[q], Now')
          /\ Head(queue[q]).name \in Fragments => Head(queue[q]).what = Now
          /\ \A f : Holds(queue[q], f) => Head(queue[q]).name = f \/ Holds(queue'[q], f)
      BY <1>2, <2>1, <3>1, <3>2, FreshShortened DEF Heard
    <3>4. Head(queue[q]).name # Fragment[q] => shown' = shown
      BY <2>4 DEF Deliver
    <3>5. ASSUME Fragment[q] # "jobs", Head(queue[q]).name = Fragment[q] PROVE UpToDate(q)'
      <4>1. Head(queue[q]).what = Now
        BY <3>3, <3>5, BusAssumption
      <4>2. shown'[q].rows = Now.rows /\ shown'[q].catalog = Now.catalog
        BY <2>4, <3>5, <4>1 DEF Deliver, Shown
      <4> QED BY <1>1, <4>2 DEF UpToDate, Now
    <3>6. Fragment[q] # "jobs" => Coming(q)'
      BY <1>1, <2>1, <3>1, <3>3, <3>4, <3>5 DEF Heard, Coming, UpToDate, Brings
    <3> QED BY <3>1, <3>2, <3>3, <3>6 DEF Heard
  <2> QED BY <2>1, <2>2, <2>3, <2>4 DEF Stream
<1> QED BY <1>1, <1>3, <1>4, <1>5 DEF CleanInv

\* Every step keeps the invariant.
LEMMA StepClean == BusTyped /\ CleanInv /\ [BusNext]_vars => CleanInv'
<1> SUFFICES ASSUME BusTyped, CleanInv, [BusNext]_vars PROVE CleanInv'
  OBVIOUS
<1>1. TableFirst'
  BY TableFirstStays DEF CleanInv
<1>2. ASSUME NEW h \in Handlers, Change(h) \/ Republish(h) \/ FetchCatalog(h) \/ Handle(h)
      PROVE  CleanInv'
  <2>1. CASE FetchCatalog(h)
    BY <1>1, <2>1, NobodyClean DEF FetchCatalog
  <2>2. CASE Change(h) \/ Republish(h)
    BY <1>1, <2>2, BeginsClean DEF Change, Republish
  <2>3. CASE Handle(h)
    BY <1>1, <2>3, StoreClean, RenderClean, PublishClean DEF Handle
  <2> QED BY <1>2, <2>1, <2>2, <2>3
<1>3. CASE UNCHANGED vars
  BY <1>3 DEF vars, CleanInv, TableFirst, OneAtWork, Heard, Coming, UpToDate, Brings, Now
<1> QED BY <1>1, <1>2, <1>3, OutsideClean, FanoutClean, PageClean DEF BusNext

\* Whatever a page has missed, it is up to date when it has heard of a change
\* that no other handler overlaps and whose events found room in its queue, for any
\* number of handlers, pages and faults.
THEOREM NextChangeCatchesUpHolds == BusSpec => []NextChangeCatchesUp
<1>1. BusInit => CleanInv
  BY DEF BusInit, CleanInv, TableFirst, Idle
<1> QED BY <1>1, TypedHolds, StepClean, CleanIsWanted, PTL DEF BusSpec
=============================================================================
