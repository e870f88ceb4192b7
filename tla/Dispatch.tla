------------------------------ MODULE Dispatch ------------------------------
(***************************************************************************)
(* The dispatch layer of the module (src/dispatch.rs): how a captured      *)
(* keyspace event reaches the stream it is mirrored to.                    *)
(*                                                                         *)
(* The Redis main thread runs client commands.  The notification callback  *)
(* of a captured event either registers a post-notification job ("sync"    *)
(* mode, or a full or contended queue) or pushes the event on a bounded    *)
(* FIFO.  Jobs run when the command's execution unit ends, before the main *)
(* thread gives up Redis's global lock (the GIL).  A worker thread waits   *)
(* on the FIFO, try-locks the GIL and writes what it drains.  MODULE       *)
(* UNLOAD stops and joins the worker and writes what it hands back.        *)
(*                                                                         *)
(* An event is its place in the notification order (`id') and what it is   *)
(* grouped by when an envelope is built (`dst': prefix, suffix, retention  *)
(* and stream cap, abstracted to one value).                               *)
(***************************************************************************)
EXTENDS Integers, Sequences, FiniteSets

CONSTANTS
  Mode,       \* the configured write-mode: "sync", "individual" or "envelope"
  Capacity,   \* async-queue-capacity
  BatchSize,  \* async-batch-size
  MaxEvents,  \* bound: how many events are notified in a behaviour
  Dests,      \* the values of `dst'
  Faults      \* the failures that may happen, a subset of FaultKinds

\* "defer": a post-notification job cannot be registered.
\* "write": an XADD is refused (OOM, WRONGTYPE, cap ...).
\* "panic": the processing of a job panics inside guard_job.
\* "context": the worker cannot create its thread-safe context.
\* "abort": the worker panics outside guard_job, while it encodes envelopes.
FaultKinds == {"defer", "write", "panic", "context", "abort"}

ASSUME ConstantsAssumption ==
  /\ Mode \in {"sync", "individual", "envelope"}
  /\ Capacity \in Nat \ {0}
  /\ BatchSize \in Nat \ {0}
  /\ MaxEvents \in Nat
  /\ Dests # {}
  /\ Faults \subseteq FaultKinds

VARIABLES
  \* Shared by the threads.
  gil,         \* who holds Redis's global lock: "free", "main" or "worker"
  mutex,       \* who holds the queue mutex between two steps: "free" or "worker"
  stop,        \* STOP_WORKER
  queue,       \* the FIFO: a sequence of events
  depth,       \* ASYNC_QUEUE_DEPTH
  batch,       \* what the holder of the GIL drained and has still to write
  \* The main thread.
  main,        \* what the main thread is doing
  activeMode,  \* ACTIVE_MODE
  nextId,      \* NEXT_EVENT_ID; in "sync" mode a count of the notifications
  jobs,        \* registered post-notification jobs: the event of each
  \* The worker thread.
  worker,      \* where the worker is in worker_main
  snap,        \* the prepared envelope snapshot: its events, or <<>> for None
  handed,      \* the thread's return value: events for the joiner to finish
  \* What became of the events.
  log,         \* stream entries in the order they were written
  lost,        \* ids counted in EVENTS_LOST
  enqueued,    \* ASYNC_ENQUEUED
  drained,     \* ASYNC_DRAIN_EVENTS
  panics       \* HANDLER_PANICS

shared     == <<gil, mutex, stop, queue, depth, batch>>
mainVars   == <<main, activeMode, nextId, jobs>>
workerVars == <<worker, snap, handed>>
outcomes   == <<log, lost, enqueued, drained, panics>>
vars       == <<shared, mainVars, workerVars, outcomes>>

Event == [id : Nat, dst : Dests]
Entry == [dst : Dests, events : Seq(Event)]

MainStates   == {"idle", "unit", "jobs", "wake", "join", "finish", "unloaded"}
WorkerStates == {"none", "start", "lock", "check", "eval", "sleep", "timed",
                 "timeout", "ready", "stopcheck", "try", "drain", "process",
                 "drainall", "exited", "panicked"}

(***************************************************************************)
(* start_dispatch_worker succeeded: a fresh queue and, in a worker mode, a *)
(* worker thread that has not run yet.                                     *)
(***************************************************************************)
Init ==
  /\ gil = "free" /\ mutex = "free" /\ stop = FALSE
  /\ queue = <<>> /\ depth = 0 /\ batch = <<>>
  /\ main = "idle" /\ activeMode = Mode /\ nextId = 0 /\ jobs = <<>>
  /\ worker = (IF Mode = "sync" THEN "none" ELSE "start")
  /\ snap = <<>> /\ handed = <<>>
  /\ log = <<>> /\ lost = {}
  /\ enqueued = 0 /\ drained = 0 /\ panics = 0

Ids(s) == {s[i].id : i \in DOMAIN s}

(***************************************************************************)
(* Writing.  process_pending_event is one XADD of one event and            *)
(* process_pending_envelope one XADD of a run of events; both either write *)
(* the entry or count every event of it as lost.  Under guard_job a panic  *)
(* drops what the guarded body had left to do.                             *)
(***************************************************************************)
Write(n) ==
  LET es == SubSeq(batch, 1, n) IN
  /\ log' = Append(log, [dst |-> es[1].dst, events |-> es])
  /\ batch' = SubSeq(batch, n + 1, Len(batch))
  /\ UNCHANGED <<lost, enqueued, drained, panics>>

Refuse(n) ==
  /\ "write" \in Faults
  /\ lost' = lost \cup Ids(SubSeq(batch, 1, n))
  /\ batch' = SubSeq(batch, n + 1, Len(batch))
  /\ UNCHANGED <<log, enqueued, drained, panics>>

Process(n) == Write(n) \/ Refuse(n)

\* A caught panic: the guarded body's remaining n events are dropped.
Panic(n) ==
  /\ "panic" \in Faults
  /\ panics' = panics + 1
  /\ batch' = SubSeq(batch, n + 1, Len(batch))
  /\ UNCHANGED <<log, lost, enqueued, drained>>

-----------------------------------------------------------------------------
(***************************************************************************)
(* The main thread.                                                        *)
(***************************************************************************)

\* The callback of a captured event runs in the execution unit of the command
\* that caused it; the main thread holds the GIL from then to the unit's end.
InUnit ==
  /\ nextId < MaxEvents
  /\ \/ main = "idle" /\ gil = "free"
     \/ main = "unit"
  /\ main' = "unit" /\ gil' = "main"
  /\ nextId' = nextId + 1

\* Registers the job that will write event e.  A refused registration loses
\* the event: count_defer_failure.
Defer(e) ==
  \/ /\ jobs' = Append(jobs, e)
     /\ UNCHANGED lost
  \/ /\ "defer" \in Faults
     /\ lost' = lost \cup {e.id}
     /\ UNCHANGED jobs

NotifySync(d) ==
  /\ activeMode = "sync"
  /\ InUnit
  /\ Defer([id |-> nextId, dst |-> d])
  /\ UNCHANGED <<mutex, stop, queue, depth, batch, activeMode, workerVars, log,
                 enqueued, drained, panics>>

\* notify_one and notify_all: at most one thread waits on the condition variable.
Notified(w) == IF w \in {"sleep", "timed"} THEN "lock" ELSE w

\* Mutant: the push does not notify the worker.
NotifyPushNoWake(d) ==
  /\ activeMode # "sync"
  /\ InUnit
  /\ mutex = "free"
  /\ Len(queue) < Capacity
  /\ queue' = Append(queue, [id |-> nextId, dst |-> d])
  /\ depth' = depth + 1
  /\ enqueued' = enqueued + 1
  /\ UNCHANGED <<mutex, stop, batch, activeMode, jobs, workerVars, log, lost,
                 drained, panics>>

\* try_push succeeds: push, count, release the mutex and notify the worker.
NotifyPush(d) ==
  /\ activeMode # "sync"
  /\ InUnit
  /\ mutex = "free"
  /\ Len(queue) < Capacity
  /\ queue' = Append(queue, [id |-> nextId, dst |-> d])
  /\ depth' = depth + 1
  /\ enqueued' = enqueued + 1
  /\ worker' = Notified(worker)
  /\ UNCHANGED <<mutex, stop, batch, activeMode, jobs, snap, handed, log, lost,
                 drained, panics>>

\* try_push fails: the queue is full, or the mutex is contended for longer than
\* the callback's spin budget.  The event becomes an ordered-fallback job.
NotifyFallback(d) ==
  /\ activeMode # "sync"
  /\ InUnit
  /\ mutex = "worker" \/ Len(queue) >= Capacity
  /\ Defer([id |-> nextId, dst |-> d])
  /\ UNCHANGED <<mutex, stop, queue, depth, batch, activeMode, workerVars, log,
                 enqueued, drained, panics>>

\* The execution unit ends: Redis runs the registered jobs, then lets go of
\* the GIL.
EndUnit ==
  /\ main = "unit"
  /\ main' = "jobs"
  /\ UNCHANGED <<shared, activeMode, nextId, jobs, workerVars, outcomes>>

RunSyncJob ==
  /\ main = "jobs" /\ batch = <<>> /\ jobs # <<>>
  /\ activeMode = "sync"
  /\ batch' = <<Head(jobs)>>
  /\ jobs' = Tail(jobs)
  /\ UNCHANGED <<gil, mutex, stop, queue, depth, main, activeMode, nextId,
                 workerVars, outcomes>>

\* Mutant: the fallback drains the whole FIFO, later events included.
PrefixWhole(n, id) == n = Len(queue)

\* drain_before(id): the longest prefix of the FIFO with smaller ids.
PrefixBefore(n, id) ==
  /\ n \in 0..Len(queue)
  /\ \A i \in 1..n : queue[i].id < id
  /\ n < Len(queue) => queue[n + 1].id >= id

\* Mutants: the fallback writes its own event without draining first; it copies
\* the earlier events without taking them off; it does not adjust the gauge.
RunFallbackJobUnordered ==
  /\ main = "jobs" /\ batch = <<>> /\ jobs # <<>>
  /\ activeMode # "sync"
  /\ batch' = <<Head(jobs)>>
  /\ jobs' = Tail(jobs)
  /\ UNCHANGED <<gil, mutex, stop, queue, depth, main, activeMode, nextId,
                 workerVars, outcomes>>

RunFallbackJobKeep ==
  /\ main = "jobs" /\ batch = <<>> /\ jobs # <<>>
  /\ activeMode # "sync"
  /\ mutex = "free"
  /\ \E n \in 0..Len(queue) :
       /\ PrefixBefore(n, Head(jobs).id)
       /\ batch' = Append(SubSeq(queue, 1, n), Head(jobs))
       /\ drained' = drained + n
  /\ jobs' = Tail(jobs)
  /\ UNCHANGED <<gil, mutex, stop, queue, depth, main, activeMode, nextId,
                 workerVars, log, lost, enqueued, panics>>

RunFallbackJobNoGauge ==
  /\ main = "jobs" /\ batch = <<>> /\ jobs # <<>>
  /\ activeMode # "sync"
  /\ mutex = "free"
  /\ \E n \in 0..Len(queue) :
       /\ PrefixBefore(n, Head(jobs).id)
       /\ batch' = Append(SubSeq(queue, 1, n), Head(jobs))
       /\ queue' = SubSeq(queue, n + 1, Len(queue))
       /\ drained' = drained + n
  /\ jobs' = Tail(jobs)
  /\ UNCHANGED <<gil, mutex, stop, depth, main, activeMode, nextId, workerVars,
                 log, lost, enqueued, panics>>

\* The ordered fallback: what was queued before this event, then the event.
RunFallbackJob ==
  /\ main = "jobs" /\ batch = <<>> /\ jobs # <<>>
  /\ activeMode # "sync"
  /\ mutex = "free"
  /\ \E n \in 0..Len(queue) :
       /\ PrefixBefore(n, Head(jobs).id)
       /\ batch' = Append(SubSeq(queue, 1, n), Head(jobs))
       /\ queue' = SubSeq(queue, n + 1, Len(queue))
       /\ depth' = depth - n
       /\ drained' = drained + n
  /\ jobs' = Tail(jobs)
  /\ UNCHANGED <<gil, mutex, stop, main, activeMode, nextId, workerVars, log, lost,
                 enqueued, panics>>

\* One guard_job encloses the whole job.
ProcessJob ==
  /\ main = "jobs" /\ batch # <<>>
  /\ Process(1) \/ Panic(Len(batch))
  /\ UNCHANGED <<gil, mutex, stop, queue, depth, mainVars, workerVars>>

EndJobs ==
  /\ main = "jobs" /\ batch = <<>> /\ jobs = <<>>
  /\ main' = "idle" /\ gil' = "free"
  /\ UNCHANGED <<mutex, stop, queue, depth, batch, activeMode, nextId, jobs,
                 workerVars, outcomes>>

\* MODULE UNLOAD, stop_dispatch_worker.  In "sync" mode there is nothing to stop.
UnloadSync ==
  /\ main = "idle" /\ gil = "free" /\ activeMode = "sync"
  /\ main' = "unloaded"
  /\ UNCHANGED <<shared, activeMode, nextId, jobs, workerVars, outcomes>>

\* The stop flag is stored without the queue mutex ...
StoreStop ==
  /\ main = "idle" /\ gil = "free" /\ activeMode # "sync"
  /\ main' = "wake" /\ gil' = "main"
  /\ stop' = TRUE
  /\ activeMode' = "sync"
  /\ UNCHANGED <<mutex, queue, depth, batch, nextId, jobs, workerVars, outcomes>>

\* ... and so is the wake-up sent: a thread that is not waiting yet misses it.
Wake ==
  /\ main = "wake"
  /\ main' = "join"
  /\ worker' = Notified(worker)
  /\ UNCHANGED <<shared, activeMode, nextId, jobs, snap, handed, outcomes>>

\* Mutant: the thread's return value is dropped.
JoinOkDropped ==
  /\ main = "join" /\ worker = "exited"
  /\ main' = "finish"
  /\ depth' = 0
  /\ handed' = <<>>
  /\ UNCHANGED <<gil, mutex, stop, queue, batch, activeMode, nextId, jobs, worker,
                 snap, outcomes>>

\* join returned Ok(pending): zero the gauge, then finish what was handed over.
JoinOk ==
  /\ main = "join" /\ worker = "exited"
  /\ main' = "finish"
  /\ depth' = 0
  /\ batch' = handed /\ handed' = <<>>
  /\ UNCHANGED <<gil, mutex, stop, queue, activeMode, nextId, jobs, worker, snap,
                 outcomes>>

\* join returned Err: the gauge says how many events the worker left behind.
JoinErr ==
  /\ main = "join" /\ worker = "panicked"
  /\ main' = "finish"
  /\ depth' = 0
  /\ lost' = lost \cup {queue[i].id : i \in (1..depth) \cap DOMAIN queue}
  /\ UNCHANGED <<gil, mutex, stop, queue, batch, activeMode, nextId, jobs,
                 workerVars, log, enqueued, drained, panics>>

ProcessHanded ==
  /\ main = "finish" /\ batch # <<>>
  /\ Process(1) \/ Panic(1)
  /\ UNCHANGED <<gil, mutex, stop, queue, depth, mainVars, workerVars>>

\* The queue slot is cleared: whatever the queue still holds is freed.
FinishUnload ==
  /\ main = "finish" /\ batch = <<>>
  /\ main' = "unloaded" /\ gil' = "free"
  /\ queue' = <<>>
  /\ UNCHANGED <<mutex, stop, depth, batch, activeMode, nextId, jobs, workerVars,
                 outcomes>>

-----------------------------------------------------------------------------
(***************************************************************************)
(* The worker thread.                                                      *)
(***************************************************************************)

\* RawThreadContext::new: without a context the thread drains and exits.
WorkerStart ==
  /\ worker = "start"
  /\ \/ worker' = "lock"
     \/ "context" \in Faults /\ worker' = "drainall"
  /\ UNCHANGED <<shared, mainVars, snap, handed, outcomes>>

\* wait_until_ready: lock the mutex, on entry or when the wait was notified.
WaitLock ==
  /\ worker = "lock" /\ mutex = "free"
  /\ mutex' = "worker" /\ worker' = "check"
  /\ UNCHANGED <<gil, stop, queue, depth, batch, mainVars, snap, handed, outcomes>>

\* The wait timed out: with the mutex again, return if something is queued.
WaitTimedOut ==
  /\ worker = "timeout" /\ mutex = "free"
  /\ IF queue # <<>> THEN worker' = "ready" /\ UNCHANGED mutex
                     ELSE worker' = "check" /\ mutex' = "worker"
  /\ UNCHANGED <<gil, stop, queue, depth, batch, mainVars, snap, handed, outcomes>>

\* Top of the loop in wait_until_ready: the stop flag is read ...
WaitCheck ==
  /\ worker = "check"
  /\ IF stop THEN worker' = "drainall" /\ mutex' = "free"
             ELSE worker' = "eval" /\ UNCHANGED mutex
  /\ UNCHANGED <<gil, stop, queue, depth, batch, mainVars, snap, handed, outcomes>>

\* ... then the queue, and the thread returns or goes to sleep.  The deadline
\* of the oldest event may or may not have passed.
WaitEval ==
  /\ worker = "eval"
  /\ \/ Len(queue) >= BatchSize /\ worker' = "ready"
     \/ Len(queue) < BatchSize /\ queue = <<>> /\ worker' = "sleep"
     \/ Len(queue) < BatchSize /\ queue # <<>> /\ worker' \in {"ready", "timed"}
  /\ mutex' = "free"
  /\ UNCHANGED <<gil, stop, queue, depth, batch, mainVars, snap, handed, outcomes>>

WaitTimeout ==
  /\ worker = "timed"
  /\ worker' = "timeout"
  /\ UNCHANGED <<shared, mainVars, snap, handed, outcomes>>

\* A condition variable may wake without a notification.
SpuriousWake ==
  /\ worker \in {"sleep", "timed"}
  /\ worker' = "lock"
  /\ UNCHANGED <<shared, mainVars, snap, handed, outcomes>>

SmallerOf(a, b) == IF a <= b THEN a ELSE b

\* In envelope mode prepare_envelopes copies a prefix of the FIFO and encodes
\* it, leaving it queued; an empty FIFO gives None.
Prepare ==
  /\ worker = "ready"
  /\ Mode = "envelope" => mutex = "free"
  /\ snap' = IF Mode = "envelope"
             THEN SubSeq(queue, 1, SmallerOf(Len(queue), BatchSize))
             ELSE <<>>
  /\ worker' = "stopcheck"
  /\ UNCHANGED <<shared, mainVars, handed, outcomes>>

WorkerAbort ==
  /\ "abort" \in Faults
  /\ worker = "ready" /\ Mode = "envelope" /\ mutex = "free" /\ queue # <<>>
  /\ worker' = "panicked"
  /\ UNCHANGED <<shared, mainVars, snap, handed, outcomes>>

\* Mutant: the try-lock loop does not look at the stop flag.
StopCheckNever ==
  /\ worker = "stopcheck"
  /\ worker' = "try"
  /\ UNCHANGED <<shared, mainVars, snap, handed, outcomes>>

StopCheck ==
  /\ worker = "stopcheck"
  /\ worker' = IF stop THEN "drainall" ELSE "try"
  /\ UNCHANGED <<shared, mainVars, snap, handed, outcomes>>

\* The GIL is only ever tried: the thread never blocks on it.
TryLock ==
  /\ worker = "try"
  /\ IF gil = "free" THEN gil' = "worker" /\ worker' = "drain"
                     ELSE UNCHANGED gil /\ worker' = "stopcheck"
  /\ UNCHANGED <<mutex, stop, queue, depth, batch, mainVars, snap, handed, outcomes>>

\* Mutant: any FIFO that is long enough is taken for the snapshot.
SnapshotLongEnough == Len(queue) >= Len(snap)

\* drain_snapshot's test: the FIFO still begins and ends like the snapshot.
SnapshotMatches ==
  /\ Len(queue) >= Len(snap)
  /\ queue[1].id = snap[1].id
  /\ queue[Len(snap)].id = snap[Len(snap)].id

\* How many events the worker takes off the FIFO now that it holds the GIL.
DrainCount ==
  IF snap = <<>> THEN SmallerOf(Len(queue), BatchSize)
  ELSE IF SnapshotMatches THEN Len(snap) ELSE 0

\* What it then writes: the snapshot's events, or the ones it took.
Drain ==
  /\ worker = "drain" /\ mutex = "free"
  /\ LET n == DrainCount IN
       /\ batch' = IF snap = <<>> THEN SubSeq(queue, 1, n) ELSE SubSeq(snap, 1, n)
       /\ queue' = SubSeq(queue, n + 1, Len(queue))
       /\ depth' = depth - n
       /\ drained' = drained + n
  /\ worker' = "process"
  /\ UNCHANGED <<gil, mutex, stop, mainVars, snap, handed, log, lost,
                 enqueued, panics>>

\* The next PreparedGroup: the longest run compatible with the first event.
FirstGroup(n) ==
  /\ n \in 1..Len(batch)
  /\ \A i \in 1..n : batch[i].dst = batch[1].dst
  /\ n < Len(batch) => batch[n + 1].dst # batch[1].dst

\* Each group, or each event, is guarded by a guard_job of its own.
ProcessBatch ==
  /\ worker = "process" /\ batch # <<>>
  /\ \E n \in 1..Len(batch) :
       /\ IF snap = <<>> THEN n = 1 ELSE FirstGroup(n)
       /\ Process(n) \/ Panic(n)
  /\ UNCHANGED <<gil, mutex, stop, queue, depth, mainVars, workerVars>>

Release ==
  /\ worker = "process" /\ batch = <<>>
  /\ gil' = "free"
  /\ worker' = "lock" /\ snap' = <<>>
  /\ UNCHANGED <<mutex, stop, queue, depth, batch, mainVars, handed, outcomes>>

\* drain_all, the thread's return value.
DrainAll ==
  /\ worker = "drainall" /\ mutex = "free"
  /\ handed' = queue /\ queue' = <<>>
  /\ depth' = depth - Len(queue)
  /\ worker' = "exited" /\ snap' = <<>>
  /\ UNCHANGED <<gil, mutex, stop, batch, mainVars, outcomes>>

-----------------------------------------------------------------------------
MainStep ==
  \/ EndUnit \/ RunSyncJob \/ RunFallbackJob \/ ProcessJob \/ EndJobs
  \/ Wake \/ JoinOk \/ JoinErr \/ ProcessHanded \/ FinishUnload

WorkerStep ==
  \/ WorkerStart \/ WaitLock \/ WaitTimedOut \/ WaitCheck \/ WaitEval
  \/ WaitTimeout \/ Prepare \/ WorkerAbort \/ StopCheck \/ TryLock \/ Drain
  \/ ProcessBatch \/ Release \/ DrainAll

Environment ==
  \/ \E d \in Dests : NotifySync(d) \/ NotifyPush(d) \/ NotifyFallback(d)
  \/ UnloadSync \/ StoreStop \/ SpuriousWake

\* The module is gone: nothing of it runs any more.
Terminated == main = "unloaded" /\ UNCHANGED vars

Next == MainStep \/ WorkerStep \/ Environment \/ Terminated

Spec == Init /\ [][Next]_vars

\* Both threads keep running, and a worker that keeps looking at a non-empty
\* FIFO finds its deadline passed one day: the deadline is a fixed instant, so
\* repeated wake-ups do not move it.  Nothing is assumed of clients, of MODULE
\* UNLOAD or of spurious wake-ups.
Fairness ==
  /\ WF_vars(MainStep)
  /\ WF_vars(WorkerStep)
  /\ SF_vars(WaitEval /\ worker' = "ready")

FairSpec == Spec /\ Fairness

-----------------------------------------------------------------------------
(***************************************************************************)
(* Properties.                                                             *)
(***************************************************************************)
WrittenIds == UNION {Ids(log[i].events) : i \in DOMAIN log}
NotifiedIds  == 0 .. nextId - 1

\* The variables have the types of the statics, the queue and the two threads'
\* program counters of dispatch.rs.
TypeOK ==
  /\ gil \in {"free", "main", "worker"}
  /\ mutex \in {"free", "worker"}
  /\ stop \in BOOLEAN
  /\ queue \in Seq(Event) /\ batch \in Seq(Event) /\ jobs \in Seq(Event)
  /\ snap \in Seq(Event) /\ handed \in Seq(Event)
  /\ depth \in Nat
  /\ main \in MainStates /\ worker \in WorkerStates
  /\ activeMode \in {"sync", Mode}
  /\ nextId \in Nat
  /\ log \in Seq(Entry)
  /\ lost \subseteq Nat
  /\ enqueued \in Nat /\ drained \in Nat /\ panics \in Nat

Increasing(s) == \A i, j \in DOMAIN s : i < j => s[i].id < s[j].id

\* Events are written in exactly the order they were notified, and none twice:
\* across worker drains, envelopes, ordered fallbacks and the drain at unload,
\* later entries hold later events and an envelope's array is in order.
NotificationOrder ==
  \A i, j \in DOMAIN log :
    /\ Increasing(log[i].events)
    /\ i < j => \A a \in DOMAIN log[i].events, b \in DOMAIN log[j].events :
                  log[i].events[a].id < log[j].events[b].id

\* No event is written twice, and none is both written and counted in
\* EVENTS_LOST, whichever of the worker, a fallback and the unload settles it and
\* whatever fails.
WrittenOnce ==
  /\ \A i, j \in DOMAIN log :
       \A a \in DOMAIN log[i].events, b \in DOMAIN log[j].events :
         log[i].events[a].id = log[j].events[b].id => i = j /\ a = b
  /\ WrittenIds \cap lost = {}

\* When the unload has finished, each notified event is written or counted in
\* EVENTS_LOST, unless HANDLER_PANICS tells of a panic: no path through the
\* queue, a fallback job, the worker's batch or the join drops one silently.
NoSilentLoss ==
  main = "unloaded" /\ panics = 0 => WrittenIds \cup lost = NotifiedIds

\* The encoding prepared outside the locks is used only for exactly the events
\* that are about to be taken off the FIFO: when drain_snapshot accepts by its
\* two ids, no fallback has drained and no callback has inserted in between.
SnapshotFresh ==
  worker = "drain" /\ snap # <<>> /\ SnapshotMatches
    => SubSeq(queue, 1, Len(snap)) = snap

\* The gauge is the length of the bounded FIFO whenever it can be read, and as
\* long as the worker lives what was accepted is either drained or queued.
GaugeAgrees ==
  main \notin {"finish", "unloaded"} =>
    /\ depth = Len(queue)
    /\ depth <= Capacity
    /\ worker # "exited" => enqueued = drained + depth

\* The dispatch layer implements the ordered log of EventLog.
EL == INSTANCE EventLog
        WITH notified <- nextId, written <- WrittenIds, counted <- lost,
             closed <- main = "unloaded"
EventLogSpec == EL!Spec

Queued(id) == id \in Ids(queue)
Settled(id) == id \in WrittenIds \cup lost

\* An accepted event is eventually written or counted, without any further
\* event or an unload to push it out, unless the worker thread is gone or a
\* caught panic is on record: none of the worker's waits can strand the event.
AcceptedIsSettled ==
  \A id \in 0 .. MaxEvents - 1 :
    Queued(id) ~> (Settled(id) \/ worker \in {"exited", "panicked"} \/ panics > 0)

\* MODULE UNLOAD returns.
UnloadCompletes == main = "wake" ~> main = "unloaded"

\* While the main thread joins holding the GIL, the worker never blocks on the
\* GIL: the only place it can stay in is the untimed wait on the empty FIFO.
UnloadBlockedOnlyInWait ==
  main = "join" ~> (main = "unloaded" \/ worker = "sleep")
=============================================================================
