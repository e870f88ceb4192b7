------------------------------- MODULE Markers -------------------------------
(***************************************************************************)
(* Gap markers and the life of a module generation on one node outside a   *)
(* cluster.  A lifecycle point (load, a change of eventstream.enabled, a   *)
(* flush, SWAPDB) records a pending marker and raises a flag; the next     *)
(* notification callback turns what is pending into a job that runs before *)
(* that event's entry, and a due cron tick writes it directly.  Unloading  *)
(* writes what is left and then the closing marker.                        *)
(*                                                                         *)
(* Every XADD of the module is itself notified: the callback is entered    *)
(* again, drains pending markers at its first step and then drops the event*)
(* as the module's own.                                                    *)
(*                                                                         *)
(* Time counts the commands and transactions that notify an event: what    *)
(* one of them writes carries one time stamp, and so, the clock being as   *)
(* coarse as it is, may what a worker batch, a cron tick or an unload      *)
(* writes next.  The statics outlive UNLOAD where the loader keeps the     *)
(* image, so Load starts from what is left.                                *)
(***************************************************************************)
EXTENDS Naturals, Sequences, FiniteSets

CONSTANTS
  MaxEvents,  \* bound: notified events, role changes and replayed flushes
  MaxPoints,  \* bound: markers recorded by configuration changes, flushes and swaps
  MaxLoads,   \* bound: generations
  Ops         \* what may happen in this instance

OpNames == {"async", "multi", "toggle", "flush", "swap", "role", "cron", "unload",
            "refuse", "defer"}

ASSUME MarkersAssumption ==
  /\ MaxEvents \in Nat /\ MaxPoints \in Nat /\ MaxLoads \in Nat
  /\ Ops \subseteq OpNames

VARIABLES
  at,        \* what the main thread is doing
  role,      \* this node's replication role
  enabled,   \* ENABLED
  pending,   \* PENDING_MARKERS
  dirty,     \* MARKERS_DIRTY
  jobs,      \* post-notification jobs, first registered first
  todo,      \* the direct writes of a cron tick or of deinit
  backlog,   \* events the worker's queue has accepted
  due,       \* a checkpoint period has passed since LAST_CHECKPOINT_MS
  resolved,  \* FORWARDED + EVENTS_LOST of this generation
  gen,       \* the generation: GENERATION_ID
  time,      \* execution units with an event so far
  events,    \* notified events and the like so far
  points,    \* markers recorded so far, after the first
  log,       \* what the module wrote and the flushes it saw, in order
  missed,    \* times of events a disabled master did not capture
  gone       \* markers counted as dropped, or forgotten by a load after a replica's unload
 
module == <<enabled, pending, dirty, resolved, gen>>
bounds == <<events, points>>
vars   == <<at, role, module, jobs, todo, backlog, due, time, bounds, log, missed, gone>>

Actions == {"loaded", "enabled", "disabled", "flushed", "swapdb", "unloading"}
Marker  == [kind : {"marker"}, action : Actions, point : Nat]
Event   == [kind : {"entry"}, time : Nat]
Tick    == [kind : {"checkpoint"}]
Phases  == {"idle", "unit", "jobs", "worker", "cron", "stopping", "closing", "unloaded",
            "crashed"}

AMarker(a, p) == [kind |-> "marker", action |-> a, point |-> p]
AnEvent(t)    == [kind |-> "entry", time |-> t]
Checkpoint    == [kind |-> "checkpoint"]
Loss          == [kind |-> "lost"]
Wipe          == [kind |-> "flush", by |-> role]

\* A record of the log: what was written or happened, in which execution unit, by which
\* generation, and the number of resolved events a checkpoint reports.
Written(x) == [item |-> x, unit |-> time, gen |-> gen, resolved |-> resolved]

Init ==
  /\ at = "idle" /\ role = "master"
  /\ gen = 1 /\ enabled = TRUE
  /\ pending = <<AMarker("loaded", 0)>>
  /\ dirty = TRUE
  /\ jobs = <<>> /\ todo = <<>> /\ backlog = <<>>
  /\ due = FALSE
  /\ resolved = 0 /\ time = 0 /\ events = 0 /\ points = 0
  /\ log = <<>> /\ missed = {} /\ gone = {}

-----------------------------------------------------------------------------
(***************************************************************************)
(* drain_pending_markers, the callback's step 0: on a master, everything   *)
(* pending becomes a job that follows the registered jobs js and precedes  *)
(* the jobs the rest of the callback registers, new.  When the job cannot  *)
(* be registered the markers are dropped and counted.  The markers of one  *)
(* job run one after the other, so each stands for itself in the queue.    *)
(***************************************************************************)
Drains == dirty /\ role = "master"

Points(ms) == {ms[i].point : i \in DOMAIN ms}

\* Mutant: the flag is lowered before the role is looked at.
Step0Eager(js, new) ==
  /\ dirty' = FALSE
  /\ gone' = gone
  /\ jobs' = IF Drains THEN js \o pending \o new ELSE js \o new
  /\ pending' = IF Drains THEN <<>> ELSE pending

\* Mutant: the markers follow the entry of the event that drains them.
Step0Late(js, new) ==
  /\ dirty' = (dirty /\ ~Drains)
  /\ gone' = gone
  /\ jobs' = IF Drains THEN js \o new \o pending ELSE js \o new
  /\ pending' = IF Drains THEN <<>> ELSE pending

\* Mutant: the pending markers are read and not taken.
Step0Copies(js, new) ==
  /\ gone' = gone
  /\ jobs' = IF Drains THEN js \o pending \o new ELSE js \o new
  /\ UNCHANGED <<pending, dirty>>

\* Mutant: markers whose job cannot be registered vanish without being counted.
Step0Uncounted(js, new) ==
  /\ dirty' = (dirty /\ ~Drains)
  /\ gone' = gone
  /\ pending' = IF Drains THEN <<>> ELSE pending
  /\ \/ jobs' = IF Drains THEN js \o pending \o new ELSE js \o new
     \/ "defer" \in Ops /\ jobs' = js \o new

Step0(js, new) ==
  \/ /\ ~Drains
     /\ jobs' = js \o new
     /\ UNCHANGED <<pending, dirty, gone>>
  \/ /\ Drains
     /\ pending' = <<>> /\ dirty' = FALSE
     /\ \/ /\ jobs' = js \o pending \o new
           /\ gone' = gone
        \/ /\ "defer" \in Ops
           /\ jobs' = js \o new
           /\ gone' = gone \cup Points(pending)

(***************************************************************************)
(* One XADD of the module for x, with the jobs js left to run.  A write    *)
(* that succeeds is notified, and the callback runs step 0; a refused one  *)
(* is counted, as a lost event or a dropped marker.                        *)
(***************************************************************************)
Resolves(x) == resolved' = IF x.kind = "entry" THEN resolved + 1 ELSE resolved

\* The history keeps one of several checkpoints in a row that say the same.
Extended(w) ==
  IF w.item.kind = "checkpoint" /\ log # <<>> /\ log[Len(log)] = w
  THEN log ELSE Append(log, w)

Write(x, js) ==
  /\ Resolves(x)
  /\ \/ /\ log' = Extended(Written(x))
        /\ Step0(js, <<>>)
     \/ /\ "refuse" \in Ops
        /\ log' = IF x.kind = "entry" THEN Append(log, Written(Loss)) ELSE log
        /\ gone' = IF x.kind = "marker" THEN gone \cup {x.point} ELSE gone
        /\ jobs' = js
        /\ UNCHANGED <<pending, dirty>>

-----------------------------------------------------------------------------
(***************************************************************************)
(* A client's event, alone or inside MULTI.  After step 0 come the enabled *)
(* switch and the role; a selected event is registered as a job, or        *)
(* accepted by the worker's queue.                                         *)
(***************************************************************************)
InUnit == at = "idle" \/ (at = "unit" /\ "multi" \in Ops)

Unit == IF at = "idle" THEN time + 1 ELSE time

Dispatch ==
  \/ /\ "async" \in Ops
     /\ Step0(jobs, <<>>)
     /\ backlog' = Append(backlog, AnEvent(Unit))
     /\ UNCHANGED <<log, resolved>>
  \/ /\ "async" \notin Ops
     /\ Step0(jobs, <<AnEvent(Unit)>>)
     /\ UNCHANGED <<backlog, log, resolved>>
  \/ /\ "defer" \in Ops
     /\ Step0(jobs, <<>>)
     /\ Resolves(AnEvent(Unit))
     /\ log' = Append(log, Written(Loss))
     /\ UNCHANGED backlog

Captured ==
  /\ enabled /\ role = "master"
  /\ Dispatch
  /\ UNCHANGED missed

Skipped ==
  /\ ~enabled \/ role = "replica"
  /\ Step0(jobs, <<>>)
  /\ missed' = IF role = "master" THEN missed \cup {Unit} ELSE missed
  /\ UNCHANGED <<backlog, log, resolved>>

\* Mutant: the enabled switch is looked at first, as the other gates are.
NotifyGated ==
  /\ InUnit /\ events < MaxEvents
  /\ at' = "unit" /\ time' = Unit /\ events' = events + 1
  /\ \/ Captured
     \/ /\ ~enabled \/ role = "replica"
        /\ missed' = IF role = "master" THEN missed \cup {Unit} ELSE missed
        /\ UNCHANGED <<backlog, log, resolved, pending, dirty, gone, jobs>>
  /\ UNCHANGED <<role, enabled, gen, todo, due, points>>

Notify ==
  /\ InUnit /\ events < MaxEvents
  /\ at' = "unit" /\ time' = Unit /\ events' = events + 1
  /\ Captured \/ Skipped
  /\ UNCHANGED <<role, enabled, gen, todo, due, points>>

\* The command or transaction is over: the server runs the registered jobs.
EndUnit ==
  /\ at = "unit"
  /\ at' = "jobs"
  /\ UNCHANGED <<role, module, jobs, todo, backlog, due, time, bounds, log, missed, gone>>

(***************************************************************************)
(* A registered job writes its marker or its entry.  The server runs what  *)
(* is registered at the end of MODULE UNLOAD too, and where the loader     *)
(* keeps the image the job finds its code; the module is no longer notified*)
(* then, and nothing is pending, so step 0 in Write leaves the rest alone. *)
(***************************************************************************)
RunJob ==
  /\ at \in {"jobs", "unloaded"} /\ jobs # <<>>
  /\ Write(Head(jobs), Tail(jobs))
  /\ UNCHANGED <<at, role, enabled, gen, todo, backlog, due, time, bounds, missed>>

JobsDone ==
  /\ at = "jobs" /\ jobs = <<>>
  /\ at' = "idle"
  /\ UNCHANGED <<role, module, jobs, todo, backlog, due, time, bounds, log, missed, gone>>

(***************************************************************************)
(* The worker: it takes the server's lock between commands, writes a batch *)
(* and unlocks, which is when the jobs its own writes registered run.      *)
(***************************************************************************)
WorkerLock ==
  /\ at = "idle" /\ backlog # <<>>
  /\ at' = "worker"
  /\ UNCHANGED <<role, module, jobs, todo, backlog, due, time, bounds, log, missed, gone>>

WorkerWrite ==
  /\ at \in {"worker", "stopping"} /\ backlog # <<>>
  /\ Write(Head(backlog), jobs)
  /\ backlog' = Tail(backlog)
  /\ UNCHANGED <<at, role, enabled, gen, todo, due, time, bounds, missed>>

WorkerUnlock ==
  /\ at = "worker"
  /\ at' = "jobs"
  /\ UNCHANGED <<role, module, jobs, todo, backlog, due, time, bounds, log, missed, gone>>

-----------------------------------------------------------------------------
(* Lifecycle points: record_pending_marker.                                *)

Record(a) ==
  /\ points < MaxPoints
  /\ pending' = Append(pending, AMarker(a, points + 1))
  /\ dirty' = TRUE
  /\ points' = points + 1

\* A flush or a swap leaves a marker on the capturing master only.
MarkOnMaster(a) ==
  \/ role = "master" /\ Record(a) /\ UNCHANGED events
  \/ /\ role = "replica" /\ events < MaxEvents
     /\ events' = events + 1
     /\ UNCHANGED <<pending, dirty, points>>

\* eventstream.enabled changes: enabled_changed.
SetEnabled ==
  /\ "toggle" \in Ops /\ InUnit
  /\ enabled' = ~enabled
  /\ Record(IF enabled THEN "disabled" ELSE "enabled")
  /\ UNCHANGED <<at, role, resolved, gen, jobs, todo, backlog, due, time, events, log,
                 missed, gone>>

\* A flush of database 0, here or, on a replica, replayed.
FlushStarted ==
  /\ "flush" \in Ops /\ InUnit
  /\ MarkOnMaster("flushed")
  /\ log' = Append(log, Written(Wipe))
  /\ UNCHANGED <<at, role, enabled, resolved, gen, jobs, todo, backlog, due, time, missed,
                 gone>>

\* SWAPDB of database 0.
SwapDb ==
  /\ "swap" \in Ops /\ InUnit
  /\ MarkOnMaster("swapdb")
  /\ UNCHANGED <<at, role, enabled, resolved, gen, jobs, todo, backlog, due, time, log,
                 missed, gone>>

\* A promotion or a demotion.
ChangeRole ==
  /\ "role" \in Ops /\ at = "idle" /\ events < MaxEvents
  /\ role' = IF role = "master" THEN "replica" ELSE "master"
  /\ events' = events + 1
  /\ UNCHANGED <<at, module, jobs, todo, backlog, due, time, points, log, missed, gone>>

-----------------------------------------------------------------------------
(* Direct writes: checkpoint_tick and deinit.                              *)

Elapse ==
  /\ "cron" \in Ops /\ at \notin {"unloaded", "crashed"} /\ ~due
  /\ due' = TRUE
  /\ UNCHANGED <<at, role, module, jobs, todo, backlog, time, bounds, log, missed, gone>>

\* Mutant: the tick writes its checkpoint and leaves the markers to the callback.
CronIgnoresMarkers ==
  /\ at = "idle" /\ due
  /\ due' = FALSE
  /\ \/ /\ role = "master"
        /\ at' = "cron"
        /\ todo' = <<Checkpoint>>
        /\ UNCHANGED <<pending, dirty>>
     \/ role = "replica" /\ UNCHANGED <<at, todo, pending, dirty>>
  /\ UNCHANGED <<role, enabled, resolved, gen, jobs, backlog, time, bounds, log, missed,
                 gone>>

\* Mutant: the tick lowers the flag and does not take the markers.
CronStrands ==
  /\ at = "idle" /\ due
  /\ due' = FALSE /\ dirty' = FALSE
  /\ \/ /\ role = "master"
        /\ at' = "cron"
        /\ todo' = <<Checkpoint>>
     \/ role = "replica" /\ UNCHANGED <<at, todo>>
  /\ UNCHANGED <<role, enabled, resolved, pending, gen, jobs, backlog, time, bounds, log,
                 missed, gone>>

\* The period is used up whether or not this node may write.
Cron ==
  /\ at = "idle" /\ due
  /\ due' = FALSE
  /\ \/ /\ role = "master"
        /\ at' = "cron"
        /\ todo' = Append(pending, Checkpoint)
        /\ pending' = <<>> /\ dirty' = FALSE
     \/ role = "replica" /\ UNCHANGED <<at, todo, pending, dirty>>
  /\ UNCHANGED <<role, enabled, resolved, gen, jobs, backlog, time, bounds, log, missed,
                 gone>>

WriteDirect ==
  /\ at \in {"cron", "closing"} /\ todo # <<>>
  /\ Write(Head(todo), jobs)
  /\ todo' = Tail(todo)
  /\ UNCHANGED <<at, role, enabled, gen, backlog, due, time, bounds, missed>>

CronDone ==
  /\ at = "cron" /\ todo = <<>>
  /\ at' = "jobs"
  /\ UNCHANGED <<role, module, jobs, todo, backlog, due, time, bounds, log, missed, gone>>

\* MODULE UNLOAD: stop_dispatch_worker first, which writes the backlog.
Unload ==
  /\ "unload" \in Ops /\ at = "idle" /\ gen < MaxLoads
  /\ at' = "stopping"
  /\ UNCHANGED <<role, module, jobs, todo, backlog, due, time, bounds, log, missed, gone>>

\* Mutant: the closing marker is written with the pending ones still in place.
CloseKeepsPending ==
  /\ at = "stopping" /\ backlog = <<>>
  /\ at' = "closing" /\ points' = points + 1
  /\ todo' = IF role = "master" THEN <<AMarker("unloading", points + 1)>> ELSE <<>>
  /\ UNCHANGED <<role, module, jobs, backlog, due, time, events, log, missed, gone>>

\* Mutant: the closing marker is written before the worker has been drained.
CloseEarly ==
  /\ at = "stopping"
  /\ at' = "closing"
  /\ todo' = Append(pending, AMarker("unloading", points + 1))
  /\ points' = points + 1
  /\ pending' = <<>> /\ dirty' = FALSE
  /\ UNCHANGED <<role, enabled, resolved, gen, jobs, backlog, due, time, events, log,
                 missed, gone>>

\* deinit takes the pending markers, lowers the flag, and writes them and the closing one.
Close ==
  /\ at = "stopping" /\ backlog = <<>>
  /\ at' = "closing"
  /\ \/ /\ role = "master"
        /\ points' = points + 1
        /\ todo' = Append(pending, AMarker("unloading", points + 1))
        /\ pending' = <<>> /\ dirty' = FALSE
     \/ role = "replica" /\ todo' = <<>> /\ UNCHANGED <<pending, dirty, points>>
  /\ UNCHANGED <<role, enabled, resolved, gen, jobs, backlog, due, time, events, log,
                 missed, gone>>

Unloaded ==
  /\ at = "closing" /\ todo = <<>>
  /\ at' = "unloaded"
  /\ UNCHANGED <<role, module, jobs, todo, backlog, due, time, bounds, log, missed, gone>>

\* Where the image has been unmapped a job left behind jumps to code that is gone.
Crash ==
  /\ at = "unloaded" /\ jobs # <<>>
  /\ at' = "crashed"
  /\ UNCHANGED <<role, module, jobs, todo, backlog, due, time, bounds, log, missed, gone>>

\* Mutant: the counters of the retained image are not reset.
LoadKeepsCounters ==
  /\ at = "unloaded" /\ jobs = <<>>
  /\ at' = "idle" /\ gen' = gen + 1
  /\ UNCHANGED resolved
  /\ enabled' = TRUE
  /\ points' = points + 1
  /\ pending' = <<AMarker("loaded", points + 1)>>
  /\ dirty' = TRUE /\ due' = FALSE
  /\ UNCHANGED <<role, jobs, todo, backlog, time, events, log, missed, gone>>

\* init in a retained image: statics are reset, what was pending is forgotten, and the
\* generation opens with its own marker, followed by one that says capture is off.  The
\* server has run every job by the end of the command before.
Load ==
  /\ at = "unloaded" /\ jobs = <<>>
  /\ at' = "idle" /\ gen' = gen + 1
  /\ resolved' = 0
  /\ enabled' \in (IF "toggle" \in Ops THEN BOOLEAN ELSE {TRUE})
  /\ \/ /\ enabled'
        /\ pending' = <<AMarker("loaded", points + 1)>>
        /\ points' = points + 1
     \/ /\ ~enabled'
        /\ pending' = <<AMarker("loaded", points + 1), AMarker("disabled", points + 2)>>
        /\ points' = points + 2
  /\ gone' = gone \cup Points(pending)
  /\ dirty' = TRUE /\ due' = FALSE
  /\ UNCHANGED <<role, jobs, todo, backlog, time, events, log, missed>>

Next ==
  \/ Notify \/ EndUnit \/ RunJob \/ JobsDone
  \/ WorkerLock \/ WorkerWrite \/ WorkerUnlock
  \/ SetEnabled \/ FlushStarted \/ SwapDb \/ ChangeRole
  \/ Elapse \/ Cron \/ WriteDirect \/ CronDone
  \/ Unload \/ Close \/ Unloaded \/ Crash \/ Load

Spec == Init /\ [][Next]_vars

-----------------------------------------------------------------------------
(* Fairness: the server finishes what it has begun and keeps calling the   *)
(* cron event, whatever clients do; clients and operators owe nothing.     *)

System == EndUnit \/ RunJob \/ JobsDone \/ WorkerWrite \/ WorkerUnlock \/ WriteDirect
          \/ CronDone \/ Close \/ Unloaded

FairSpec == Spec /\ WF_vars(System) /\ WF_vars(Elapse) /\ SF_vars(Cron)

-----------------------------------------------------------------------------
(* Properties *)

Is(i, kind) == log[i].item.kind = kind
Says(i, as) == Is(i, "marker") /\ log[i].item.action \in as
Logged      == {log[i].item.point : i \in {k \in DOMAIN log : Is(k, "marker")}}
Queued      == {jobs[i].point : i \in {k \in DOMAIN jobs : jobs[k].kind = "marker"}}
Direct      == {todo[i].point : i \in {k \in DOMAIN todo : todo[k].kind = "marker"}}

\* Type invariant: the markers, the flag, the queues and the counters have their types,
\* and the worker's queue holds entries only.
TypeOK ==
  /\ at \in Phases /\ role \in {"master", "replica"}
  /\ enabled \in BOOLEAN /\ dirty \in BOOLEAN /\ due \in BOOLEAN
  /\ pending \in Seq(Marker)
  /\ jobs \in Seq(Marker \cup Event)
  /\ todo \in Seq(Marker \cup Tick)
  /\ backlog \in Seq(Event)
  /\ {resolved, gen, time, events, points} \subseteq Nat
  /\ missed \subseteq Nat /\ gone \subseteq Nat
  /\ \A i \in DOMAIN log : log[i].unit \in Nat /\ log[i].resolved \in Nat

\* No marker is stranded: while anything is pending MARKERS_DIRTY is up.  The callback
\* looks at the flag alone, so a marker under a lowered flag would wait for the next
\* lifecycle point (or for ever), and its gap with it.
NothingStranded == pending # <<>> => dirty

\* Every marker that was recorded is in exactly one place: still pending, in a job, about
\* to be written by a tick or by deinit, on the control stream, counted as dropped, or,
\* after an unload on a replica, forgotten by the next load.
MarkersAccounted ==
  LET waiting == Points(pending) \cup Queued \cup Direct
  IN  /\ 0..points = waiting \cup Logged \cup gone
      /\ waiting \cap (Logged \cup gone) = {} /\ Logged \cap gone = {}
      /\ Points(pending) \cap (Queued \cup Direct) = {} /\ Queued \cap Direct = {}

\* Markers reach the control stream in the order of the lifecycle points, each once, by
\* whichever of the three paths (job, cron tick, deinit) each of them was written.  Only
\* the closing marker may overtake, a job that deinit's own writes registered.
MarkersInOrder ==
  \A i, j \in DOMAIN log :
    (i < j /\ Is(i, "marker") /\ Is(j, "marker")) =>
      \/ log[i].item.point < log[j].item.point
      \/ Says(i, {"unloading"}) /\ log[i].gen = log[j].gen

\* The flush at i is told of: a `flushed` marker, or the `loaded` of a later generation,
\* stands behind it on the control stream or is pending.
Told(i) ==
  \/ \E j \in DOMAIN log : j > i /\ Says(j, {"flushed", "loaded"})
  \/ \E k \in DOMAIN pending : pending[k].action \in {"flushed", "loaded"}

\* A capture gap can be seen: an event a disabled master did not capture lies, by its
\* time, in a window the control stream opened with `disabled` and did not close before
\* the event, even when the switch was thrown inside the same transaction.  A flush of
\* database 0 takes that marker away; a reader then finds, in its place, that the stream
\* begins anew, unless this node replayed the flush as a replica.
GapWindow ==
  at = "idle" =>
    \A u \in missed :
      \E i \in DOMAIN log :
        /\ Says(i, {"disabled"}) /\ log[i].unit <= u
        /\ \A j \in DOMAIN log :
             (j > i /\ Says(j, {"enabled", "loaded"})) => log[j].unit >= u
        /\ \A j \in DOMAIN log :
             (j > i /\ Is(j, "flush") /\ log[j].item.by = "master") => Told(j)

\* A generation opens with its `loaded` marker: nothing it writes (an entry, another
\* marker, a checkpoint) comes before it.
LoadedFirst ==
  \A i \in DOMAIN log :
    log[i].item.kind \in {"entry", "marker", "checkpoint"} =>
      \E j \in 1..i : Says(j, {"loaded"}) /\ log[j].gen = log[i].gen

\* A generation closes with its `unloading` marker: what it accepted has been written by
\* then, and nothing of it comes afterwards but an older marker, out of a job that its
\* deinit left behind.
ClosedLast ==
  /\ \A i, j \in DOMAIN log :
       (i < j /\ Says(i, {"unloading"}) /\ ~Is(j, "flush") /\ log[j].gen = log[i].gen) =>
         /\ "async" \in Ops
         /\ Is(j, "marker") /\ log[j].item.point < log[i].item.point
  /\ at = "unloaded" => backlog = <<>>

\* No job outlives the module: when MODULE UNLOAD returns, no post-notification job of
\* the module is registered (its code is about to be unmapped).
NoJobAfterUnload == at = "unloaded" => jobs = <<>>

\* The marker of a flush on the capturing master lands ahead of every entry whose event
\* is notified in a later execution unit of that generation, whatever transactions,
\* demotions and ticks come between.
FlushMarkerFirst ==
  \A i, k \in DOMAIN log :
    /\ i < k /\ Is(i, "flush") /\ log[i].item.by = "master" /\ Is(k, "entry")
    /\ log[k].item.time > log[i].unit /\ log[k].gen = log[i].gen
    => \E j \in i..k : Says(j, {"flushed"})

\* A checkpoint tells the truth: the number of resolved events it reports is the number
\* of events of its own generation written or counted lost before it.
CheckpointExact ==
  \A i \in DOMAIN log :
    Is(i, "checkpoint") =>
      log[i].resolved = Cardinality({j \in 1..i :
                          (Is(j, "entry") \/ Is(j, "lost"))
                          /\ log[j].gen = log[i].gen})

\* With checkpoints on, a node that stays master writes its pending markers even if no
\* key event ever comes.
MarkersLand == <>[](role = "master") => (pending # <<>> ~> pending = <<>>)

=============================================================================
