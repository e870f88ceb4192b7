---------------------------- MODULE MarkersOrder -----------------------------
(***************************************************************************)
(* Proofs about Markers: types, where the markers are, the order in which  *)
(* they reach the control stream, and what follows the closing marker, for *)
(* any number of events, lifecycle points and generations.                 *)
(***************************************************************************)
EXTENDS Markers, Integers, TLAPS

-----------------------------------------------------------------------------
(* Types, and what the main thread holds while it is where it is. *)

Roles == {"master", "replica"}
Items == Marker \cup Event \cup Tick \cup {Loss} \cup [kind : {"flush"}, by : Roles]
Recs  == [item : Items, unit : Nat, gen : Nat, resolved : Nat]
Jobs  == Marker \cup Event

TypeInv == TypeOK /\ log \in Seq(Recs)

\* Where jobs, direct writes, accepted events and pending markers may be: no job is left
\* when the server is between commands, the direct writes are those of the tick or of the
\* unload in progress, which has taken the pending markers, and the worker's queue is
\* empty once it has been stopped.
Stages ==
  /\ at \in {"idle", "cron"} => jobs = <<>>
  /\ todo # <<>> => at \in {"cron", "closing"}
  /\ at = "cron" \/ todo # <<>> => pending = <<>> /\ ~dirty
  /\ at \in {"closing", "unloaded", "crashed"} => backlog = <<>>
  /\ backlog # <<>> \/ at = "worker" => "async" \in Ops
  /\ "async" \notin Ops /\ at \in {"stopping", "closing", "unloaded", "crashed"} => jobs = <<>>

BaseInv == TypeInv /\ Stages /\ NothingStranded

-----------------------------------------------------------------------------
(* Order: the points of the markers in each place. *)

PointsIn(s)  == {s[i].point : i \in {k \in DOMAIN s : s[k].kind = "marker"}}
Before(A, B) == \A a \in A : \A b \in B : a < b
Rising(s)    == \A i, j \in DOMAIN s :
                  (i < j /\ s[i].kind = "marker" /\ s[j].kind = "marker")
                    => s[i].point < s[j].point

\* The points pending (P), in jobs (Q), about to be written directly (D), on the stream (L)
\* and dropped (G) are those recorded, each in one place.  What is on the stream precedes
\* what waits, and what waits in a job precedes what is pending or about to be written
\* directly.  Only a job that deinit leaves behind is overtaken, by deinit's own writes.
Ordered(P, Q, D, L, G, n, open) ==
  /\ 0..n = P \cup Q \cup D \cup L \cup G
  /\ Before(Q, P) /\ Before(Q, D) /\ Before(L, P) /\ Before(L, D)
  /\ open => Before(L, Q)
  /\ Q \cap L = {} /\ P \cap D = {}
  /\ G \cap (P \cup Q \cup D \cup L) = {}

Open == at \notin {"closing", "unloaded", "crashed"}

\* Only the closing marker of this generation is ahead of what a job has yet to write.
Overtaken ==
  \A i \in DOMAIN log : \A q \in Queued :
    Is(i, "marker") =>
      log[i].item.point < q \/ (Says(i, {"unloading"}) /\ log[i].gen = gen)

OrderInv ==
  /\ Rising(pending) /\ Rising(jobs) /\ Rising(todo) /\ MarkersInOrder
  /\ Ordered(PointsIn(pending), Queued, Direct, Logged, gone, points, Open)

-----------------------------------------------------------------------------
(* Sequences. *)

LEMMA Headed ==
  ASSUME NEW S, NEW s \in Seq(S), s # <<>>
  PROVE  /\ Head(s) \in S /\ Head(s) = s[1] /\ Tail(s) \in Seq(S)
         /\ Len(s) \in Nat /\ Len(s) > 0 /\ Len(Tail(s)) = Len(s) - 1
         /\ \A i \in 1..Len(Tail(s)) : Tail(s)[i] = s[i + 1]
OBVIOUS

LEMMA Appended ==
  ASSUME NEW S, NEW s \in Seq(S), NEW x \in S
  PROVE  /\ Append(s, x) \in Seq(S)
         /\ Len(s) \in Nat /\ Len(Append(s, x)) = Len(s) + 1
         /\ \A i \in 1..Len(s) : Append(s, x)[i] = s[i]
         /\ Append(s, x)[Len(s) + 1] = x
OBVIOUS

LEMMA Joined ==
  ASSUME NEW S, NEW s \in Seq(S), NEW t \in Seq(S)
  PROVE  /\ s \o t \in Seq(S)
         /\ Len(s) \in Nat /\ Len(t) \in Nat /\ Len(s \o t) = Len(s) + Len(t)
         /\ \A i \in 1..Len(s) : (s \o t)[i] = s[i]
         /\ \A i \in 1..Len(t) : (s \o t)[Len(s) + i] = t[i]
OBVIOUS

-----------------------------------------------------------------------------
(* Types. *)

\* Step 0 of the callback: nothing is drained, what is pending follows the jobs js, or
\* its job cannot be registered.
LEMMA Step0Cases ==
  ASSUME TypeInv, NEW js \in Seq(Jobs), NEW new \in Seq(Event), Step0(js, new)
  PROVE  /\ js \o new \in Seq(Jobs) /\ js \o pending \o new \in Seq(Jobs)
         /\ pending \in Seq(Jobs) /\ new \in Seq(Jobs)
         /\ \/ ~Drains /\ jobs' = js \o new /\ UNCHANGED <<pending, dirty, gone>>
            \/ /\ Drains /\ pending' = <<>> /\ dirty' = FALSE
               /\ \/ jobs' = js \o pending \o new /\ gone' = gone
                  \/ /\ "defer" \in Ops /\ jobs' = js \o new
                     /\ gone' = gone \cup Points(pending)
<1>1. pending \in Seq(Jobs) /\ new \in Seq(Jobs)
  BY DEF TypeInv, TypeOK, Jobs
<1>2. js \o new \in Seq(Jobs) /\ js \o pending \in Seq(Jobs)
  BY <1>1, Joined
<1>3. js \o pending \o new \in Seq(Jobs)
  BY <1>1, <1>2, Joined
<1> QED  BY Zenon, <1>1, <1>2, <1>3 DEF Step0

LEMMA PointsType ==
  ASSUME TypeInv
  PROVE  Points(pending) \subseteq Nat
<1>1. \A i \in DOMAIN pending : pending[i] \in Marker
  BY DEF TypeInv, TypeOK
<1> QED  BY <1>1 DEF Points, Marker

LEMMA Step0Types ==
  ASSUME TypeInv, NEW js \in Seq(Jobs), NEW new \in Seq(Event), Step0(js, new)
  PROVE  /\ pending' \in Seq(Marker) /\ jobs' \in Seq(Jobs)
         /\ dirty' \in BOOLEAN /\ gone' \subseteq Nat
         /\ NothingStranded => NothingStranded'
<1>1. pending \in Seq(Marker) /\ dirty \in BOOLEAN /\ gone \subseteq Nat
  BY Zenon DEF TypeInv, TypeOK
<1>2. <<>> \in Seq(Marker)
  OBVIOUS
<1> QED  BY Zenon, <1>1, <1>2, Step0Cases, PointsType DEF NothingStranded

LEMMA RecType ==
  ASSUME TypeInv, NEW x \in Items
  PROVE  Written(x) \in Recs
BY DEF TypeInv, TypeOK, Written, Recs

LEMMA WriteTypes ==
  ASSUME TypeInv, NEW x \in Marker \cup Event \cup Tick, NEW js \in Seq(Jobs), Write(x, js)
  PROVE  /\ pending' \in Seq(Marker) /\ jobs' \in Seq(Jobs)
         /\ dirty' \in BOOLEAN /\ gone' \subseteq Nat
         /\ NothingStranded => NothingStranded'
         /\ log' \in Seq(Recs) /\ resolved' \in Nat
<1>1. resolved' \in Nat
  <2>1. resolved \in Nat
    BY Zenon DEF TypeInv, TypeOK
  <2> QED  BY <2>1 DEF Write, Resolves
<1>2. Written(x) \in Recs /\ Written(Loss) \in Recs /\ log \in Seq(Recs)
  BY Zenon, RecType DEF TypeInv, Items
<1>3. CASE log' = Extended(Written(x)) /\ Step0(js, <<>>)
  <2>1. <<>> \in Seq(Event)
    OBVIOUS
  <2>2. log' \in Seq(Recs)
    <3> HIDE DEF Recs
    <3> QED  BY Zenon, <1>2, <1>3, Appended DEF Extended
  <2> QED  BY Zenon, <1>1, <1>3, <2>1, <2>2, Step0Types
<1>4. CASE /\ log' = IF x.kind = "entry" THEN Append(log, Written(Loss)) ELSE log
           /\ gone' = IF x.kind = "marker" THEN gone \cup {x.point} ELSE gone
           /\ jobs' = js
           /\ UNCHANGED <<pending, dirty>>
  <2>1. log' \in Seq(Recs)
    BY Zenon, <1>2, <1>4, Appended
  <2>2. x.kind = "marker" => x.point \in Nat
    BY DEF Marker, Event, Tick
  <2> QED  BY Zenon, <1>1, <1>4, <2>1, <2>2 DEF TypeInv, TypeOK, NothingStranded
<1> QED  BY Zenon, <1>3, <1>4 DEF Write

\* The actions that only move the main thread, change the role or use up a period.
Quiet ==
  \/ EndUnit \/ JobsDone \/ WorkerLock \/ WorkerUnlock \/ ChangeRole \/ Elapse \/ CronDone
  \/ Unload \/ Unloaded \/ Crash
  \/ role = "replica" /\ (Cron \/ SwapDb \/ Close)
  \/ UNCHANGED vars

content == <<enabled, pending, dirty, jobs, todo, backlog, resolved, gen, time, points, log,
             missed, gone>>

Moves ==
  \/ at' = at
  \/ at = "unit" /\ at' = "jobs"
  \/ at = "jobs" /\ jobs = <<>> /\ at' = "idle"
  \/ at = "idle" /\ backlog # <<>> /\ at' = "worker"
  \/ at = "worker" /\ at' = "jobs"
  \/ at = "cron" /\ todo = <<>> /\ at' = "jobs"
  \/ at = "idle" /\ at' = "stopping"
  \/ at = "stopping" /\ backlog = <<>> /\ at' = "closing"
  \/ at = "closing" /\ todo = <<>> /\ at' = "unloaded"
  \/ at = "unloaded" /\ at' = "crashed"

LEMMA QuietMoves ==
  ASSUME BaseInv, Quiet
  PROVE  UNCHANGED content /\ Moves
<1> USE DEF content, Moves, module, bounds
<1>1. CASE EndUnit \/ JobsDone \/ WorkerLock
  BY Zenon, <1>1 DEF EndUnit, JobsDone, WorkerLock
<1>2. CASE WorkerUnlock \/ ChangeRole \/ Elapse
  BY Zenon, <1>2 DEF WorkerUnlock, ChangeRole, Elapse
<1>3. CASE CronDone \/ Unload \/ Unloaded \/ Crash
  BY Zenon, <1>3 DEF CronDone, Unload, Unloaded, Crash
<1>4. CASE role = "replica" /\ (Cron \/ SwapDb)
  BY Zenon, <1>4 DEF Cron, SwapDb, MarkOnMaster
<1>5. CASE role = "replica" /\ Close
  <2>1. todo = <<>>
    BY Zenon, <1>5 DEF Close, BaseInv, Stages
  <2> QED  BY Zenon, <1>5, <2>1 DEF Close
<1>6. CASE UNCHANGED vars
  BY Zenon, <1>6 DEF vars
<1> QED  BY Zenon, <1>1, <1>2, <1>3, <1>4, <1>5, <1>6 DEF Quiet

LEMMA NextCases ==
  ASSUME BaseInv, [Next]_vars
  PROVE  \/ Quiet \/ Notify \/ RunJob \/ WorkerWrite \/ WriteDirect
         \/ SetEnabled \/ FlushStarted \/ (SwapDb /\ role = "master")
         \/ (Cron /\ role = "master") \/ (Close /\ role = "master") \/ Load
<1>1. role \in {"master", "replica"}
  BY Zenon DEF BaseInv, TypeInv, TypeOK
<1> QED  BY Zenon, <1>1 DEF Next, Quiet

\* What a lifecycle point leaves: a marker at the end of what is pending.
Recorded(as) ==
  \E a \in as : /\ pending' = Append(pending, AMarker(a, points + 1))
                /\ dirty' = TRUE /\ points' = points + 1

LEMMA RecordTypes ==
  ASSUME TypeInv, Recorded(Actions)
  PROVE  pending' \in Seq(Marker) /\ dirty' /\ points' \in Nat
<1>1. points \in Nat /\ pending \in Seq(Marker)
  BY Zenon DEF TypeInv, TypeOK
<1>2. PICK a \in Actions : /\ pending' = Append(pending, AMarker(a, points + 1))
                           /\ dirty' = TRUE /\ points' = points + 1
  BY Zenon DEF Recorded
<1>3. points + 1 \in Nat
  BY <1>1
<1>4. AMarker(a, points + 1) \in Marker
  BY <1>3 DEF AMarker, Marker
<1> QED  BY Zenon, <1>1, <1>2, <1>3, <1>4, Appended

-----------------------------------------------------------------------------
(* Where everything is. *)

LEMMA LogTyped ==
  ASSUME NEW l \in Seq(Recs)
  PROVE  \A i \in DOMAIN l : /\ l[i] \in Recs /\ l[i].item \in Items /\ l[i].unit \in Nat
                             /\ l[i].gen \in Nat /\ l[i].resolved \in Nat
<1>1. \A i \in DOMAIN l : l[i] \in Recs
  <2> HIDE DEF Recs
  <2> QED  OBVIOUS
<1> HIDE DEF Items
<1> QED  BY <1>1 DEF Recs

\* The types, one by one.
LEMMA TypesFrom ==
  ASSUME at' \in Phases, role' \in Roles, enabled' \in BOOLEAN, dirty' \in BOOLEAN,
         due' \in BOOLEAN, pending' \in Seq(Marker), jobs' \in Seq(Jobs),
         todo' \in Seq(Marker \cup Tick), backlog' \in Seq(Event), resolved' \in Nat,
         gen' \in Nat, time' \in Nat, events' \in Nat, points' \in Nat, missed' \subseteq Nat,
         gone' \subseteq Nat, log' \in Seq(Recs)
  PROVE  TypeInv'
<1>1. \A i \in DOMAIN log' : log'[i].unit \in Nat /\ log'[i].resolved \in Nat
  BY Zenon, LogTyped
<1>2. {resolved', gen', time', events', points'} \subseteq Nat
  BY Zenon
<1> QED  BY Zenon, <1>1, <1>2 DEF TypeInv, TypeOK, Jobs, Roles

LEMMA TypesOf ==
  ASSUME TypeInv
  PROVE  /\ at \in Phases /\ role \in Roles /\ enabled \in BOOLEAN /\ dirty \in BOOLEAN
         /\ due \in BOOLEAN /\ pending \in Seq(Marker) /\ jobs \in Seq(Jobs)
         /\ todo \in Seq(Marker \cup Tick) /\ backlog \in Seq(Event) /\ resolved \in Nat
         /\ gen \in Nat /\ time \in Nat /\ events \in Nat /\ points \in Nat
         /\ missed \subseteq Nat /\ gone \subseteq Nat /\ log \in Seq(Recs)
BY Zenon DEF TypeInv, TypeOK, Jobs, Roles

LEMMA BaseInit == Init => BaseInv
<1> SUFFICES ASSUME Init PROVE BaseInv
  OBVIOUS
<1>1. AMarker("loaded", 0) \in Marker
  BY DEF AMarker, Marker, Actions
<1>2. pending \in Seq(Marker) /\ jobs \in Seq(Jobs) /\ todo \in Seq(Marker \cup Tick)
      /\ backlog \in Seq(Event) /\ log \in Seq(Recs)
  <2> HIDE DEF Marker, Jobs, Tick, Event, Recs
  <2> QED  BY <1>1 DEF Init
<1>3. TypeInv
  <2>1. {resolved, gen, time, events, points} \subseteq Nat /\ DOMAIN log = {}
    BY DEF Init
  <2> QED  BY Zenon, <1>2, <2>1 DEF Init, TypeInv, TypeOK, Jobs, Phases
<1> QED  BY <1>3 DEF Init, BaseInv, Stages, NothingStranded

LEMMA NotifyBase ==
  ASSUME BaseInv, Notify
  PROVE  BaseInv'
<1> USE DEF BaseInv
<1>1. TypeOK /\ jobs \in Seq(Jobs)
  BY Zenon DEF TypeInv, TypeOK, Jobs
<1>2. Unit \in Nat /\ AnEvent(Unit) \in Event
  BY <1>1 DEF TypeOK, Unit, AnEvent, Event
<1>3. <<>> \in Seq(Event) /\ <<AnEvent(Unit)>> \in Seq(Event)
  <2> HIDE DEF Event
  <2> QED  BY <1>2
<1>4. /\ at' = "unit" /\ time' = Unit /\ events' \in Nat
      /\ UNCHANGED <<role, enabled, gen, todo, due, points>> /\ at \in {"idle", "unit"}
  BY <1>1 DEF Notify, InUnit, TypeOK
<1>5. \E new \in Seq(Event) : Step0(jobs, new)
  BY Zenon, <1>3 DEF Notify, Captured, Dispatch, Skipped
<1>6. /\ pending' \in Seq(Marker) /\ jobs' \in Seq(Jobs) /\ dirty' \in BOOLEAN
      /\ gone' \subseteq Nat /\ NothingStranded'
  BY Zenon, <1>1, <1>5, Step0Types
<1>7. log' \in Seq(Recs) /\ resolved' \in Nat
  <2>1. Written(Loss) \in Recs
    BY Zenon, RecType DEF Items
  <2>2. Append(log, Written(Loss)) \in Seq(Recs)
    BY Zenon, <2>1, Appended DEF TypeInv
  <2>3. resolved \in Nat /\ resolved + 1 \in Nat
    BY <1>1 DEF TypeOK
  <2> QED  BY Zenon, <2>2, <2>3 DEF Notify, Captured, Dispatch, Skipped, Resolves, TypeInv
<1>8. backlog' \in Seq(Event) /\ (backlog' # <<>> => "async" \in Ops)
  <2>1. Append(backlog, AnEvent(Unit)) \in Seq(Event)
    BY Zenon, <1>1, <1>2, Appended DEF TypeOK
  <2> QED  BY Zenon, <1>1, <2>1 DEF Notify, Captured, Dispatch, Skipped, TypeOK, Stages
<1>9. missed' \subseteq Nat
  BY Zenon, <1>1, <1>2 DEF Notify, Captured, Skipped, TypeOK
<1>10. TypeInv'
  <2>1. at' \in Phases
    BY Zenon, <1>4 DEF Phases
  <2> QED  BY Zenon, <1>2, <1>4, <1>6, <1>7, <1>8, <1>9, <2>1, TypesOf, TypesFrom
<1>11. Stages'
  <2>1. todo = <<>>
    BY Zenon, <1>4 DEF Stages
  <2> QED  BY <1>4, <1>8, <2>1 DEF Stages
<1> QED  BY Zenon, <1>6, <1>10, <1>11

\* The three ways to write: what is written, and what is left to run.
Writing(x, js) ==
  \/ /\ at \in {"jobs", "unloaded"} /\ jobs # <<>>
     /\ x = Head(jobs) /\ js = Tail(jobs) /\ UNCHANGED <<todo, backlog>>
  \/ /\ at \in {"worker", "stopping"} /\ backlog # <<>>
     /\ x = Head(backlog) /\ js = jobs /\ backlog' = Tail(backlog) /\ UNCHANGED todo
  \/ /\ at \in {"cron", "closing"} /\ todo # <<>>
     /\ x = Head(todo) /\ js = jobs /\ todo' = Tail(todo) /\ UNCHANGED backlog

Kept == UNCHANGED <<at, role, enabled, gen, due, time, bounds, missed>>

LEMMA WritingTypes ==
  ASSUME BaseInv, NEW x, NEW js, Writing(x, js)
  PROVE  /\ x \in Marker \cup Event \cup Tick /\ js \in Seq(Jobs)
         /\ todo' \in Seq(Marker \cup Tick) /\ backlog' \in Seq(Event)
<1>1. /\ jobs \in Seq(Jobs) /\ todo \in Seq(Marker \cup Tick) /\ backlog \in Seq(Event)
  BY Zenon, TypesOf DEF BaseInv
<1>2. jobs # <<>> => Head(jobs) \in Jobs /\ Tail(jobs) \in Seq(Jobs)
  BY Zenon, <1>1, Headed
<1>3. backlog # <<>> => Head(backlog) \in Event /\ Tail(backlog) \in Seq(Event)
  BY Zenon, <1>1, Headed
<1>4. todo # <<>> => Head(todo) \in Marker \cup Tick /\ Tail(todo) \in Seq(Marker \cup Tick)
  BY Zenon, <1>1, Headed
<1> QED  BY Zenon, <1>1, <1>2, <1>3, <1>4 DEF Writing, Jobs

LEMMA WriteCases ==
  ASSUME BaseInv, RunJob \/ WorkerWrite \/ WriteDirect
  PROVE  \E x \in Marker \cup Event \cup Tick, js \in Seq(Jobs) :
           Writing(x, js) /\ Write(x, js) /\ Kept
<1> DEFINE x == IF at \in {"jobs", "unloaded"} THEN Head(jobs)
                ELSE IF at \in {"worker", "stopping"} THEN Head(backlog) ELSE Head(todo)
           js == IF at \in {"jobs", "unloaded"} THEN Tail(jobs) ELSE jobs
<1>1. Writing(x, js) /\ Write(x, js) /\ Kept
  <2>1. CASE RunJob
    BY Zenon, <2>1 DEF RunJob, Writing, Kept
  <2>2. CASE WorkerWrite
    <3>1. at \notin {"jobs", "unloaded"} /\ at \in {"worker", "stopping"}
      BY <2>2 DEF WorkerWrite
    <3> QED  BY Zenon, <2>2, <3>1 DEF WorkerWrite, Writing, Kept
  <2>3. CASE WriteDirect
    <3>1. at \notin {"jobs", "unloaded"} /\ at \notin {"worker", "stopping"}
      BY <2>3 DEF WriteDirect
    <3> QED  BY Zenon, <2>3, <3>1 DEF WriteDirect, Writing, Kept
  <2> QED  BY Zenon, <2>1, <2>2, <2>3
<1> HIDE DEF x, js
<1> QED  BY Zenon, <1>1, WritingTypes

\* A direct write finds nothing pending, so it registers no job.
LEMMA DirectDrainsNothing ==
  ASSUME BaseInv, NEW x, NEW js, Writing(x, js), Write(x, js), at \in {"cron", "closing"}
  PROVE  js = jobs /\ jobs' = jobs /\ pending' = <<>> /\ pending = <<>> /\ ~dirty'
<1>1. js = jobs /\ todo # <<>>
  BY DEF Writing
<1>2. pending = <<>> /\ ~dirty /\ jobs \in Seq(Jobs)
  BY Zenon, <1>1, TypesOf DEF BaseInv, Stages
<1>3. jobs \o <<>> = jobs
  BY <1>2
<1>4. Step0(js, <<>>) => jobs' = jobs /\ UNCHANGED <<pending, dirty>>
  BY Zenon, <1>1, <1>2, <1>3 DEF Step0, Drains
<1>5. jobs' = jobs /\ UNCHANGED <<pending, dirty>>
  BY Zenon, <1>1, <1>4 DEF Write
<1> QED  BY Zenon, <1>1, <1>2, <1>5

LEMMA WriteBase ==
  ASSUME BaseInv, RunJob \/ WorkerWrite \/ WriteDirect
  PROVE  BaseInv'
<1> USE DEF BaseInv
<1>1. PICK x \in Marker \cup Event \cup Tick, js \in Seq(Jobs) :
        Writing(x, js) /\ Write(x, js) /\ Kept
  BY Zenon, WriteCases
<1>2. /\ pending' \in Seq(Marker) /\ jobs' \in Seq(Jobs) /\ dirty' \in BOOLEAN
      /\ gone' \subseteq Nat /\ NothingStranded' /\ log' \in Seq(Recs) /\ resolved' \in Nat
  BY Zenon, <1>1, WriteTypes
<1>3. TypeInv'
  BY Zenon, <1>1, <1>2, WritingTypes, TypesOf, TypesFrom DEF Kept, bounds
<1>4. Stages'
  <2>1. at' = at /\ Stages
    BY Zenon, <1>1 DEF Kept
  <2>2. CASE at \in {"jobs", "unloaded"}
    <3>1. jobs # <<>> /\ UNCHANGED <<todo, backlog>>
      BY <1>1, <2>2 DEF Writing
    <3> QED  BY <2>1, <2>2, <3>1 DEF Stages
  <2>3. CASE at \in {"worker", "stopping"}
    BY <1>1, <2>1, <2>3 DEF Writing, Stages
  <2>4. CASE at \in {"cron", "closing"}
    <3>1. jobs' = jobs /\ pending' = <<>> /\ ~dirty' /\ backlog' = backlog
      <4>1. backlog' = backlog
        BY <1>1, <2>4 DEF Writing
      <4> QED  BY Zenon, <1>1, <2>4, <4>1, DirectDrainsNothing
    <3> QED  BY <2>1, <2>4, <3>1 DEF Stages
  <2> QED  BY Zenon, <1>1, <2>2, <2>3, <2>4 DEF Writing
<1> QED  BY Zenon, <1>2, <1>3, <1>4

\* A lifecycle point on the capturing master.
Point == SetEnabled \/ (SwapDb /\ role = "master") \/ (FlushStarted /\ role = "master")

PointActions == {"enabled", "disabled", "swapdb", "flushed"}

LEMMA PointRecords ==
  ASSUME BaseInv, Point
  PROVE  /\ Recorded(PointActions) /\ at \in {"idle", "unit"}
         /\ UNCHANGED <<at, role, resolved, gen, jobs, todo, backlog, due, time, events, missed, gone>>
         /\ enabled' \in BOOLEAN
<1> USE DEF Recorded, Record, InUnit, PointActions
<1>1. role \in Roles /\ enabled \in BOOLEAN
  BY Zenon, TypesOf DEF BaseInv
<1>2. CASE SetEnabled
  BY Zenon, <1>1, <1>2 DEF SetEnabled
<1>3. CASE SwapDb /\ role = "master"
  BY <1>1, <1>3 DEF SwapDb, MarkOnMaster
<1>4. CASE FlushStarted /\ role = "master"
  BY <1>1, <1>4 DEF FlushStarted, MarkOnMaster
<1> QED  BY Zenon, <1>2, <1>3, <1>4 DEF Point

\* What is flushed is noted; on a replica nothing else happens.
LEMMA PointLog ==
  ASSUME BaseInv, Point \/ FlushStarted
  PROVE  /\ log' \in Seq(Recs)
         /\ \/ log' = log /\ ~FlushStarted
            \/ log' = Append(log, Written(Wipe)) /\ FlushStarted
<1>1. role \in Roles /\ log \in Seq(Recs) /\ TypeInv
  BY Zenon, TypesOf DEF BaseInv
<1>2. Wipe \in Items
  BY <1>1 DEF Wipe, Items
<1>3. Append(log, Written(Wipe)) \in Seq(Recs)
  BY Zenon, <1>1, <1>2, RecType, Appended
<1>4. CASE FlushStarted
  BY Zenon, <1>3, <1>4 DEF FlushStarted
<1>5. CASE ~FlushStarted
  BY Zenon, <1>1, <1>5 DEF Point, SetEnabled, SwapDb
<1> QED  BY Zenon, <1>4, <1>5

LEMMA PointBase ==
  ASSUME BaseInv, Point
  PROVE  BaseInv'
<1> USE DEF BaseInv
<1>1. /\ Recorded(PointActions) /\ at \in {"idle", "unit"} /\ enabled' \in BOOLEAN
      /\ UNCHANGED <<at, role, resolved, gen, jobs, todo, backlog, due, time, events, missed, gone>>
  BY Zenon, PointRecords
<1>2. Recorded(Actions)
  BY Zenon, <1>1 DEF Recorded, PointActions, Actions
<1>3. pending' \in Seq(Marker) /\ dirty' \in BOOLEAN /\ dirty' /\ points' \in Nat
  BY Zenon, <1>2, RecordTypes DEF Recorded
<1>4. log' \in Seq(Recs)
  BY Zenon, PointLog
<1>5. TypeInv'
  BY Zenon, <1>1, <1>3, <1>4, TypesOf, TypesFrom
<1>6. Stages'
  BY <1>1 DEF Stages
<1> QED  BY Zenon, <1>3, <1>5, <1>6 DEF NothingStranded

\* A flush replayed on a replica.
LEMMA ReplayFrame ==
  ASSUME BaseInv, FlushStarted, role # "master"
  PROVE  /\ at \in {"idle", "unit"} /\ events' \in Nat /\ log' = Append(log, Written(Wipe))
         /\ UNCHANGED <<at, role, enabled, pending, dirty, points, resolved, gen, jobs, todo,
                        backlog, due, time, missed, gone>>
<1>1. events \in Nat
  BY Zenon, TypesOf DEF BaseInv
<1> QED  BY <1>1 DEF FlushStarted, MarkOnMaster, InUnit

LEMMA ReplayBase ==
  ASSUME BaseInv, FlushStarted, role # "master"
  PROVE  BaseInv'
<1> USE DEF BaseInv
<1>1. TypeInv'
  BY Zenon, ReplayFrame, PointLog, TypesOf, TypesFrom
<1>2. Stages' /\ NothingStranded'
  BY Zenon, ReplayFrame DEF Stages, NothingStranded
<1> QED  BY Zenon, <1>1, <1>2

\* A due tick, and deinit, take what is pending.
LEMMA TakeFrame ==
  ASSUME BaseInv, role = "master", Cron \/ Close
  PROVE  /\ \E last \in Marker \cup Tick :
              /\ todo' = Append(pending, last)
              /\ \/ Cron /\ last = Checkpoint /\ points' = points
                 \/ Close /\ last = AMarker("unloading", points + 1) /\ points' = points + 1
         /\ pending' = <<>> /\ dirty' = FALSE /\ points' \in Nat /\ due' \in BOOLEAN
         /\ \/ Cron /\ at = "idle" /\ at' = "cron"
            \/ Close /\ at = "stopping" /\ at' = "closing" /\ backlog = <<>>
         /\ UNCHANGED <<role, enabled, resolved, gen, jobs, backlog, time, events, log, missed, gone>>
<1>1. points \in Nat /\ points + 1 \in Nat /\ due \in BOOLEAN
  BY TypesOf DEF BaseInv
<1>2. CASE Cron
  <2>1. Checkpoint \in Marker \cup Tick
    BY DEF Checkpoint, Tick
  <2>2. role # "replica"
    OBVIOUS
  <2> QED  BY Zenon, <1>1, <1>2, <2>1, <2>2 DEF Cron, bounds
<1>3. CASE Close
  <2>1. AMarker("unloading", points + 1) \in Marker \cup Tick
    BY <1>1 DEF AMarker, Marker, Actions
  <2>2. role # "replica"
    OBVIOUS
  <2> QED  BY Zenon, <1>1, <1>3, <2>1, <2>2 DEF Close, bounds
<1> QED  BY Zenon, <1>2, <1>3

LEMMA TakeBase ==
  ASSUME BaseInv, role = "master", Cron \/ Close
  PROVE  BaseInv'
<1> USE DEF BaseInv
<1>1. pending \in Seq(Marker \cup Tick) /\ <<>> \in Seq(Marker)
  BY TypesOf
<1>2. todo' \in Seq(Marker \cup Tick)
  <2>1. PICK last \in Marker \cup Tick : todo' = Append(pending, last)
    BY Zenon, TakeFrame
  <2> QED  BY Zenon, <1>1, <2>1, Appended
<1>3. at' \in Phases
  BY Zenon, TakeFrame DEF Phases
<1>4. TypeInv'
  BY Zenon, <1>1, <1>2, <1>3, TakeFrame, TypesOf, TypesFrom
<1>5. Stages'
  <2>1. CASE at = "idle" /\ at' = "cron"
    BY Zenon, <2>1, TakeFrame DEF Stages
  <2>2. CASE at = "stopping" /\ at' = "closing" /\ backlog = <<>>
    BY Zenon, <2>2, TakeFrame DEF Stages
  <2> QED  BY Zenon, <2>1, <2>2, TakeFrame
<1> QED  BY Zenon, <1>4, <1>5, TakeFrame DEF NothingStranded

LEMMA LoadFrame ==
  ASSUME BaseInv, Load
  PROVE  /\ at = "unloaded" /\ at' = "idle" /\ jobs = <<>> /\ todo = <<>> /\ backlog = <<>>
         /\ gen' = gen + 1 /\ resolved' = 0 /\ enabled' \in BOOLEAN
         /\ \/ /\ enabled' /\ points' = points + 1
               /\ pending' = <<AMarker("loaded", points + 1)>>
            \/ /\ ~enabled' /\ points' = points + 2
               /\ pending' = <<AMarker("loaded", points + 1), AMarker("disabled", points + 2)>>
         /\ gone' = gone \cup Points(pending) /\ dirty' = TRUE /\ due' = FALSE
         /\ UNCHANGED <<role, jobs, todo, backlog, time, events, log, missed>>
<1>1. enabled' \in BOOLEAN
  BY Zenon DEF Load
<1>2. at = "unloaded" /\ todo = <<>> /\ backlog = <<>>
  BY DEF Load, BaseInv, Stages
<1> QED  BY Zenon, <1>1, <1>2 DEF Load

LEMMA LoadBase ==
  ASSUME BaseInv, Load
  PROVE  BaseInv'
<1> USE DEF BaseInv
<1>1. points \in Nat /\ points + 1 \in Nat /\ points + 2 \in Nat /\ gen + 1 \in Nat /\ 0 \in Nat
  <2>1. points \in Nat /\ gen \in Nat
    BY Zenon, TypesOf
  <2> HIDE DEF BaseInv
  <2> QED  BY SMT, <2>1
<1>2. AMarker("loaded", points + 1) \in Marker /\ AMarker("disabled", points + 2) \in Marker
  BY <1>1 DEF AMarker, Marker, Actions
<1>3. pending' \in Seq(Marker) /\ pending' # <<>>
  <2> DEFINE l == AMarker("loaded", points + 1)
             d == AMarker("disabled", points + 2)
  <2> HIDE DEF l, d, Marker
  <2>1. <<l>> \in Seq(Marker) /\ <<l, d>> \in Seq(Marker) /\ <<l>> # <<>> /\ <<l, d>> # <<>>
    BY <1>2 DEF l, d
  <2>2. pending' = <<l>> \/ pending' = <<l, d>>
    BY Zenon, LoadFrame DEF l, d
  <2> QED  BY Zenon, <2>1, <2>2
<1>4. at' \in Phases /\ points' \in Nat /\ gen' \in Nat
  BY Zenon, <1>1, LoadFrame DEF Phases
<1>5. TypeInv'
  BY Zenon, <1>1, <1>3, <1>4, LoadFrame, PointsType, TypesOf, TypesFrom
<1>6. Stages'
  BY Zenon, LoadFrame DEF Stages
<1> QED  BY Zenon, <1>5, <1>6, LoadFrame DEF NothingStranded

LEMMA QuietBase ==
  ASSUME BaseInv, Quiet
  PROVE  BaseInv'
<1> USE DEF BaseInv
<1>1. UNCHANGED content /\ Moves
  BY Zenon, QuietMoves
<1>2. at' \in Phases
  BY Zenon, <1>1, TypesOf DEF Moves, Phases
<1>3. role' \in Roles /\ due' \in BOOLEAN /\ events' \in Nat
  <2>1. role \in Roles /\ due \in BOOLEAN /\ events \in Nat /\ events + 1 \in Nat
    BY TypesOf
  <2>2. CASE ChangeRole
    BY <2>1, <2>2 DEF ChangeRole, Roles
  <2>3. CASE Elapse \/ (role = "replica" /\ (Cron \/ SwapDb \/ Close))
    <3>1. role = "replica" => role # "master"
      OBVIOUS
    <3> QED  BY Zenon, <2>1, <2>3, <3>1 DEF Elapse, Cron, SwapDb, Close, MarkOnMaster, bounds
  <2>4. CASE EndUnit \/ JobsDone \/ WorkerLock \/ WorkerUnlock
    BY Zenon, <2>1, <2>4 DEF EndUnit, JobsDone, WorkerLock, WorkerUnlock, bounds
  <2>5. CASE CronDone \/ Unload \/ Unloaded \/ Crash \/ UNCHANGED vars
    BY Zenon, <2>1, <2>5 DEF CronDone, Unload, Unloaded, Crash, vars, bounds
  <2> QED  BY Zenon, <2>2, <2>3, <2>4, <2>5 DEF Quiet
<1>4. TypeInv'
  BY Zenon, <1>1, <1>2, <1>3, TypesOf, TypesFrom DEF content
<1>5. Stages'
  <2>1. jobs' = jobs /\ todo' = todo /\ pending' = pending /\ dirty' = dirty /\ backlog' = backlog
    BY Zenon, <1>1 DEF content
  <2> QED  BY <1>1, <2>1 DEF Moves, Stages
<1> QED  BY Zenon, <1>1, <1>4, <1>5 DEF content, NothingStranded

LEMMA BaseNext == BaseInv /\ [Next]_vars => BaseInv'
<1> SUFFICES ASSUME BaseInv, [Next]_vars PROVE BaseInv'
  OBVIOUS
<1> QED  BY Zenon, NextCases, QuietBase, NotifyBase, WriteBase, PointBase, ReplayBase, TakeBase,
            LoadBase DEF Point

\* Type correctness, with where jobs, direct writes and accepted events can be, and no
\* marker is stranded under a lowered MARKERS_DIRTY: for any bounds and any operations.
THEOREM TypeCorrect == Spec => [](TypeInv /\ Stages /\ NothingStranded)
BY BaseInit, BaseNext, PTL DEF Spec, BaseInv

-----------------------------------------------------------------------------
(* Generations. *)

\* What a sequence holds.
Held(s) == {s[i] : i \in DOMAIN s}

IsMarker(x, as) == x.kind = "marker" /\ x.action \in as

GensInv == \A i \in DOMAIN log : log[i].gen <= gen

-----------------------------------------------------------------------------
(* How the log grows. *)

LEMMA Grown ==
  ASSUME TypeInv, NEW x \in Items, log' = Append(log, Written(x))
  PROVE  /\ Len(log) \in Nat /\ DOMAIN log = 1..Len(log) /\ DOMAIN log' = 1..(Len(log) + 1)
         /\ DOMAIN log' = DOMAIN log \cup {Len(log) + 1} /\ Len(log') = Len(log) + 1
         /\ Len(log) + 1 \notin DOMAIN log
         /\ \A i \in DOMAIN log : i \in Nat /\ i < Len(log) + 1 /\ log'[i] = log[i]
         /\ log'[Len(log) + 1] = Written(x)
         /\ Written(x).item = x /\ Written(x).unit = time /\ Written(x).gen = gen
         /\ Written(x).resolved = resolved
<1>1. Written(x) \in Recs /\ log \in Seq(Recs)
  BY Zenon, RecType DEF TypeInv
<1>2. /\ Len(log) \in Nat /\ DOMAIN log = 1..Len(log) /\ DOMAIN log' = 1..(Len(log) + 1)
      /\ Len(log') = Len(log) + 1
      /\ \A i \in 1..Len(log) : log'[i] = log[i]
      /\ log'[Len(log) + 1] = Written(x)
  <2> HIDE DEF Recs
  <2> QED  BY <1>1, Appended
<1>3. /\ DOMAIN log' = DOMAIN log \cup {Len(log) + 1} /\ Len(log) + 1 \notin DOMAIN log
      /\ \A i \in DOMAIN log : i \in Nat /\ i < Len(log) + 1
  BY <1>2
<1>4. /\ Written(x).item = x /\ Written(x).unit = time /\ Written(x).gen = gen
      /\ Written(x).resolved = resolved
  BY DEF Written
<1> QED  BY Zenon, <1>2, <1>3, <1>4

\* A step writes nothing, loads a generation, or appends one record that it accounts for.
Adds(x) ==
  /\ log' = Append(log, Written(x)) /\ gen' = gen
  /\ resolved' = IF x.kind \in {"entry", "lost"} THEN resolved + 1 ELSE resolved

LEMMA WriteLog ==
  ASSUME BaseInv, NEW x \in Marker \cup Event \cup Tick, NEW js, Write(x, js), Kept
  PROVE  /\ x \in Items /\ Loss \in Items
         /\ \/ UNCHANGED <<log, gen, resolved>> /\ ("refuse" \in Ops \/ x.kind = "checkpoint")
            \/ Adds(x)
            \/ Adds(Loss) /\ "refuse" \in Ops /\ x.kind = "entry"
<1>1. x \in Items /\ Loss \in Items /\ Loss.kind = "lost" /\ Written(x).item = x
  BY DEF Items, Loss, Written
<1>2. x.kind \in {"marker", "entry", "checkpoint"}
  BY DEF Marker, Event, Tick
<1>3. resolved' = IF x.kind \in {"entry", "lost"} THEN resolved + 1 ELSE resolved
  BY <1>2 DEF Write, Resolves
<1>4. CASE log' = Append(log, Written(x))
  BY Zenon, <1>1, <1>3, <1>4 DEF Adds, Kept
<1>5. CASE log' = log /\ x.kind = "checkpoint"
  <2>1. x.kind \notin {"entry", "lost"}
    BY <1>5
  <2> QED  BY Zenon, <1>1, <1>3, <1>5, <2>1 DEF Kept
<1>6. CASE "refuse" \in Ops /\ log' = IF x.kind = "entry" THEN Append(log, Written(Loss)) ELSE log
  <2>1. CASE x.kind = "entry"
    BY Zenon, <1>1, <1>3, <1>6, <2>1 DEF Adds, Kept
  <2>2. CASE x.kind # "entry"
    <3>1. x.kind \notin {"entry", "lost"}
      BY <1>2, <2>2
    <3> QED  BY Zenon, <1>1, <1>3, <1>6, <2>2, <3>1 DEF Kept
  <2> QED  BY Zenon, <2>1, <2>2
<1> QED  BY Zenon, <1>1, <1>4, <1>5, <1>6 DEF Write, Extended

LEMMA NotifyFrame ==
  ASSUME BaseInv, Notify
  PROVE  /\ at \in {"idle", "unit"} /\ at' = "unit" /\ todo = <<>>
         /\ time' = Unit /\ Unit \in Nat /\ time <= Unit /\ AnEvent(Unit) \in Event
         /\ at = "unit" => Unit = time
         /\ UNCHANGED <<role, enabled, gen, todo, due, points>>
         /\ \E new \in Seq(Event) :
              /\ Step0(jobs, new)
              /\ new = <<>> \/ (new = <<AnEvent(Unit)>> /\ role = "master" /\ "async" \notin Ops)
         /\ backlog' = backlog \/ (backlog' = Append(backlog, AnEvent(Unit)) /\ role = "master")
         /\ UNCHANGED <<log, resolved>> \/ (Adds(Loss) /\ "defer" \in Ops)
         /\ missed' = missed \/ (missed' = missed \cup {Unit} /\ ~enabled /\ role = "master")
<1>1. at \in {"idle", "unit"} /\ time \in Nat
  BY TypesOf DEF Notify, InUnit, BaseInv
<1>2. todo = <<>> /\ Unit \in Nat /\ time <= Unit /\ (at = "unit" => Unit = time)
  BY <1>1 DEF Unit, BaseInv, Stages
<1>3. AnEvent(Unit) \in Event /\ AnEvent(Unit).kind = "entry" /\ Loss.kind \in {"entry", "lost"}
  BY <1>2 DEF AnEvent, Event, Loss
<1>4. <<>> \in Seq(Event) /\ <<AnEvent(Unit)>> \in Seq(Event)
  <2> HIDE DEF Event
  <2> QED  BY <1>3
<1>5. at' = "unit" /\ time' = Unit /\ UNCHANGED <<role, enabled, gen, todo, due, points>>
  BY Zenon DEF Notify
<1>6. \E new \in Seq(Event) :
        /\ Step0(jobs, new)
        /\ new = <<>> \/ (new = <<AnEvent(Unit)>> /\ role = "master" /\ "async" \notin Ops)
  BY Zenon, <1>4 DEF Notify, Captured, Skipped, Dispatch
<1>7. /\ backlog' = backlog \/ (backlog' = Append(backlog, AnEvent(Unit)) /\ role = "master")
      /\ missed' = missed \/ (missed' = missed \cup {Unit} /\ ~enabled /\ role = "master")
  <2>1. role = "replica" => role # "master"
    OBVIOUS
  <2> QED  BY Zenon, <2>1 DEF Notify, Captured, Skipped, Dispatch
<1>8. UNCHANGED <<log, resolved>> \/ (Adds(Loss) /\ "defer" \in Ops)
  <2>1. Resolves(AnEvent(Unit)) => resolved' = resolved + 1
    BY Zenon, <1>3 DEF Resolves
  <2> QED  BY Zenon, <1>3, <1>5, <2>1 DEF Notify, Captured, Skipped, Dispatch, Adds
<1> QED  BY Zenon, <1>1, <1>2, <1>3, <1>5, <1>6, <1>7, <1>8

\* A lifecycle point, or a flush replayed on a replica.
LEMMA MarkFrame ==
  ASSUME BaseInv, Point \/ (FlushStarted /\ role # "master")
  PROVE  /\ at \in {"idle", "unit"} /\ todo = <<>>
         /\ UNCHANGED <<at, role, resolved, gen, jobs, todo, backlog, time, missed, gone>>
         /\ \/ UNCHANGED <<enabled, pending, dirty, points>> /\ role # "master"
            \/ Recorded(PointActions)
         /\ Wipe \in Items /\ Wipe.kind = "flush"
         /\ \/ log' = log /\ ~FlushStarted
            \/ Adds(Wipe) /\ FlushStarted
<1>1. Wipe \in Items /\ Wipe.kind = "flush" /\ Wipe.kind \notin {"entry", "lost"}
  BY TypesOf DEF BaseInv, Wipe, Items
<1>2. /\ at \in {"idle", "unit"}
      /\ UNCHANGED <<at, role, resolved, gen, jobs, todo, backlog, time, missed, gone>>
      /\ \/ UNCHANGED <<enabled, pending, dirty, points>> /\ role # "master"
         \/ Recorded(PointActions)
  BY Zenon, PointRecords, ReplayFrame
<1>3. todo = <<>>
  BY <1>2 DEF BaseInv, Stages
<1>4. \/ log' = log /\ ~FlushStarted
      \/ log' = Append(log, Written(Wipe)) /\ FlushStarted
  BY Zenon, PointLog
<1> QED  BY Zenon, <1>1, <1>2, <1>3, <1>4 DEF Adds

LEMMA LogSteps ==
  ASSUME BaseInv, [Next]_vars
  PROVE  \/ UNCHANGED <<log, gen, resolved>>
         \/ log' = log /\ gen' = gen + 1 /\ resolved' = 0
         \/ \E x \in Items : Adds(x)
<1>1. CASE Quiet
  BY Zenon, <1>1, QuietMoves DEF content
<1>2. CASE Notify
  <2>1. Loss \in Items
    BY DEF Items
  <2> QED  BY Zenon, <1>2, <2>1, NotifyFrame
<1>3. CASE RunJob \/ WorkerWrite \/ WriteDirect
  BY Zenon, <1>3, WriteCases, WriteLog
<1>4. CASE Point \/ (FlushStarted /\ role # "master")
  BY Zenon, <1>4, MarkFrame
<1>5. CASE role = "master" /\ (Cron \/ Close)
  BY Zenon, <1>5, TakeFrame
<1>6. CASE Load
  BY Zenon, <1>6, LoadFrame
<1> QED  BY Zenon, <1>1, <1>2, <1>3, <1>4, <1>5, <1>6, NextCases DEF Point

LEMMA GensInit == Init => GensInv
BY DEF Init, GensInv

LEMMA GensNext == BaseInv /\ GensInv /\ [Next]_vars => GensInv'
<1> SUFFICES ASSUME BaseInv, GensInv, [Next]_vars PROVE GensInv'
  OBVIOUS
<1>1. gen \in Nat /\ log \in Seq(Recs) /\ TypeInv
  BY Zenon, TypesOf DEF BaseInv
<1>2. CASE UNCHANGED <<log, gen, resolved>>
  BY Zenon, <1>2 DEF GensInv
<1>3. CASE log' = log /\ gen' = gen + 1
  <2>1. \A i \in DOMAIN log : log[i].gen \in Nat
    BY Zenon, <1>1, LogTyped
  <2> QED  BY <1>1, <1>3, <2>1 DEF GensInv
<1>4. ASSUME NEW x \in Items, Adds(x) PROVE GensInv'
  <2>1. gen' = gen /\ gen <= gen /\ log' = Append(log, Written(x))
    BY <1>1, <1>4 DEF Adds
  <2>2. /\ DOMAIN log' = DOMAIN log \cup {Len(log) + 1}
        /\ \A i \in DOMAIN log : log'[i] = log[i]
        /\ log'[Len(log) + 1].gen = gen
    BY Zenon, <1>1, <2>1, Grown
  <2> QED  BY Zenon, <2>1, <2>2 DEF GensInv
<1> QED  BY Zenon, <1>2, <1>3, <1>4, LogSteps

-----------------------------------------------------------------------------
(* What the sequences hold. *)

LEMMA HeldIn ==
  ASSUME NEW S, NEW s \in Seq(S)
  PROVE  Held(s) \subseteq S
BY DEF Held

LEMMA HeldJoined ==
  ASSUME NEW S, NEW s \in Seq(S), NEW t \in Seq(S)
  PROVE  Held(s \o t) = Held(s) \cup Held(t)
<1> DEFINE u == s \o t
<1>1. /\ Len(s) \in Nat /\ Len(t) \in Nat /\ DOMAIN u = 1..(Len(s) + Len(t))
      /\ DOMAIN s = 1..Len(s) /\ DOMAIN t = 1..Len(t)
      /\ \A i \in 1..Len(s) : u[i] = s[i]
      /\ \A i \in 1..Len(t) : u[Len(s) + i] = t[i]
  BY Joined
<1> HIDE DEF u
<1>2. /\ \A i \in DOMAIN s : i \in DOMAIN u
      /\ \A i \in DOMAIN t : Len(s) + i \in DOMAIN u
      /\ \A i \in DOMAIN u : i \in DOMAIN s \/ (i - Len(s) \in DOMAIN t /\ Len(s) + (i - Len(s)) = i)
  BY <1>1
<1>3. Held(u) = Held(s) \cup Held(t)
  BY <1>1, <1>2 DEF Held
<1> QED  BY Zenon, <1>3 DEF u

LEMMA HeldAppended ==
  ASSUME NEW S, NEW s \in Seq(S), NEW x \in S
  PROVE  Held(Append(s, x)) = Held(s) \cup {x}
<1>1. <<x>> \in Seq(S) /\ Append(s, x) = s \o <<x>>
  OBVIOUS
<1>2. Held(<<x>>) = {x}
  BY DEF Held
<1>3. \A q \in Seq(S) : Held(s \o q) = Held(s) \cup Held(q)
  BY Zenon, HeldJoined
<1> QED  BY Zenon, <1>1, <1>2, <1>3

LEMMA HeldTail ==
  ASSUME NEW S, NEW s \in Seq(S), s # <<>>
  PROVE  Held(s) = {Head(s)} \cup Held(Tail(s))
<1> DEFINE r == Tail(s)
<1>1. /\ Head(s) = s[1] /\ Len(s) \in Nat /\ Len(s) > 0 /\ Len(r) = Len(s) - 1
      /\ \A i \in 1..Len(r) : r[i] = s[i + 1]
      /\ DOMAIN s = 1..Len(s) /\ DOMAIN r = 1..Len(r)
  BY Headed
<1> HIDE DEF r
<1>2. /\ 1 \in DOMAIN s
      /\ \A i \in DOMAIN r : i + 1 \in DOMAIN s
      /\ \A i \in DOMAIN s : i = 1 \/ (i - 1 \in DOMAIN r /\ (i - 1) + 1 = i)
  BY <1>1
<1>3. Held(s) = {s[1]} \cup Held(r)
  BY <1>1, <1>2 DEF Held
<1> QED  BY Zenon, <1>1, <1>3 DEF r

LEMMA HeldEmpty == Held(<<>>) = {}
BY DEF Held

\* Step 0 moves what is pending behind the registered jobs.
LEMMA Step0Held ==
  ASSUME TypeInv, NEW js \in Seq(Jobs), NEW new \in Seq(Event), Step0(js, new)
  PROVE  /\ Held(pending') \subseteq Held(pending)
         /\ Held(jobs') \subseteq Held(js) \cup Held(pending) \cup Held(new)
         /\ "defer" \notin Ops =>
              Held(jobs') \cup Held(pending') = Held(js) \cup Held(pending) \cup Held(new)
<1>1. /\ js \o new \in Seq(Jobs) /\ pending \in Seq(Jobs) /\ new \in Seq(Jobs)
      /\ js \o pending \in Seq(Jobs)
  BY Zenon, Step0Cases, Joined
<1>2. \A s, q \in Seq(Jobs) : Held(s \o q) = Held(s) \cup Held(q)
  BY Zenon, HeldJoined
<1>3. Held(js \o new) = Held(js) \cup Held(new)
  BY Zenon, <1>1, <1>2
<1>4. Held(js \o pending \o new) = Held(js) \cup Held(pending) \cup Held(new)
  BY ZenonT(40), <1>1, <1>2
<1>5. \/ jobs' = js \o new /\ pending' = pending
      \/ jobs' = js \o pending \o new /\ pending' = <<>>
      \/ jobs' = js \o new /\ pending' = <<>> /\ "defer" \in Ops
  BY Zenon, Step0Cases
<1> QED  BY Zenon, <1>3, <1>4, <1>5, HeldEmpty

LEMMA WriteHeld ==
  ASSUME TypeInv, NEW x \in Marker \cup Event \cup Tick, NEW js \in Seq(Jobs), Write(x, js)
  PROVE  /\ Held(pending') \subseteq Held(pending)
         /\ Held(jobs') \subseteq Held(js) \cup Held(pending)
         /\ "defer" \notin Ops =>
              Held(jobs') \cup Held(pending') = Held(js) \cup Held(pending)
<1>1. <<>> \in Seq(Event)
  OBVIOUS
<1> QED  BY ZenonT(40), <1>1, Step0Held, HeldEmpty DEF Write

-----------------------------------------------------------------------------
(* What deinit leaves behind. *)

\* A job registered while the module is being unloaded has taken all that was pending, so
\* deinit has only its closing marker to write beside it; and with a worker, events being
\* in its queue, jobs write markers.
LeftInv ==
  /\ at \in {"stopping", "closing", "unloaded", "crashed"} /\ jobs # <<>> =>
       pending = <<>> /\ ~dirty
  /\ at = "closing" /\ jobs # <<>> /\ todo # <<>> => todo = <<AMarker("unloading", points)>>
  /\ "async" \in Ops => \A m \in Held(jobs) : m.kind = "marker"

\* A job that runs after the unload finds nothing pending either.
LEMMA LeftDrainsNothing ==
  ASSUME BaseInv, LeftInv, NEW x, NEW js, Writing(x, js), Write(x, js), at = "unloaded"
  PROVE  jobs' = js /\ pending' = <<>> /\ pending = <<>> /\ ~dirty'
<1>1. jobs # <<>> /\ js = Tail(jobs) /\ jobs \in Seq(Jobs)
  BY TypesOf DEF Writing, BaseInv
<1>2. pending = <<>> /\ ~dirty
  BY <1>1 DEF LeftInv
<1>3. js \o <<>> = js
  <2>1. js \in Seq(Jobs)
    BY Zenon, <1>1, Headed
  <2> QED  BY <2>1
<1>4. Step0(js, <<>>) => jobs' = js /\ UNCHANGED <<pending, dirty>>
  BY Zenon, <1>2, <1>3 DEF Step0, Drains
<1>5. jobs' = js /\ UNCHANGED <<pending, dirty>>
  BY Zenon, <1>4 DEF Write
<1> QED  BY Zenon, <1>2, <1>5

LEMMA LeftMarkers ==
  ASSUME BaseInv, LeftInv, [Next]_vars, "async" \in Ops
  PROVE  \A m \in Held(jobs') : m.kind = "marker"
<1>1. /\ TypeInv /\ jobs \in Seq(Jobs) /\ pending \in Seq(Marker)
      /\ \A m \in Held(jobs) : m.kind = "marker"
  BY Zenon, TypesOf DEF BaseInv, LeftInv
<1>2. \A m \in Held(pending) : m.kind = "marker"
  <2>1. Held(pending) \subseteq Marker
    BY Zenon, <1>1, HeldIn
  <2>2. \A m \in Marker : m.kind = "marker"
    BY DEF Marker
  <2> QED  BY Zenon, <2>1, <2>2
<1>3. CASE UNCHANGED jobs
  BY Zenon, <1>1, <1>3
<1>4. CASE Notify
  <2>1. Step0(jobs, <<>>)
    BY Zenon, <1>4, NotifyFrame
  <2>2. <<>> \in Seq(Event)
    OBVIOUS
  <2> QED  BY Zenon, <1>1, <1>2, <2>1, <2>2, Step0Held, HeldEmpty
<1>5. CASE RunJob \/ WorkerWrite \/ WriteDirect
  <2>1. PICK x \in Marker \cup Event \cup Tick, js \in Seq(Jobs) : Writing(x, js) /\ Write(x, js)
    BY Zenon, <1>5, WriteCases
  <2>2. Held(js) \subseteq Held(jobs)
    BY Zenon, <1>1, <2>1, HeldTail DEF Writing
  <2> QED  BY Zenon, <1>1, <1>2, <2>1, <2>2, WriteHeld
<1>6. CASE Quiet \/ Point \/ (FlushStarted /\ role # "master") \/ Load
           \/ (role = "master" /\ (Cron \/ Close))
  <2>1. UNCHANGED jobs
    BY Zenon, <1>6, QuietMoves, MarkFrame, TakeFrame, LoadFrame DEF content
  <2> QED  BY Zenon, <1>3, <2>1
<1> QED  BY Zenon, <1>4, <1>5, <1>6, NextCases DEF Point

LEMMA WriteLeft ==
  ASSUME BaseInv, LeftInv, [Next]_vars, RunJob \/ WorkerWrite \/ WriteDirect
  PROVE  LeftInv'
<1>1. PICK x \in Marker \cup Event \cup Tick, js \in Seq(Jobs) :
        Writing(x, js) /\ Write(x, js) /\ Kept
  BY Zenon, WriteCases
<1>2. at' = at /\ points' = points
  BY Zenon, <1>1 DEF Kept, bounds
<1>m. "async" \in Ops => \A m \in Held(jobs') : m.kind = "marker"
  BY Zenon, LeftMarkers
<1>3. CASE at = "stopping"
  <2>1. js = jobs /\ todo' = todo
    BY <1>1, <1>3 DEF Writing
  <2>2. (jobs' = jobs /\ UNCHANGED <<pending, dirty>>) \/ (pending' = <<>> /\ ~dirty')
    <3>1. jobs \o <<>> = jobs
      BY TypesOf DEF BaseInv
    <3> QED  BY Zenon, <1>1, <2>1, <3>1 DEF Write, Step0
  <2> QED  BY <1>2, <1>3, <1>m, <2>2 DEF LeftInv
<1>4. CASE at = "closing"
  <2>1. todo # <<>> /\ todo' = Tail(todo)
    BY <1>1, <1>4 DEF Writing
  <2>2. jobs' = jobs /\ pending' = <<>> /\ ~dirty'
    BY Zenon, <1>1, <1>4, DirectDrainsNothing
  <2>3. todo = <<AMarker("unloading", points)>> => Tail(todo) = <<>>
    OBVIOUS
  <2> QED  BY <1>2, <1>4, <1>m, <2>1, <2>2, <2>3 DEF LeftInv
<1>5. CASE at = "unloaded"
  <2>1. pending' = <<>> /\ ~dirty'
    BY Zenon, <1>1, <1>5, LeftDrainsNothing
  <2> QED  BY <1>2, <1>5, <1>m, <2>1 DEF LeftInv
<1>6. CASE at \notin {"stopping", "closing", "unloaded"}
  <2>1. at # "crashed"
    BY <1>1 DEF Writing
  <2> QED  BY <1>2, <1>6, <1>m, <2>1 DEF LeftInv
<1> QED  BY Zenon, <1>3, <1>4, <1>5, <1>6

LEMMA LeftInit == Init => LeftInv
BY DEF Init, LeftInv, Held

LEMMA LeftNext == BaseInv /\ LeftInv /\ [Next]_vars => LeftInv'
<1> SUFFICES ASSUME BaseInv, LeftInv, [Next]_vars PROVE LeftInv'
  OBVIOUS
<1>m. "async" \in Ops => \A m \in Held(jobs') : m.kind = "marker"
  BY Zenon, LeftMarkers
<1>1. CASE Quiet
  <2>1. UNCHANGED <<pending, dirty, jobs, todo, points>> /\ Moves
    BY Zenon, <1>1, QuietMoves DEF content
  <2>2. CASE at' = at
    BY Zenon, <1>m, <2>1, <2>2 DEF LeftInv
  <2>3. CASE at = "idle" /\ at' = "stopping"
    BY <1>m, <2>1, <2>3 DEF LeftInv, BaseInv, Stages
  <2>4. CASE at = "stopping" /\ at' = "closing"
    BY <1>m, <2>1, <2>4 DEF LeftInv, BaseInv, Stages
  <2>5. CASE at \in {"closing", "unloaded"} /\ at' \in {"unloaded", "crashed"}
    BY <1>m, <2>1, <2>5 DEF LeftInv
  <2>6. CASE at' \in {"jobs", "idle", "worker"}
    BY <1>m, <2>6 DEF LeftInv
  <2> QED  BY <2>1, <2>2, <2>3, <2>4, <2>5, <2>6 DEF Moves
<1>2. CASE RunJob \/ WorkerWrite \/ WriteDirect
  BY Zenon, <1>2, WriteLeft
<1>3. CASE Notify \/ Point \/ (FlushStarted /\ role # "master") \/ Load
  <2>1. at' \in {"idle", "unit"}
    BY Zenon, <1>3, NotifyFrame, MarkFrame, LoadFrame
  <2> QED  BY <1>m, <2>1 DEF LeftInv
<1>4. CASE Cron /\ role = "master"
  <2>1. at' = "cron"
    BY Zenon, <1>4 DEF Cron
  <2> QED  BY <1>m, <2>1 DEF LeftInv
<1>5. CASE Close /\ role = "master"
  <2>1. /\ at = "stopping" /\ at' = "closing" /\ jobs' = jobs /\ points' = points + 1
        /\ todo' = Append(pending, AMarker("unloading", points + 1))
        /\ pending' = <<>> /\ ~dirty'
    BY <1>5 DEF Close
  <2>2. jobs # <<>> => todo' = <<AMarker("unloading", points')>>
    BY <2>1 DEF LeftInv
  <2> QED  BY <1>m, <2>1, <2>2 DEF LeftInv
<1> QED  BY Zenon, <1>1, <1>2, <1>3, <1>4, <1>5, NextCases DEF Point

-----------------------------------------------------------------------------
(* Order. *)

LEMMA PointsJoined ==
  ASSUME NEW S, NEW s \in Seq(S), NEW t \in Seq(S)
  PROVE  /\ PointsIn(s \o t) = PointsIn(s) \cup PointsIn(t)
         /\ Rising(s) /\ Rising(t) /\ Before(PointsIn(s), PointsIn(t)) => Rising(s \o t)
<1> DEFINE u == s \o t
<1>1. /\ DOMAIN s = 1..Len(s) /\ DOMAIN t = 1..Len(t) /\ DOMAIN u = 1..Len(u)
      /\ Len(s) \in Nat /\ Len(t) \in Nat /\ Len(u) = Len(s) + Len(t)
      /\ \A i \in 1..Len(s) : u[i] = s[i]
      /\ \A i \in 1..Len(t) : u[Len(s) + i] = t[i]
  BY Joined
<1>2. \A i \in DOMAIN u : i \in DOMAIN s \/ (i - Len(s) \in DOMAIN t /\ i = Len(s) + (i - Len(s)))
  BY <1>1
<1>3. /\ \A i \in DOMAIN s : i \in DOMAIN u
      /\ \A i \in DOMAIN t : Len(s) + i \in DOMAIN u
  BY <1>1
<1> HIDE DEF u
<1>4. PointsIn(u) = PointsIn(s) \cup PointsIn(t)
  BY <1>1, <1>2, <1>3 DEF PointsIn
<1>5. ASSUME Rising(s), Rising(t), Before(PointsIn(s), PointsIn(t)) PROVE Rising(u)
  <2> SUFFICES ASSUME NEW i \in DOMAIN u, NEW j \in DOMAIN u, i < j,
                      u[i].kind = "marker", u[j].kind = "marker"
               PROVE  u[i].point < u[j].point
    BY Zenon DEF Rising
  <2>1. CASE i \in DOMAIN s /\ j \in DOMAIN s
    BY <1>1, <1>5, <2>1 DEF Rising
  <2>2. CASE i \in DOMAIN s /\ j - Len(s) \in DOMAIN t
    <3>1. u[i].point \in PointsIn(s) /\ u[j].point \in PointsIn(t)
      BY <1>1, <1>2, <2>2 DEF PointsIn
    <3> QED  BY Zenon, <1>5, <3>1 DEF Before
  <2>3. CASE i - Len(s) \in DOMAIN t /\ j - Len(s) \in DOMAIN t
    BY <1>1, <1>5, <2>3 DEF Rising
  <2> QED  BY <1>1, <1>2, <2>1, <2>2, <2>3
<1> QED  BY Zenon, <1>4, <1>5 DEF u

Point1(x) == IF x.kind = "marker" THEN {x.point} ELSE {}

LEMMA PointsAppended ==
  ASSUME NEW S, NEW s \in Seq(S), NEW x \in S
  PROVE  /\ PointsIn(Append(s, x)) = PointsIn(s) \cup Point1(x)
         /\ Rising(s) /\ Before(PointsIn(s), Point1(x)) => Rising(Append(s, x))
<1>1. Append(s, x) = s \o <<x>> /\ <<x>> \in Seq(S)
  OBVIOUS
<1>2. PointsIn(<<x>>) = Point1(x) /\ Rising(<<x>>)
  BY DEF PointsIn, Rising, Point1
<1>3. /\ PointsIn(s \o <<x>>) = PointsIn(s) \cup PointsIn(<<x>>)
      /\ Rising(s) /\ Rising(<<x>>) /\ Before(PointsIn(s), PointsIn(<<x>>))
           => Rising(s \o <<x>>)
  BY Zenon, <1>1, PointsJoined
<1> QED  BY <1>1, <1>2, <1>3

LEMMA PointsTail ==
  ASSUME NEW S, NEW s \in Seq(S), s # <<>>
  PROVE  /\ PointsIn(s) = Point1(Head(s)) \cup PointsIn(Tail(s))
         /\ Rising(s) => Rising(Tail(s)) /\ Before(Point1(Head(s)), PointsIn(Tail(s)))
<1> DEFINE r == Tail(s)
<1>1. /\ Head(s) = s[1] /\ Len(s) \in Nat /\ Len(s) > 0 /\ Len(r) = Len(s) - 1
      /\ \A i \in 1..Len(r) : r[i] = s[i + 1]
      /\ DOMAIN s = 1..Len(s) /\ DOMAIN r = 1..Len(r)
  BY Headed
<1> HIDE DEF r
<1>2. \A i \in DOMAIN s : i = 1 \/ (i - 1 \in DOMAIN r /\ r[i - 1] = s[i])
  BY <1>1
<1>3. 1 \in DOMAIN s /\ \A i \in DOMAIN r : i + 1 \in DOMAIN s /\ r[i] = s[i + 1] /\ 1 < i + 1
  BY <1>1
<1>4. PointsIn(s) = Point1(s[1]) \cup PointsIn(r)
  BY <1>2, <1>3 DEF PointsIn, Point1
<1>5. ASSUME Rising(s) PROVE Rising(r) /\ Before(Point1(s[1]), PointsIn(r))
  <2>1. Rising(r)
    <3> SUFFICES ASSUME NEW i \in DOMAIN r, NEW j \in DOMAIN r, i < j,
                        r[i].kind = "marker", r[j].kind = "marker"
                 PROVE  r[i].point < r[j].point
      BY Zenon DEF Rising
    <3>1. i + 1 < j + 1
      BY SMT, <1>1
    <3> QED  BY Zenon, <1>3, <1>5, <3>1 DEF Rising
  <2>2. Before(Point1(s[1]), PointsIn(r))
    BY <1>3, <1>5 DEF Rising, Before, Point1, PointsIn
  <2> QED  BY <2>1, <2>2
<1> QED  BY Zenon, <1>1, <1>4, <1>5 DEF r

LEMMA PointsEmpty == PointsIn(<<>>) = {} /\ Rising(<<>>)
BY DEF PointsIn, Rising

LEMMA NoPoints ==
  ASSUME NEW s \in Seq(Event)
  PROVE  PointsIn(s) = {} /\ Rising(s)
<1>1. \A i \in DOMAIN s : s[i] \in Event
  BY SMT
<1>2. \A i \in DOMAIN s : s[i].kind = "entry"
  BY <1>1 DEF Event
<1> QED  BY <1>2 DEF PointsIn, Rising

LEMMA PendingPoints ==
  ASSUME TypeInv
  PROVE  Points(pending) = PointsIn(pending)
<1>1. \A i \in DOMAIN pending : pending[i] \in Marker
  BY DEF TypeInv, TypeOK
<1>2. \A i \in DOMAIN pending : pending[i].kind = "marker"
  BY <1>1 DEF Marker
<1> QED  BY <1>2 DEF Points, PointsIn

\* The markers on the stream precede a record to be written, but for the closing one.
InPlace(w) ==
  \A i \in DOMAIN log :
    (Is(i, "marker") /\ w.item.kind = "marker") =>
      log[i].item.point < w.item.point \/ (Says(i, {"unloading"}) /\ log[i].gen = w.gen)

LEMMA PlaceFound ==
  ASSUME NEW w, Before(Logged, Point1(w.item))
  PROVE  InPlace(w)
<1> SUFFICES ASSUME NEW i \in DOMAIN log, Is(i, "marker"), w.item.kind = "marker"
             PROVE  log[i].item.point < w.item.point
  BY Zenon DEF InPlace
<1>1. log[i].item.point \in Logged /\ w.item.point \in Point1(w.item)
  BY Zenon DEF Logged, Point1
<1> QED  BY Zenon, <1>1 DEF Before

\* A record more on the control stream.
LEMMA LogPoints ==
  ASSUME log \in Seq(Recs), NEW w \in Recs, log' = Append(log, w)
  PROVE  /\ Logged' = Logged \cup Point1(w.item)
         /\ MarkersInOrder /\ InPlace(w) => MarkersInOrder'
<1>1. /\ DOMAIN log = 1..Len(log) /\ Len(log) \in Nat /\ DOMAIN log' = 1..(Len(log) + 1)
      /\ log'[Len(log) + 1] = w /\ \A i \in 1..Len(log) : log'[i] = log[i]
  <2> HIDE DEF Recs
  <2> QED  BY Appended
<1>2. Logged' = Logged \cup Point1(w.item)
  <2>1. \A i \in DOMAIN log' : i \in DOMAIN log \/ i = Len(log) + 1
    BY <1>1
  <2> QED  BY <1>1, <2>1 DEF Logged, Is, Point1
<1>3. ASSUME MarkersInOrder, InPlace(w) PROVE MarkersInOrder'
  <2> SUFFICES ASSUME NEW i \in DOMAIN log', NEW j \in DOMAIN log', i < j,
                      log'[i].item.kind = "marker", log'[j].item.kind = "marker"
               PROVE  \/ log'[i].item.point < log'[j].item.point
                      \/ /\ log'[i].item.kind = "marker" /\ log'[i].item.action \in {"unloading"}
                         /\ log'[i].gen = log'[j].gen
    BY Zenon DEF MarkersInOrder, Is, Says
  <2>1. i \in DOMAIN log /\ log'[i] = log[i]
    BY <1>1
  <2>2. CASE j \in DOMAIN log
    <3>1. log'[j] = log[j]
      BY <1>1, <2>2
    <3> QED  BY Zenon, <1>3, <2>1, <2>2, <3>1 DEF MarkersInOrder, Is, Says
  <2>3. CASE j = Len(log) + 1
    <3>1. log'[j] = w
      BY <1>1, <2>3
    <3> QED  BY Zenon, <1>3, <2>1, <3>1 DEF InPlace, Is, Says
  <2> QED  BY <1>1, <2>2, <2>3
<1> QED  BY Zenon, <1>2, <1>3

\* What a job, a direct write and a lifecycle point do to the places of the points.
LEMMA RunOrdered ==
  ASSUME NEW n \in Nat, NEW P, NEW X, NEW R, NEW L, NEW G, Before(X, R),
         Ordered(P, X \cup R, {}, L, G, n, TRUE)
  PROVE  /\ Ordered(P, R, {}, L \cup X, G, n, TRUE) /\ Ordered({}, R \cup P, {}, L \cup X, G, n, TRUE)
         /\ Ordered({}, R, {}, L \cup X, G \cup P, n, TRUE) /\ Ordered(P, R, {}, L, G \cup X, n, TRUE)
<1>1. P \subseteq Int /\ X \subseteq Int /\ R \subseteq Int /\ L \subseteq Int
  BY DEF Ordered
<1>2. X \cap R = {} /\ P \cap (X \cup R) = {} /\ P \cap L = {}
  BY <1>1 DEF Ordered, Before
<1>3. Ordered(P, R, {}, L \cup X, G, n, TRUE)
  BY Zenon, <1>2 DEF Ordered, Before
<1>4. Ordered({}, R \cup P, {}, L \cup X, G, n, TRUE)
  BY Zenon, <1>2 DEF Ordered, Before
<1>5. Ordered({}, R, {}, L \cup X, G \cup P, n, TRUE)
  BY Zenon, <1>2 DEF Ordered, Before
<1>6. Ordered(P, R, {}, L, G \cup X, n, TRUE)
  BY Zenon, <1>2 DEF Ordered, Before
<1> QED  BY Zenon, <1>3, <1>4, <1>5, <1>6

LEMMA LeftOrdered ==
  ASSUME NEW n \in Nat, NEW X, NEW R, NEW L, NEW G, Before(X, R),
         Ordered({}, X \cup R, {}, L, G, n, FALSE)
  PROVE  /\ Ordered({}, R, {}, L \cup X, G, n, FALSE) /\ Ordered({}, R, {}, L, G \cup X, n, FALSE)
<1>1. X \subseteq Int /\ R \subseteq Int
  BY DEF Ordered
<1>2. X \cap R = {}
  BY <1>1 DEF Before
<1>3. Ordered({}, R, {}, L \cup X, G, n, FALSE)
  BY Zenon, <1>2 DEF Ordered, Before
<1>4. Ordered({}, R, {}, L, G \cup X, n, FALSE)
  BY Zenon, <1>2 DEF Ordered, Before
<1> QED  BY Zenon, <1>3, <1>4

LEMMA DirectOrdered ==
  ASSUME NEW n \in Nat, NEW Q, NEW X, NEW R, NEW L, NEW G, Before(X, R),
         Ordered({}, Q, X \cup R, L, G, n, FALSE)
  PROVE  /\ Ordered({}, Q, R, L \cup X, G, n, FALSE) /\ Ordered({}, Q, R, L, G \cup X, n, FALSE)
<1>1. Q \subseteq Int /\ X \subseteq Int /\ R \subseteq Int /\ L \subseteq Int
  BY DEF Ordered
<1>2. X \cap R = {} /\ Q \cap X = {} /\ X \cap L = {}
  BY <1>1 DEF Ordered, Before
<1>3. Ordered({}, Q, R, L \cup X, G, n, FALSE)
  BY Zenon, <1>2 DEF Ordered, Before
<1>4. Ordered({}, Q, R, L, G \cup X, n, FALSE)
  BY Zenon, <1>2 DEF Ordered, Before
<1> QED  BY Zenon, <1>3, <1>4

LEMMA PointOrdered ==
  ASSUME NEW n \in Nat, NEW P, NEW Q, NEW D, NEW L, NEW G, NEW open, Ordered(P, Q, D, L, G, n, open)
  PROVE  /\ D = {} => Ordered(P \cup {n + 1}, Q, D, L, G, n + 1, open)
         /\ D = {} => Ordered({}, Q, P, L, G, n, open)
         /\ D = {} => Ordered({}, Q, P \cup {n + 1}, L, G, n + 1, FALSE)
<1>1. 0..(n + 1) = 0..n \cup {n + 1} /\ n + 1 \notin 0..n /\ \A i \in 0..n : i < n + 1
  OBVIOUS
<1>2. /\ P \subseteq 0..n /\ Q \subseteq 0..n /\ D \subseteq 0..n /\ L \subseteq 0..n /\ G \subseteq 0..n
  BY Zenon DEF Ordered
<1>3. D = {} => Ordered(P \cup {n + 1}, Q, D, L, G, n + 1, open)
  BY ZenonT(40), <1>1, <1>2 DEF Ordered, Before
<1>4. D = {} => Ordered({}, Q, P, L, G, n, open)
  BY Zenon DEF Ordered, Before
<1>5. D = {} => Ordered({}, Q, P \cup {n + 1}, L, G, n + 1, FALSE)
  BY ZenonT(40), <1>1, <1>2 DEF Ordered, Before
<1> QED  BY Zenon, <1>3, <1>4, <1>5

LEMMA LoadOrdered ==
  ASSUME NEW n \in Nat, NEW P, NEW L, NEW G, Ordered(P, {}, {}, L, G, n, FALSE)
  PROVE  /\ Ordered({n + 1}, {}, {}, L, G \cup P, n + 1, TRUE)
         /\ Ordered({n + 1, n + 2}, {}, {}, L, G \cup P, n + 2, TRUE)
<1>0. P \subseteq 0..n /\ L \subseteq 0..n /\ G \subseteq 0..n
  BY Zenon DEF Ordered
<1>1. P \cap L = {} /\ P \subseteq 0..n /\ L \subseteq 0..n /\ G \subseteq 0..n
  BY <1>0 DEF Ordered, Before
<1>2. Ordered({}, {}, {}, L, G \cup P, n, TRUE)
  BY Zenon, <1>1 DEF Ordered, Before
<1>3. Ordered({n + 1}, {}, {}, L, G \cup P, n + 1, TRUE)
  <2>1. Ordered({} \cup {n + 1}, {}, {}, L, G \cup P, n + 1, TRUE)
    BY Zenon, <1>2, PointOrdered
  <2>2. {} \cup {n + 1} = {n + 1}
    OBVIOUS
  <2> QED  BY Zenon, <2>1, <2>2
<1>4. n + 1 \in Nat /\ n + 1 + 1 = n + 2 /\ {n + 1} \cup {n + 2} = {n + 1, n + 2}
  OBVIOUS
<1>5. Ordered({n + 1} \cup {n + 1 + 1}, {}, {}, L, G \cup P, n + 1 + 1, TRUE)
  BY Zenon, <1>3, <1>4, PointOrdered
<1> QED  BY Zenon, <1>3, <1>4, <1>5

LEMMA Step0Points ==
  ASSUME TypeInv, NEW js \in Seq(Jobs), NEW new \in Seq(Event), Step0(js, new),
         Rising(js), Rising(pending), Before(PointsIn(js), PointsIn(pending))
  PROVE  /\ Rising(jobs') /\ Rising(pending')
         /\ \/ /\ Queued' = PointsIn(js) /\ PointsIn(pending') = PointsIn(pending)
               /\ gone' = gone
            \/ /\ Queued' = PointsIn(js) \cup PointsIn(pending) /\ PointsIn(pending') = {}
               /\ gone' = gone
            \/ /\ Queued' = PointsIn(js) /\ PointsIn(pending') = {}
               /\ gone' = gone \cup PointsIn(pending)
<1>1. Queued' = PointsIn(jobs')
  BY Zenon DEF Queued, PointsIn
<1>2. PointsIn(new) = {} /\ Rising(new)
  BY Zenon, NoPoints
<1>3. pending \in Seq(Jobs) /\ new \in Seq(Jobs) /\ js \o pending \in Seq(Jobs)
  BY Zenon, Step0Cases, Joined
<1>a. \A s, q \in Seq(Jobs) :
        /\ PointsIn(s \o q) = PointsIn(s) \cup PointsIn(q)
        /\ Rising(s) /\ Rising(q) /\ Before(PointsIn(s), PointsIn(q)) => Rising(s \o q)
  BY Zenon, PointsJoined
<1>4. PointsIn(js \o new) = PointsIn(js) /\ Rising(js \o new)
  <2>1. Before(PointsIn(js), PointsIn(new))
    BY Zenon, <1>2 DEF Before
  <2>2. PointsIn(js \o new) = PointsIn(js) \cup PointsIn(new) /\ Rising(js \o new)
    BY Zenon, <1>2, <1>3, <1>a, <2>1
  <2> QED  BY Zenon, <1>2, <2>2
<1>5. /\ PointsIn(js \o pending \o new) = PointsIn(js) \cup PointsIn(pending)
      /\ Rising(js \o pending \o new)
  <2>1. /\ PointsIn(js \o pending) = PointsIn(js) \cup PointsIn(pending)
        /\ Rising(js \o pending)
    BY Zenon, <1>3, <1>a
  <2>2. Before(PointsIn(js \o pending), PointsIn(new))
    BY Zenon, <1>2 DEF Before
  <2>3. /\ PointsIn(js \o pending \o new) = PointsIn(js \o pending) \cup PointsIn(new)
        /\ Rising(js \o pending \o new)
    BY Zenon, <1>2, <1>3, <1>a, <2>1, <2>2
  <2> QED  BY Zenon, <1>2, <2>1, <2>3
<1> QED  BY Zenon, <1>1, <1>4, <1>5, Step0Cases, PendingPoints, PointsEmpty

LEMMA WritePoints ==
  ASSUME BaseInv, NEW x \in Marker \cup Event \cup Tick, NEW js \in Seq(Jobs), Write(x, js),
         Rising(js), Rising(pending), Before(PointsIn(js), PointsIn(pending)),
         MarkersInOrder, InPlace(Written(x))
  PROVE  /\ Rising(jobs') /\ Rising(pending') /\ MarkersInOrder'
         /\ \/ /\ Logged' = Logged \cup Point1(x)
               /\ \/ /\ Queued' = PointsIn(js) /\ PointsIn(pending') = PointsIn(pending)
                     /\ gone' = gone
                  \/ /\ Queued' = PointsIn(js) \cup PointsIn(pending) /\ PointsIn(pending') = {}
                     /\ gone' = gone
                  \/ /\ Queued' = PointsIn(js) /\ PointsIn(pending') = {}
                     /\ gone' = gone \cup PointsIn(pending)
            \/ /\ Logged' = Logged /\ gone' = gone \cup Point1(x)
               /\ Queued' = PointsIn(js) /\ PointsIn(pending') = PointsIn(pending)
<1>1. TypeInv /\ log \in Seq(Recs) /\ Written(x) \in Recs /\ Written(Loss) \in Recs
  BY Zenon, RecType DEF BaseInv, TypeInv, Items
<1>2. Written(x).item = x /\ Written(Loss).item = Loss /\ Point1(Loss) = {}
  BY DEF Written, Loss, Point1
<1>3. CASE log' = Extended(Written(x)) /\ Step0(js, <<>>)
  <2>1. Logged' = Logged \cup Point1(x) /\ MarkersInOrder'
    <3>1. CASE log' = Append(log, Written(x))
      BY Zenon, <1>1, <1>2, <3>1, LogPoints
    <3>2. CASE log' = log /\ x.kind = "checkpoint"
      <4>1. Point1(x) = {}
        BY <3>2 DEF Point1
      <4> QED  BY Zenon, <3>2, <4>1 DEF Logged, MarkersInOrder, Is, Says
    <3> QED  BY Zenon, <1>2, <1>3, <3>1, <3>2 DEF Extended
  <2>2. <<>> \in Seq(Event)
    OBVIOUS
  <2> QED  BY Zenon, <1>1, <1>3, <2>1, <2>2, Step0Points
<1>4. CASE /\ log' = IF x.kind = "entry" THEN Append(log, Written(Loss)) ELSE log
           /\ gone' = IF x.kind = "marker" THEN gone \cup {x.point} ELSE gone
           /\ jobs' = js
           /\ UNCHANGED <<pending, dirty>>
  <2>1. Logged' = Logged /\ MarkersInOrder'
    <3>1. InPlace(Written(Loss))
      BY Zenon, <1>2, PlaceFound DEF Before
    <3>2. CASE log' = Append(log, Written(Loss))
      BY Zenon, <1>1, <1>2, <3>1, <3>2, LogPoints
    <3>3. CASE log' = log
      BY Zenon, <3>3 DEF Logged, MarkersInOrder, Is, Says
    <3> QED  BY Zenon, <1>4, <3>2, <3>3
  <2>2. gone' = gone \cup Point1(x) /\ Queued' = PointsIn(js)
    BY Zenon, <1>4 DEF Point1, Queued, PointsIn
  <2> QED  BY Zenon, <1>4, <2>1, <2>2
<1> QED  BY Zenon, <1>3, <1>4 DEF Write

LEMMA OrderInit == Init => OrderInv
<1> SUFFICES ASSUME Init PROVE OrderInv
  OBVIOUS
<1>1. PointsIn(pending) = {0} /\ Rising(pending)
  BY DEF Init, PointsIn, Rising, AMarker
<1>2. Queued = {} /\ Direct = {} /\ Logged = {} /\ MarkersInOrder /\ Rising(jobs) /\ Rising(todo)
  BY DEF Init, Queued, Direct, Logged, MarkersInOrder, Rising
<1>3. points = 0 /\ 0..0 = {0} /\ gone = {}
  BY DEF Init
<1> QED  BY <1>1, <1>2, <1>3 DEF OrderInv, Ordered, Before

\* The step lemmas share these names.
LEMMA OrderNames ==
  /\ Queued = PointsIn(jobs) /\ Direct = PointsIn(todo)
  /\ Queued' = PointsIn(jobs') /\ Direct' = PointsIn(todo')
BY Zenon DEF Queued, Direct, PointsIn

LEMMA NotifyOrder ==
  ASSUME BaseInv, OrderInv, Notify
  PROVE  OrderInv'
<1>1. /\ TypeInv /\ jobs \in Seq(Jobs) /\ points \in Nat /\ todo = <<>> /\ Open
      /\ at' = "unit" /\ log \in Seq(Recs)
  BY TypesOf DEF Notify, InUnit, BaseInv, Stages, Open
<1>2. todo' = todo /\ points' = points /\ Open' /\ Rising(jobs) /\ Rising(pending)
  BY <1>1 DEF Notify, Open, OrderInv
<1>3. Logged' = Logged /\ MarkersInOrder'
  <2>1. CASE log' = log
    BY Zenon, <2>1 DEF OrderInv, Logged, MarkersInOrder, Is, Says
  <2>2. CASE log' = Append(log, Written(Loss))
    <3>1. Written(Loss) \in Recs
      BY Zenon, <1>1, RecType DEF Items
    <3>2. Point1(Written(Loss).item) = {}
      BY DEF Written, Loss, Point1
    <3>3. InPlace(Written(Loss))
      BY Zenon, <3>2, PlaceFound DEF Before
    <3> QED  BY Zenon, <1>1, <2>2, <3>1, <3>2, <3>3, LogPoints DEF OrderInv
  <2> QED  BY Zenon, <2>1, <2>2 DEF Notify, Captured, Dispatch, Skipped
<1>4. \E new \in Seq(Event) : Step0(jobs, new)
  <2>1. AnEvent(Unit) \in Event
    BY <1>1, TypesOf DEF AnEvent, Event, Unit
  <2>2. <<>> \in Seq(Event) /\ <<AnEvent(Unit)>> \in Seq(Event)
    <3> HIDE DEF Event
    <3> QED  BY <2>1
  <2> QED  BY Zenon, <2>2 DEF Notify, Captured, Dispatch, Skipped
<1>5. Ordered(PointsIn(pending), {} \cup Queued, {}, Logged, gone, points, TRUE)
  BY Zenon, <1>1, PointsEmpty, OrderNames DEF OrderInv, Ordered
<1>6. Before(PointsIn(jobs), PointsIn(pending)) /\ Before({}, Queued)
  BY Zenon, OrderNames DEF OrderInv, Ordered, Before
<1>7. /\ Ordered(PointsIn(pending), Queued, {}, Logged, gone, points, TRUE)
      /\ Ordered({}, Queued \cup PointsIn(pending), {}, Logged, gone, points, TRUE)
      /\ Ordered({}, Queued, {}, Logged, gone \cup PointsIn(pending), points, TRUE)
  <2>1. Logged \cup {} = Logged
    OBVIOUS
  <2>2. /\ Ordered(PointsIn(pending), Queued, {}, Logged \cup {}, gone, points, TRUE)
        /\ Ordered({}, Queued \cup PointsIn(pending), {}, Logged \cup {}, gone, points, TRUE)
        /\ Ordered({}, Queued, {}, Logged \cup {}, gone \cup PointsIn(pending), points, TRUE)
    <3>1. points \in Nat /\ Before({}, Queued)
      BY Zenon, <1>1, <1>6
    <3> QED  BY Zenon, <1>5, <3>1, RunOrdered
  <2> QED  BY Zenon, <2>1, <2>2
<1>8. /\ Rising(jobs') /\ Rising(pending')
      /\ Ordered(PointsIn(pending'), Queued', {}, Logged, gone', points, TRUE)
  BY Zenon, <1>1, <1>2, <1>4, <1>6, <1>7, Step0Points, OrderNames
<1> QED  BY Zenon, <1>1, <1>2, <1>3, <1>8, PointsEmpty, OrderNames DEF OrderInv, Ordered

LEMMA WriteOrder ==
  ASSUME BaseInv, LeftInv, OrderInv, Overtaken, RunJob \/ WorkerWrite \/ WriteDirect
  PROVE  OrderInv'
<1>1. PICK x \in Marker \cup Event \cup Tick, js \in Seq(Jobs) :
        Writing(x, js) /\ Write(x, js) /\ Kept
  BY Zenon, WriteCases
<1>2. /\ Rising(pending) /\ MarkersInOrder /\ Rising(jobs) /\ Rising(todo) /\ points \in Nat
      /\ at' = at /\ points' = points /\ Open' = Open
      /\ jobs \in Seq(Jobs) /\ todo \in Seq(Marker \cup Tick) /\ backlog \in Seq(Event)
  BY Zenon, <1>1, TypesOf DEF OrderInv, BaseInv, Kept, bounds, Open
<1>p. points \in Nat
  BY Zenon, <1>2
<1>w. Written(x).item = x /\ Written(x).gen = gen
  BY DEF Written
<1>3. CASE at = "jobs"
  <2>1. /\ jobs # <<>> /\ x = Head(jobs) /\ js = Tail(jobs) /\ todo' = todo /\ todo = <<>> /\ Open
    BY <1>1, <1>3 DEF Writing, BaseInv, Stages, Open
  <2>2. /\ Queued = Point1(x) \cup PointsIn(js) /\ Rising(js) /\ Before(Point1(x), PointsIn(js))
    BY Zenon, <1>2, <2>1, PointsTail, OrderNames
  <2>3. Ordered(PointsIn(pending), Point1(x) \cup PointsIn(js), {}, Logged, gone, points, TRUE)
    BY Zenon, <2>1, <2>2, PointsEmpty, OrderNames DEF OrderInv, Ordered
  <2>4. Before(PointsIn(js), PointsIn(pending)) /\ InPlace(Written(x))
    BY Zenon, <1>w, <2>3, PlaceFound DEF Ordered, Before
  <2>5. /\ Rising(jobs') /\ Rising(pending') /\ MarkersInOrder'
        /\ Ordered(PointsIn(pending'), Queued', {}, Logged', gone', points, TRUE)
    <3>1. /\ Ordered(PointsIn(pending), PointsIn(js), {}, Logged \cup Point1(x), gone, points, TRUE)
          /\ Ordered({}, PointsIn(js) \cup PointsIn(pending), {}, Logged \cup Point1(x), gone,
                     points, TRUE)
          /\ Ordered({}, PointsIn(js), {}, Logged \cup Point1(x), gone \cup PointsIn(pending),
                     points, TRUE)
          /\ Ordered(PointsIn(pending), PointsIn(js), {}, Logged, gone \cup Point1(x), points, TRUE)
      BY Zenon, <1>p, <2>2, <2>3, RunOrdered
    <3> QED  BY Zenon, <1>1, <1>2, <2>2, <2>3, <2>4, <3>1, WritePoints
  <2> QED  BY Zenon, <1>2, <2>1, <2>5, PointsEmpty, OrderNames DEF OrderInv, Ordered
<1>4. CASE at \in {"worker", "stopping"}
  <2>1. /\ backlog # <<>> /\ x = Head(backlog) /\ js = jobs /\ todo' = todo /\ todo = <<>> /\ Open
    BY <1>1, <1>4 DEF Writing, BaseInv, Stages, Open
  <2>2. Point1(x) = {}
    <3>1. x \in Event
      BY Zenon, <1>2, <2>1, Headed
    <3> QED  BY <3>1 DEF Event, Point1
  <2>3. /\ Ordered(PointsIn(pending), Point1(x) \cup PointsIn(js), {}, Logged, gone, points, TRUE)
        /\ Before(Point1(x), PointsIn(js))
    BY Zenon, <2>1, <2>2, PointsEmpty, OrderNames DEF OrderInv, Ordered, Before
  <2>4. Before(PointsIn(js), PointsIn(pending)) /\ InPlace(Written(x)) /\ Rising(js)
    BY Zenon, <1>2, <1>w, <2>1, <2>3, PlaceFound DEF Ordered, Before
  <2>5. /\ Rising(jobs') /\ Rising(pending') /\ MarkersInOrder'
        /\ Ordered(PointsIn(pending'), Queued', {}, Logged', gone', points, TRUE)
    <3>1. /\ Ordered(PointsIn(pending), PointsIn(js), {}, Logged \cup Point1(x), gone, points, TRUE)
          /\ Ordered({}, PointsIn(js) \cup PointsIn(pending), {}, Logged \cup Point1(x), gone,
                     points, TRUE)
          /\ Ordered({}, PointsIn(js), {}, Logged \cup Point1(x), gone \cup PointsIn(pending),
                     points, TRUE)
          /\ Ordered(PointsIn(pending), PointsIn(js), {}, Logged, gone \cup Point1(x), points, TRUE)
      BY Zenon, <1>p, <2>3, RunOrdered
    <3> QED  BY Zenon, <1>1, <1>2, <2>3, <2>4, <3>1, WritePoints
  <2> QED  BY Zenon, <1>2, <2>1, <2>5, PointsEmpty, OrderNames DEF OrderInv, Ordered
<1>5. CASE at \in {"cron", "closing"}
  <2>1. todo # <<>> /\ x = Head(todo) /\ js = jobs /\ todo' = Tail(todo)
    BY <1>1, <1>5 DEF Writing
  <2>2. jobs' = jobs /\ pending = <<>> /\ pending' = <<>>
    BY Zenon, <1>1, <1>5, DirectDrainsNothing
  <2>3. /\ Direct = Point1(x) \cup Direct' /\ Rising(todo') /\ Before(Point1(x), Direct')
    BY Zenon, <1>2, <2>1, PointsTail, OrderNames
  <2>4. /\ Ordered({}, Queued, Point1(x) \cup Direct', Logged, gone, points, FALSE)
        /\ Open => Queued = {}
    <3>1. Open => jobs = <<>>
      BY <1>5 DEF Open, BaseInv, Stages
    <3> QED  BY Zenon, <2>2, <2>3, <3>1, PointsEmpty, OrderNames DEF OrderInv, Ordered
  <2>5. /\ Before(PointsIn(js), PointsIn(pending)) /\ InPlace(Written(x))
    BY Zenon, <1>w, <2>1, <2>2, <2>4, PointsEmpty, PlaceFound DEF Ordered, Before
  <2>6. Queued' = Queued /\ PointsIn(pending') = {} /\ PointsIn(js) = Queued
        /\ PointsIn(pending) = {}
    BY Zenon, <2>1, <2>2, PointsEmpty, OrderNames
  <2>7. /\ Rising(jobs') /\ Rising(pending') /\ MarkersInOrder'
        /\ Ordered({}, Queued, Direct', Logged', gone', points, FALSE)
    <3>1. /\ Ordered({}, Queued, Direct', Logged \cup Point1(x), gone, points, FALSE)
          /\ Ordered({}, Queued, Direct', Logged, gone \cup Point1(x), points, FALSE)
      BY Zenon, <1>p, <2>3, <2>4, DirectOrdered
    <3>2. gone \cup {} = gone
      OBVIOUS
    <3> QED  BY Zenon, <1>1, <1>2, <2>1, <2>5, <2>6, <3>1, <3>2, WritePoints
  <2>8. Open => Before(Logged', Queued')
    BY Zenon, <2>4, <2>6 DEF Before
  <2> QED  BY Zenon, <1>2, <2>3, <2>6, <2>7, <2>8 DEF OrderInv, Ordered
<1>6. CASE at = "unloaded"
  <2>1. /\ jobs # <<>> /\ x = Head(jobs) /\ js = Tail(jobs) /\ todo' = todo /\ todo = <<>> /\ ~Open
    BY <1>1, <1>6 DEF Writing, BaseInv, Stages, Open
  <2>2. pending = <<>>
    BY <1>6, <2>1 DEF LeftInv
  <2>3. /\ Queued = Point1(x) \cup PointsIn(js) /\ Rising(js) /\ Before(Point1(x), PointsIn(js))
    BY Zenon, <1>2, <2>1, PointsTail, OrderNames
  <2>4. /\ Ordered({}, Point1(x) \cup PointsIn(js), {}, Logged, gone, points, FALSE)
        /\ Before(PointsIn(js), PointsIn(pending))
    BY Zenon, <2>1, <2>2, <2>3, PointsEmpty, OrderNames DEF OrderInv, Ordered, Before
  <2>5. InPlace(Written(x))
    <3> SUFFICES ASSUME NEW i \in DOMAIN log, Is(i, "marker"), x.kind = "marker"
                 PROVE  log[i].item.point < x.point \/ (Says(i, {"unloading"}) /\ log[i].gen = gen)
      BY Zenon, <1>w DEF InPlace
    <3>1. x.point \in Queued
      BY Zenon, <2>3 DEF Point1
    <3> QED  BY Zenon, <3>1 DEF Overtaken
  <2>6. /\ Rising(jobs') /\ Rising(pending') /\ MarkersInOrder'
        /\ PointsIn(pending') = {}
        /\ Ordered({}, Queued', {}, Logged', gone', points, FALSE)
    <3>1. /\ Ordered({}, PointsIn(js), {}, Logged \cup Point1(x), gone, points, FALSE)
          /\ Ordered({}, PointsIn(js), {}, Logged, gone \cup Point1(x), points, FALSE)
      BY Zenon, <1>p, <2>3, <2>4, LeftOrdered
    <3>2. PointsIn(pending) = {} /\ gone \cup {} = gone /\ PointsIn(js) \cup {} = PointsIn(js)
      BY <2>2, PointsEmpty
    <3> QED  BY Zenon, <1>1, <1>2, <2>3, <2>4, <2>5, <3>1, <3>2, WritePoints
  <2> QED  BY Zenon, <1>2, <2>1, <2>6, PointsEmpty, OrderNames DEF OrderInv, Ordered
<1> QED  BY Zenon, <1>1, <1>3, <1>4, <1>5, <1>6 DEF Writing

\* What a flush leaves in the log is no marker.
LEMMA WipeOrder ==
  ASSUME BaseInv, OrderInv, Point \/ FlushStarted
  PROVE  Logged' = Logged /\ MarkersInOrder'
<1>1. TypeInv /\ role \in Roles /\ log \in Seq(Recs) /\ MarkersInOrder
  BY Zenon, TypesOf DEF BaseInv, OrderInv
<1>2. Written(Wipe) \in Recs /\ Point1(Written(Wipe).item) = {}
  <2>1. Wipe \in Items
    BY <1>1 DEF Wipe, Items
  <2>2. Point1(Written(Wipe).item) = {}
    BY DEF Written, Wipe, Point1
  <2> QED  BY Zenon, <1>1, <2>1, <2>2, RecType
<1>3. CASE log' = log
  BY Zenon, <1>1, <1>3 DEF Logged, MarkersInOrder, Is, Says
<1>4. CASE log' = Append(log, Written(Wipe))
  <2>1. InPlace(Written(Wipe))
    BY Zenon, <1>2, PlaceFound DEF Before
  <2> QED  BY Zenon, <1>1, <1>2, <1>4, <2>1, LogPoints
<1> QED  BY Zenon, <1>3, <1>4, PointLog

LEMMA PointOrder ==
  ASSUME BaseInv, OrderInv, Point
  PROVE  OrderInv'
<1>1. /\ Recorded(PointActions) /\ at \in {"idle", "unit"}
      /\ UNCHANGED <<at, role, resolved, gen, jobs, todo, backlog, due, time, events, missed, gone>>
  BY Zenon, PointRecords
<1>2. points \in Nat /\ pending \in Seq(Marker) /\ todo = <<>>
  BY <1>1, TypesOf DEF BaseInv, Stages
<1>3. PICK a \in Actions : /\ pending' = Append(pending, AMarker(a, points + 1))
                           /\ points' = points + 1
  BY Zenon, <1>1 DEF Recorded, PointActions, Actions
<1>4. AMarker(a, points + 1) \in Marker /\ Point1(AMarker(a, points + 1)) = {points + 1}
  BY <1>2 DEF AMarker, Marker, Point1
<1>5. Before(PointsIn(pending), {points + 1})
  <2>1. PointsIn(pending) \subseteq 0..points
    BY Zenon DEF OrderInv, Ordered
  <2> QED  BY <1>2, <2>1 DEF Before
<1>6. PointsIn(pending') = PointsIn(pending) \cup {points + 1} /\ Rising(pending')
  <2>1. /\ PointsIn(pending') = PointsIn(pending) \cup Point1(AMarker(a, points + 1))
        /\ Rising(pending) /\ Before(PointsIn(pending), Point1(AMarker(a, points + 1)))
             => Rising(pending')
    BY ZenonT(40), <1>2, <1>3, <1>4, PointsAppended
  <2> QED  BY Zenon, <1>4, <1>5, <2>1 DEF OrderInv
<1>7. Queued' = Queued /\ Direct' = Direct /\ Direct = {} /\ (Open <=> Open') /\ Open
  <2>1. Open /\ Open'
    BY <1>1 DEF Open
  <2> QED  BY Zenon, <1>1, <1>2, <2>1, OrderNames, PointsEmpty
<1>8. Ordered(PointsIn(pending) \cup {points + 1}, Queued, Direct, Logged, gone, points + 1, TRUE)
  <2>1. Ordered(PointsIn(pending), Queued, Direct, Logged, gone, points, TRUE)
    BY Zenon, <1>7 DEF OrderInv, Ordered
  <2> QED  BY Zenon, <1>2, <1>7, <2>1, PointOrdered
<1>9. Rising(jobs') /\ Rising(todo') /\ gone' = gone
  BY Zenon, <1>1 DEF OrderInv
<1> QED  BY Zenon, <1>3, <1>6, <1>7, <1>8, <1>9, WipeOrder DEF OrderInv, Ordered

LEMMA ReplayOrder ==
  ASSUME BaseInv, OrderInv, FlushStarted, role # "master"
  PROVE  OrderInv'
<1>1. Queued' = Queued /\ Direct' = Direct /\ Open' = Open
  BY Zenon, ReplayFrame, OrderNames DEF Open
<1> QED  BY Zenon, <1>1, ReplayFrame, WipeOrder DEF OrderInv, Ordered

LEMMA TakeOrder ==
  ASSUME BaseInv, OrderInv, role = "master", Cron \/ Close
  PROVE  OrderInv'
<1>1. /\ points \in Nat /\ pending \in Seq(Marker \cup Tick) /\ Rising(pending)
      /\ todo = <<>> /\ Open
  <2>1. todo = <<>> /\ Open
    BY Zenon, TakeFrame DEF BaseInv, Stages, Open
  <2> QED  BY <2>1, TypesOf DEF BaseInv, OrderInv
<1>2. /\ jobs' = jobs /\ log' = log /\ pending' = <<>> /\ gone' = gone
  BY Zenon, TakeFrame
<1>3. /\ Queued' = Queued /\ Logged' = Logged /\ MarkersInOrder' /\ PointsIn(pending') = {}
      /\ Rising(pending') /\ Rising(jobs') /\ Direct = {}
  BY Zenon, <1>1, <1>2, OrderNames, PointsEmpty DEF OrderInv, Logged, MarkersInOrder, Is, Says
<1>4. Ordered(PointsIn(pending), Queued, {}, Logged, gone, points, TRUE)
  BY Zenon, <1>1, <1>3 DEF OrderInv, Ordered
<1>5. /\ Ordered({}, Queued, PointsIn(pending), Logged, gone, points, TRUE)
      /\ Ordered({}, Queued, PointsIn(pending) \cup {points + 1}, Logged, gone, points + 1, FALSE)
  BY Zenon, <1>1, <1>4, PointOrdered
<1>6. CASE Cron /\ todo' = Append(pending, Checkpoint) /\ points' = points
  <2>1. Checkpoint \in Marker \cup Tick /\ Point1(Checkpoint) = {}
    BY DEF Checkpoint, Tick, Point1
  <2>2. Direct' = PointsIn(pending) /\ Rising(todo')
    <3>1. Before(PointsIn(pending), Point1(Checkpoint))
      BY Zenon, <2>1 DEF Before
    <3>2. /\ PointsIn(todo') = PointsIn(pending) \cup Point1(Checkpoint)
          /\ Rising(todo')
      <4>1. todo' = Append(pending, Checkpoint)
        BY Zenon, <1>6
      <4>2. Checkpoint \in Marker \cup Tick /\ pending \in Seq(Marker \cup Tick)
        BY Zenon, <1>1, <2>1
      <4>3. /\ PointsIn(Append(pending, Checkpoint)) = PointsIn(pending) \cup Point1(Checkpoint)
            /\ Rising(pending) /\ Before(PointsIn(pending), Point1(Checkpoint))
                 => Rising(Append(pending, Checkpoint))
        BY Zenon, <4>2, PointsAppended
      <4> QED  BY Zenon, <1>1, <3>1, <4>1, <4>3
    <3> QED  BY Zenon, <2>1, <3>2, OrderNames
  <2> QED  BY Zenon, <1>2, <1>3, <1>5, <1>6, <2>2 DEF OrderInv, Ordered
<1>7. CASE /\ Close /\ todo' = Append(pending, AMarker("unloading", points + 1))
           /\ points' = points + 1
  <2> DEFINE x == AMarker("unloading", points + 1)
  <2>1. x \in Marker \cup Tick /\ Point1(x) = {points + 1}
    BY <1>1 DEF AMarker, Marker, Actions, Point1
  <2>2. Direct' = PointsIn(pending) \cup {points + 1} /\ Rising(todo')
    <3>1. Before(PointsIn(pending), Point1(x))
      <4>1. PointsIn(pending) \subseteq 0..points
        BY Zenon, <1>4 DEF Ordered
      <4> QED  BY <1>1, <2>1, <4>1 DEF Before
    <3>2. /\ PointsIn(todo') = PointsIn(pending) \cup Point1(x)
          /\ Rising(todo')
      <4>1. todo' = Append(pending, x)
        BY Zenon, <1>7
      <4>2. x \in Marker \cup Tick /\ pending \in Seq(Marker \cup Tick)
        BY Zenon, <1>1, <2>1
      <4> HIDE DEF x
      <4>3. /\ PointsIn(Append(pending, x)) = PointsIn(pending) \cup Point1(x)
            /\ Rising(pending) /\ Before(PointsIn(pending), Point1(x))
                 => Rising(Append(pending, x))
        BY Zenon, <4>2, PointsAppended
      <4> QED  BY Zenon, <1>1, <3>1, <4>1, <4>3
    <3> QED  BY Zenon, <2>1, <3>2, OrderNames
  <2>3. ~Open'
    <3>1. Close => at' = "closing"
      BY Zenon DEF Close
    <3> QED  BY <1>7, <3>1 DEF Open
  <2> QED  BY Zenon, <1>2, <1>3, <1>5, <1>7, <2>2, <2>3 DEF OrderInv, Ordered
<1> QED  BY Zenon, <1>6, <1>7, TakeFrame

LEMMA LoadOrder ==
  ASSUME BaseInv, OrderInv, Load
  PROVE  OrderInv'
<1>1. points \in Nat /\ TypeInv
  BY TypesOf DEF BaseInv
<1>2. /\ jobs' = jobs /\ log' = log /\ todo' = todo /\ jobs = <<>> /\ todo = <<>>
      /\ gone' = gone \cup PointsIn(pending)
  BY Zenon, <1>1, LoadFrame, PendingPoints
<1>3. /\ Queued' = {} /\ Direct' = {} /\ Queued = {} /\ Direct = {} /\ Logged' = Logged
      /\ MarkersInOrder' /\ Rising(jobs') /\ Rising(todo')
  BY Zenon, <1>2, OrderNames, PointsEmpty DEF OrderInv, Logged, MarkersInOrder, Is, Says
<1>4. Ordered(PointsIn(pending), {}, {}, Logged, gone, points, FALSE)
  BY Zenon, <1>3 DEF OrderInv, Ordered
<1>5. /\ Ordered({points + 1}, {}, {}, Logged, gone', points + 1, TRUE)
      /\ Ordered({points + 1, points + 2}, {}, {}, Logged, gone', points + 2, TRUE)
  BY Zenon, <1>1, <1>2, <1>4, LoadOrdered
<1>6. /\ Rising(pending')
      /\ \/ PointsIn(pending') = {points + 1} /\ points' = points + 1
         \/ PointsIn(pending') = {points + 1, points + 2} /\ points' = points + 2
  <2>1. CASE points' = points + 1 /\ pending' = <<AMarker("loaded", points + 1)>>
    BY <2>1 DEF AMarker, PointsIn, Rising
  <2>2. CASE /\ points' = points + 2
             /\ pending' = <<AMarker("loaded", points + 1), AMarker("disabled", points + 2)>>
    BY <1>1, <2>2 DEF AMarker, PointsIn, Rising
  <2> QED  BY Zenon, <2>1, <2>2, LoadFrame
<1> QED  BY Zenon, <1>3, <1>5, <1>6 DEF OrderInv, Ordered

LEMMA QuietOrder ==
  ASSUME BaseInv, OrderInv, Quiet
  PROVE  OrderInv'
<1>1. Open' => Open
  BY QuietMoves DEF Moves, Open
<1>2. UNCHANGED content
  BY Zenon, QuietMoves
<1>3. Queued' = Queued /\ Direct' = Direct /\ Logged' = Logged /\ MarkersInOrder'
  BY Zenon, <1>2, OrderNames DEF content, OrderInv, Logged, MarkersInOrder, Is, Says
<1> QED  BY Zenon, <1>1, <1>2, <1>3 DEF content, OrderInv, Ordered

LEMMA OrderNext == BaseInv /\ LeftInv /\ OrderInv /\ Overtaken /\ [Next]_vars => OrderInv'
<1> SUFFICES ASSUME BaseInv, LeftInv, OrderInv, Overtaken, [Next]_vars PROVE OrderInv'
  OBVIOUS
<1> QED  BY Zenon, NextCases, QuietOrder, NotifyOrder, WriteOrder, PointOrder, ReplayOrder,
            TakeOrder, LoadOrder DEF Point

LEMMA OvertakenKept ==
  ASSUME Overtaken, log' = log, gen' = gen, Queued' \subseteq Queued
  PROVE  Overtaken'
BY Zenon DEF Overtaken, Is, Says

LEMMA OvertakenGrows ==
  ASSUME TypeInv, Overtaken, Queued' \subseteq Queued, NEW x \in Items, Adds(x),
         x.kind = "marker" =>
           x.action = "unloading" \/ \A q \in Queued' : x.point < q
  PROVE  Overtaken'
<1>1. log' = Append(log, Written(x)) /\ gen' = gen
  BY Zenon DEF Adds
<1>2. /\ DOMAIN log' = DOMAIN log \cup {Len(log) + 1}
      /\ \A i \in DOMAIN log : log'[i] = log[i]
      /\ log'[Len(log) + 1].item = x /\ log'[Len(log) + 1].gen = gen
  BY Zenon, <1>1, Grown
<1> SUFFICES ASSUME NEW i \in DOMAIN log', NEW q \in Queued', log'[i].item.kind = "marker"
             PROVE  \/ log'[i].item.point < q
                    \/ log'[i].item.action \in {"unloading"} /\ log'[i].gen = gen'
  BY Zenon DEF Overtaken, Is, Says
<1>3. CASE i \in DOMAIN log
  BY Zenon, <1>1, <1>2, <1>3 DEF Overtaken, Is, Says
<1>4. CASE i = Len(log) + 1
  BY Zenon, <1>1, <1>2, <1>4
<1> QED  BY Zenon, <1>2, <1>3, <1>4

LEMMA OvertakenInit == Init => Overtaken
BY DEF Init, Overtaken

LEMMA OvertakenNext ==
  BaseInv /\ LeftInv /\ OrderInv /\ OrderInv' /\ Overtaken /\ [Next]_vars => Overtaken'
<1> SUFFICES ASSUME BaseInv, LeftInv, OrderInv, OrderInv', Overtaken, [Next]_vars
             PROVE  Overtaken'
  OBVIOUS
<1>1. CASE Open'
  <2>1. Before(Logged', Queued')
    BY Zenon, <1>1 DEF OrderInv, Ordered
  <2> SUFFICES ASSUME NEW i \in DOMAIN log', NEW q \in Queued', log'[i].item.kind = "marker"
               PROVE  log'[i].item.point < q
    BY Zenon DEF Overtaken, Is
  <2>2. log'[i].item.point \in Logged'
    BY Zenon DEF Logged, Is
  <2> QED  BY Zenon, <2>1, <2>2 DEF Before
<1>2. CASE Quiet \/ (role = "master" /\ (Cron \/ Close))
  <2>1. log' = log /\ gen' = gen /\ jobs' = jobs
    BY Zenon, <1>2, QuietMoves, TakeFrame DEF content
  <2> QED  BY Zenon, <2>1, OrderNames, OvertakenKept
<1>3. CASE Notify \/ Point \/ (FlushStarted /\ role # "master") \/ Load
  <2>1. at' \in {"idle", "unit"}
    BY Zenon, <1>3, NotifyFrame, MarkFrame, LoadFrame
  <2> QED  BY <1>1, <2>1 DEF Open
<1>4. CASE (RunJob \/ WorkerWrite \/ WriteDirect) /\ ~Open'
  <2>1. PICK x \in Marker \cup Event \cup Tick, js \in Seq(Jobs) : Writing(x, js) /\ Write(x, js) /\ Kept
    BY Zenon, <1>4, WriteCases
  <2>2. at' = at /\ gen' = gen /\ TypeInv /\ jobs \in Seq(Jobs)
    BY Zenon, <2>1, TypesOf DEF Kept, BaseInv
  <2>3. /\ x \in Items /\ Loss \in Items
        /\ log' = log \/ Adds(x) \/ Adds(Loss)
    BY Zenon, <2>1, WriteLog
  <2>4. Loss.kind # "marker"
    BY DEF Loss
  <2>5. CASE at = "closing"
    <3>1. jobs' = jobs /\ x = Head(todo) /\ todo # <<>>
      <4>1. x = Head(todo) /\ todo # <<>>
        BY <2>1, <2>5 DEF Writing
      <4> QED  BY Zenon, <2>1, <2>5, <4>1, DirectDrainsNothing
    <3>2. CASE jobs = <<>>
      BY Zenon, <3>1, <3>2, OrderNames, PointsEmpty DEF Overtaken
    <3>3. CASE jobs # <<>>
      <4>1. todo = <<AMarker("unloading", points)>>
        BY <2>5, <3>1, <3>3 DEF LeftInv
      <4>2. x.action = "unloading"
        BY <3>1, <4>1 DEF AMarker
      <4> QED  BY Zenon, <2>2, <2>3, <2>4, <3>1, <4>2, OrderNames, OvertakenKept, OvertakenGrows
    <3> QED  BY Zenon, <3>2, <3>3
  <2>6. CASE at = "unloaded"
    <3>1. jobs # <<>> /\ x = Head(jobs) /\ js = Tail(jobs)
      BY <2>1, <2>6 DEF Writing
    <3>2. jobs' = js
      BY Zenon, <2>1, <2>6, LeftDrainsNothing
    <3>3. Queued = Point1(x) \cup Queued' /\ Before(Point1(x), Queued')
      BY Zenon, <2>2, <3>1, <3>2, PointsTail, OrderNames DEF OrderInv
    <3>4. x.kind = "marker" => \A q \in Queued' : x.point < q
      BY Zenon, <3>3 DEF Before, Point1
    <3> QED  BY Zenon, <2>2, <2>3, <2>4, <3>3, <3>4, OvertakenKept, OvertakenGrows
  <2>7. at \in {"closing", "unloaded"}
    BY <1>4, <2>1, <2>2 DEF Writing, Open
  <2> QED  BY Zenon, <2>5, <2>6, <2>7
<1> QED  BY Zenon, <1>1, <1>2, <1>3, <1>4, NextCases DEF Point

LEMMA OrderGives == BaseInv /\ OrderInv => MarkersInOrder /\ MarkersAccounted
<1> SUFFICES ASSUME BaseInv, OrderInv PROVE MarkersInOrder /\ MarkersAccounted
  OBVIOUS
<1>1. /\ PointsIn(pending) \subseteq Int /\ Queued \subseteq Int /\ Direct \subseteq Int
      /\ Logged \subseteq Int
  BY DEF OrderInv, Ordered
<1>2. Queued \cap PointsIn(pending) = {} /\ Queued \cap Direct = {}
  BY <1>1 DEF OrderInv, Ordered, Before
<1>3. Logged \cap PointsIn(pending) = {} /\ Logged \cap Direct = {}
  BY <1>1 DEF OrderInv, Ordered, Before
<1>4. Points(pending) = PointsIn(pending)
  BY Zenon, PendingPoints DEF BaseInv
<1> QED  BY Zenon, <1>2, <1>3, <1>4 DEF OrderInv, Ordered, MarkersAccounted

\* Markers reach the control stream in the order of the lifecycle points, each once, on
\* whichever of the three paths, refused writes and unregistered jobs included; only the
\* closing marker overtakes, a job that its own generation left behind.
THEOREM OrderCorrect == Spec => []MarkersInOrder
<1>1. BaseInv /\ OrderInv => MarkersInOrder
  BY OrderGives
<1> QED  BY <1>1, BaseInit, BaseNext, LeftInit, LeftNext, OrderInit, OrderNext, OvertakenInit,
            OvertakenNext, PTL DEF Spec

\* Every marker recorded is in exactly one place, or counted as dropped or forgotten.
THEOREM AccountCorrect == Spec => []MarkersAccounted
<1>1. BaseInv /\ OrderInv => MarkersAccounted
  BY OrderGives
<1> QED  BY <1>1, BaseInit, BaseNext, LeftInit, LeftNext, OrderInit, OrderNext, OvertakenInit,
            OvertakenNext, PTL DEF Spec

-----------------------------------------------------------------------------
(* The end of a generation. *)

\* The `unloading` marker is the last thing deinit writes, and the latest point; what a
\* job of that generation writes after it is an older marker.
NoneClosed == \A i \in DOMAIN log : ~(Says(i, {"unloading"}) /\ log[i].gen = gen)
Older(x, i) == "async" \in Ops /\ x.kind = "marker" /\ x.point < log[i].item.point
ClosedApart ==
  \A i, j \in DOMAIN log :
    (i < j /\ Says(i, {"unloading"}) /\ ~Is(j, "flush") /\ log[j].gen = log[i].gen) =>
      Older(log[j].item, i)
ClosedAbove ==
  \A i \in DOMAIN log :
    (Says(i, {"unloading"}) /\ log[i].gen = gen) => \A q \in Queued : q < log[i].item.point
ClosingInv ==
  /\ \A m \in Held(pending) \cup Held(jobs) : ~IsMarker(m, {"unloading"})
  /\ \A i \in DOMAIN todo :
       IsMarker(todo[i], {"unloading"}) => at = "closing" /\ i = Len(todo)
  /\ NoneClosed \/ (at \in {"closing", "unloaded", "crashed"} /\ todo = <<>>)
  /\ ClosedApart /\ ClosedAbove

\* What a generation writes, before its closing marker or, as an older marker, after it.
LEMMA ClosedGrows ==
  ASSUME TypeInv, ClosedApart, NEW x \in Items, Adds(x),
         \A i \in DOMAIN log : (Says(i, {"unloading"}) /\ log[i].gen = gen) => Older(x, i)
  PROVE  ClosedApart' /\ (NoneClosed /\ ~IsMarker(x, {"unloading"}) => NoneClosed')
<1>1. log' = Append(log, Written(x)) /\ gen' = gen
  BY Zenon DEF Adds
<1>2. /\ DOMAIN log' = DOMAIN log \cup {Len(log) + 1} /\ Len(log) \in Nat
      /\ \A i \in DOMAIN log : i \in Nat /\ i < Len(log) + 1 /\ log'[i] = log[i]
      /\ log'[Len(log) + 1].item = x /\ log'[Len(log) + 1].gen = gen
  BY Zenon, <1>1, Grown
<1>3. NoneClosed /\ ~IsMarker(x, {"unloading"}) => NoneClosed'
  BY Zenon, <1>1, <1>2 DEF NoneClosed, Says, Is, IsMarker
<1>4. ClosedApart'
  <2> SUFFICES ASSUME NEW i \in DOMAIN log', NEW j \in DOMAIN log', i < j,
                      log'[i].item.kind = "marker", log'[i].item.action \in {"unloading"},
                      ~(log'[j].item.kind = "flush"), log'[j].gen = log'[i].gen
               PROVE  /\ "async" \in Ops /\ log'[j].item.kind = "marker"
                      /\ log'[j].item.point < log'[i].item.point
    BY Zenon DEF ClosedApart, Older, Says, Is
  <2>1. i \in DOMAIN log
    BY <1>2
  <2>2. CASE j \in DOMAIN log
    BY Zenon, <1>2, <2>1, <2>2 DEF ClosedApart, Older, Says, Is
  <2>3. CASE j = Len(log) + 1
    BY Zenon, <1>2, <2>1, <2>3 DEF Older, Says, Is
  <2> QED  BY Zenon, <1>2, <2>2, <2>3
<1> QED  BY Zenon, <1>3, <1>4

LEMMA OpenGrows ==
  ASSUME TypeInv, NoneClosed, ClosedApart, NEW x \in Items, Adds(x)
  PROVE  ClosedApart' /\ (~IsMarker(x, {"unloading"}) => NoneClosed')
BY Zenon, ClosedGrows DEF NoneClosed

LEMMA ClosedKept ==
  ASSUME log' = log, gen' = gen
  PROVE  /\ NoneClosed' = NoneClosed /\ ClosedApart' = ClosedApart
         /\ ClosedAbove /\ Queued' \subseteq Queued => ClosedAbove'
BY Zenon DEF NoneClosed, ClosedApart, ClosedAbove, Older, Says, Is

LEMMA NoneAbove == NoneClosed' => ClosedAbove'
BY Zenon DEF NoneClosed, ClosedAbove

LEMMA ClosingInit == Init => ClosingInv
<1> SUFFICES ASSUME Init PROVE ClosingInv
  OBVIOUS
<1>1. Held(pending) = {AMarker("loaded", 0)} /\ Held(jobs) = {} /\ DOMAIN todo = {} /\ DOMAIN log = {}
  BY DEF Init, Held
<1>2. ~IsMarker(AMarker("loaded", 0), {"unloading"})
  BY DEF IsMarker, AMarker
<1> QED  BY Zenon, <1>1, <1>2 DEF ClosingInv, NoneClosed, ClosedApart, ClosedAbove

LEMMA ClosingNext ==
  BaseInv /\ LeftInv /\ OrderInv /\ GensInv /\ ClosingInv /\ [Next]_vars => ClosingInv'
<1> SUFFICES ASSUME BaseInv, LeftInv, OrderInv, GensInv, ClosingInv, [Next]_vars
             PROVE  ClosingInv'
  OBVIOUS
<1> DEFINE Closes(m) == IsMarker(m, {"unloading"})
           Ends == \A i \in DOMAIN todo : Closes(todo[i]) => at = "closing" /\ i = Len(todo)
<1>1. /\ \A m \in Held(pending) : ~Closes(m)
      /\ \A m \in Held(jobs) : ~Closes(m)
      /\ Ends /\ ClosedApart /\ ClosedAbove
      /\ NoneClosed \/ (at \in {"closing", "unloaded", "crashed"} /\ todo = <<>>)
  BY Zenon DEF ClosingInv
<1>2. /\ TypeInv /\ jobs \in Seq(Jobs) /\ pending \in Seq(Marker) /\ log \in Seq(Recs)
      /\ todo \in Seq(Marker \cup Tick) /\ points \in Nat /\ gen \in Nat
  BY Zenon, TypesOf DEF BaseInv
<1>3. at \in {"idle", "unit"} => NoneClosed /\ todo = <<>>
  BY <1>1 DEF BaseInv, Stages
<1>q. CASE Quiet
  <2>1. /\ Held(pending') = Held(pending) /\ Held(jobs') = Held(jobs) /\ todo' = todo
        /\ log' = log /\ gen' = gen
    BY Zenon, <1>q, QuietMoves DEF content
  <2>2. Moves
    BY Zenon, <1>q, QuietMoves
  <2>3. \/ at' = at
        \/ /\ todo = <<>>
           /\ at \in {"closing", "unloaded", "crashed"} => at' \in {"closing", "unloaded", "crashed"}
    BY <2>2 DEF Moves, BaseInv, Stages
  <2>4. Ends'
    <3>1. todo = <<>> => DOMAIN todo = {}
      OBVIOUS
    <3> QED  BY Zenon, <1>1, <2>1, <2>3, <3>1
  <2>5. NoneClosed' \/ (at' \in {"closing", "unloaded", "crashed"} /\ todo' = <<>>)
    BY Zenon, <1>1, <2>1, <2>3, ClosedKept
  <2>6. Queued' = Queued
    BY Zenon, <1>q, QuietMoves DEF content, Queued
  <2> QED  BY Zenon, <1>1, <2>1, <2>4, <2>5, <2>6, ClosedKept DEF ClosingInv
<1>n. CASE Notify
  <2>1. at \in {"idle", "unit"} /\ gen' = gen /\ todo' = todo
    BY Zenon, <1>n, NotifyFrame
  <2>2. /\ Held(pending') \subseteq Held(pending)
        /\ \A m \in Held(jobs') : ~Closes(m)
    <3>1. PICK new \in Seq(Event) : Step0(jobs, new)
      BY Zenon, <1>n, NotifyFrame
    <3>2. \A e \in Event : ~Closes(e)
      BY DEF Event, IsMarker
    <3>3. Held(new) \subseteq Event
      BY Zenon, HeldIn
    <3> QED  BY Zenon, <1>1, <1>2, <3>1, <3>2, <3>3, Step0Held
  <2>3. NoneClosed' /\ ClosedApart'
    <3>1. Loss \in Items /\ ~Closes(Loss)
      BY DEF Loss, Items, IsMarker
    <3>2. log' = log \/ Adds(Loss)
      BY Zenon, <1>n, NotifyFrame
    <3> QED  BY Zenon, <1>1, <1>2, <1>3, <2>1, <3>1, <3>2, ClosedKept, OpenGrows
  <2>4. Ends'
    <3>1. DOMAIN todo' = {}
      BY <1>3, <2>1
    <3> QED  BY Zenon, <3>1
  <2> QED  BY Zenon, <1>1, <2>2, <2>3, <2>4, NoneAbove DEF ClosingInv
<1>w. CASE RunJob \/ WorkerWrite \/ WriteDirect
  <2>1. PICK x \in Marker \cup Event \cup Tick, js \in Seq(Jobs) : Writing(x, js) /\ Write(x, js) /\ Kept
    BY Zenon, <1>w, WriteCases
  <2>2. NoneClosed \/ at = "unloaded"
    BY <1>1, <2>1 DEF Writing, BaseInv, Stages
  <2>3. Held(js) \subseteq Held(jobs)
    BY Zenon, <1>2, <2>1, HeldTail DEF Writing
  <2>4. \A m \in Held(pending') \cup Held(jobs') : ~Closes(m)
    BY Zenon, <1>1, <1>2, <2>1, <2>3, WriteHeld
  <2>5. at' = at /\ gen' = gen
    BY Zenon, <2>1 DEF Kept
  <2>6. Ends' /\ (Closes(x) => at = "closing" /\ todo' = <<>>)
    <3>1. CASE at \in {"jobs", "unloaded"}
      <4>1. todo' = todo /\ x = Head(jobs) /\ jobs # <<>>
        BY <2>1, <3>1 DEF Writing
      <4>2. x \in Held(jobs)
        BY Zenon, <1>2, <4>1, HeldTail
      <4> QED  BY Zenon, <1>1, <2>5, <4>1, <4>2
    <3>2. CASE at \in {"worker", "stopping"}
      <4>1. todo' = todo /\ x = Head(backlog) /\ backlog # <<>>
        BY <2>1, <3>2 DEF Writing
      <4>2. x \in Event
        BY Zenon, <4>1, Headed, TypesOf DEF BaseInv
      <4>3. ~Closes(x)
        BY <4>2 DEF Event, IsMarker
      <4> QED  BY Zenon, <1>1, <2>5, <4>1, <4>3
    <3>3. CASE at \in {"cron", "closing"}
      <4>1. todo' = Tail(todo) /\ x = todo[1] /\ todo # <<>>
        BY Zenon, <1>2, <2>1, <3>3, Headed DEF Writing
      <4> DEFINE S == Marker \cup Tick
      <4> HIDE DEF S
      <4>2. /\ DOMAIN todo = 1..Len(todo) /\ Len(todo) \in Nat /\ DOMAIN todo' = 1..(Len(todo) - 1)
            /\ Len(todo') = Len(todo) - 1 /\ Len(todo) > 0
            /\ \A i \in 1..(Len(todo) - 1) : todo'[i] = todo[i + 1]
            /\ Len(todo') = 0 => todo' = <<>>
        <5>1. todo \in Seq(S)
          BY <1>2 DEF S
        <5> QED  BY <4>1, <5>1
      <4>3. Ends'
        <5> SUFFICES ASSUME NEW i \in DOMAIN todo', Closes(todo'[i])
                     PROVE  at' = "closing" /\ i = Len(todo')
          BY Zenon
        <5>1. i + 1 \in DOMAIN todo /\ todo'[i] = todo[i + 1] /\ i \in Nat
          BY <4>2
        <5>2. at = "closing" /\ i + 1 = Len(todo)
          BY Zenon, <1>1, <5>1
        <5> QED  BY <2>5, <4>2, <5>1, <5>2
      <4>4. ASSUME Closes(x) PROVE at = "closing" /\ todo' = <<>>
        <5>1. 1 \in DOMAIN todo
          BY <4>2
        <5>2. at = "closing" /\ 1 = Len(todo)
          BY Zenon, <1>1, <4>1, <4>4, <5>1
        <5> QED  BY <4>2, <5>2
      <4> QED  BY Zenon, <4>3, <4>4
    <3> QED  BY Zenon, <2>1, <3>1, <3>2, <3>3 DEF Writing
  <2>7. /\ x \in Items /\ Loss \in Items /\ ~Closes(Loss)
        /\ log' = log \/ Adds(x) \/ (Adds(Loss) /\ x.kind = "entry")
    <3>1. ~Closes(Loss)
      BY DEF IsMarker, Loss
    <3> QED  BY Zenon, <2>1, <3>1, WriteLog
  <2>8. CASE NoneClosed
    <3>1. ClosedApart' /\ (~Closes(x) => NoneClosed')
      BY Zenon, <1>1, <1>2, <2>5, <2>7, <2>8, ClosedKept, OpenGrows
    <3>2. ClosedAbove'
      <4>1. CASE ~Closes(x) \/ log' = log \/ Adds(Loss)
        BY Zenon, <1>1, <1>2, <2>5, <2>7, <2>8, <3>1, <4>1, ClosedKept, OpenGrows, NoneAbove
      <4>2. CASE Closes(x) /\ Adds(x)
        <5>1. jobs' = jobs /\ x = Head(todo) /\ todo # <<>>
          <6>1. at = "closing"
            BY Zenon, <2>6, <4>2
          <6>2. x = Head(todo) /\ todo # <<>>
            BY <2>1, <6>1 DEF Writing
          <6> QED  BY Zenon, <2>1, <6>1, <6>2, DirectDrainsNothing
        <5>2. x.point \in Direct
          <6>1. Direct = Point1(x) \cup PointsIn(Tail(todo))
            BY Zenon, <1>2, <5>1, PointsTail, OrderNames
          <6> QED  BY Zenon, <4>2, <6>1 DEF Point1, IsMarker
        <5>3. \A q \in Queued' : q < x.point
          BY Zenon, <5>1, <5>2, OrderNames DEF OrderInv, Ordered, Before
        <5>4. log' = Append(log, Written(x))
          BY Zenon, <4>2 DEF Adds
        <5>5. /\ DOMAIN log' = DOMAIN log \cup {Len(log) + 1}
              /\ \A i \in DOMAIN log : log'[i] = log[i]
              /\ log'[Len(log) + 1].item = x
          BY Zenon, <1>2, <2>7, <5>4, Grown
        <5> QED  BY Zenon, <2>5, <2>8, <5>3, <5>5 DEF ClosedAbove, NoneClosed, Says, Is
      <4> QED  BY Zenon, <2>7, <4>1, <4>2
    <3> QED  BY Zenon, <2>4, <2>5, <2>6, <3>1, <3>2 DEF ClosingInv
  <2>9. CASE at = "unloaded"
    <3>1. jobs # <<>> /\ x = Head(jobs) /\ js = Tail(jobs) /\ todo = <<>> /\ todo' = todo
      BY <2>1, <2>9 DEF Writing, BaseInv, Stages
    <3>2. jobs' = js
      BY Zenon, <2>1, <2>9, LeftDrainsNothing
    <3>3. Queued = Point1(x) \cup Queued'
      BY Zenon, <1>2, <3>1, <3>2, PointsTail, OrderNames
    <3>4. x.kind = "marker" /\ "async" \in Ops /\ x \in Held(jobs)
      <4>1. "async" \in Ops
        BY <2>9, <3>1 DEF BaseInv, Stages
      <4> QED  BY Zenon, <1>2, <3>1, <4>1, HeldTail DEF LeftInv
    <3>5. \A i \in DOMAIN log : (Says(i, {"unloading"}) /\ log[i].gen = gen) => Older(x, i)
      BY Zenon, <1>1, <3>3, <3>4 DEF ClosedAbove, Older, Point1
    <3>6. x.kind # "entry" /\ ~Closes(x)
      BY <1>1, <3>4
    <3>7. ClosedApart'
      BY Zenon, <1>1, <1>2, <2>5, <2>7, <3>5, <3>6, ClosedKept, ClosedGrows
    <3>8. ClosedAbove'
      <4>1. CASE log' = log
        BY Zenon, <1>1, <2>5, <3>3, <4>1, ClosedKept
      <4>2. CASE Adds(x)
        <5>1. log' = Append(log, Written(x))
          BY Zenon, <4>2 DEF Adds
        <5>2. /\ DOMAIN log' = DOMAIN log \cup {Len(log) + 1}
              /\ \A i \in DOMAIN log : log'[i] = log[i]
              /\ log'[Len(log) + 1].item = x
          BY Zenon, <1>2, <2>7, <5>1, Grown
        <5> QED  BY Zenon, <1>1, <2>5, <3>3, <3>6, <5>2 DEF ClosedAbove, IsMarker, Says, Is
      <4> QED  BY Zenon, <2>7, <3>6, <4>1, <4>2
    <3> QED  BY Zenon, <2>4, <2>5, <2>6, <2>9, <3>1, <3>7, <3>8 DEF ClosingInv
  <2> QED  BY Zenon, <2>2, <2>8, <2>9
<1>p. CASE Point \/ (FlushStarted /\ role # "master")
  <2>1. /\ at \in {"idle", "unit"} /\ gen' = gen /\ todo' = todo /\ jobs' = jobs
        /\ pending' = pending \/ Recorded(PointActions)
        /\ log' = log \/ Adds(Wipe)
    BY Zenon, <1>p, MarkFrame
  <2>2. \A m \in Held(pending') : ~Closes(m)
    <3>1. CASE Recorded(PointActions)
      <4>1. PICK a \in PointActions : pending' = Append(pending, AMarker(a, points + 1))
        BY Zenon, <3>1 DEF Recorded
      <4>2. AMarker(a, points + 1) \in Marker /\ ~Closes(AMarker(a, points + 1))
        BY <1>2 DEF AMarker, Marker, Actions, PointActions, IsMarker
      <4>3. \A m \in Marker : Held(Append(pending, m)) = Held(pending) \cup {m}
        BY Zenon, <1>2, HeldAppended
      <4> QED  BY Zenon, <1>1, <4>1, <4>2, <4>3
    <3> QED  BY Zenon, <1>1, <2>1, <3>1
  <2>3. ClosedApart' /\ NoneClosed'
    <3>1. Wipe \in Items /\ Wipe.kind = "flush"
      BY Zenon, <1>p, MarkFrame
    <3>2. ~Closes(Wipe)
      BY <3>1 DEF IsMarker
    <3> QED  BY Zenon, <1>1, <1>2, <1>3, <2>1, <3>1, <3>2, ClosedKept, OpenGrows
  <2>4. Ends'
    <3>1. DOMAIN todo' = {}
      BY <1>3, <2>1
    <3> QED  BY Zenon, <3>1
  <2> QED  BY Zenon, <1>1, <2>1, <2>2, <2>3, <2>4, NoneAbove DEF ClosingInv
<1>t. CASE role = "master" /\ (Cron \/ Close)
  <2>1. PICK last \in Marker \cup Tick :
             /\ todo' = Append(pending, last)
             /\ \/ Cron /\ last = Checkpoint /\ points' = points
                \/ Close /\ last = AMarker("unloading", points + 1) /\ points' = points + 1
    BY Zenon, <1>t, TakeFrame
  <2>2. /\ pending' = <<>> /\ jobs' = jobs /\ log' = log /\ gen' = gen
        /\ \/ Cron /\ at = "idle" /\ at' = "cron"
           \/ Close /\ at = "stopping" /\ at' = "closing" /\ backlog = <<>>
    BY Zenon, <1>t, TakeFrame
  <2>3. Cron => at' = "cron" /\ at = "idle"
    BY <1>t DEF Cron
  <2>4. Ends'
    <3> DEFINE S == Marker \cup Tick
    <3> HIDE DEF S
    <3>1. pending \in Seq(S) /\ last \in S
      BY <1>2 DEF S
    <3>2. /\ Len(pending) \in Nat /\ DOMAIN todo' = 1..(Len(pending) + 1) /\ Len(todo') = Len(pending) + 1
          /\ todo'[Len(pending) + 1] = last /\ DOMAIN pending = 1..Len(pending)
          /\ \A i \in 1..Len(pending) : todo'[i] = pending[i]
      BY <2>1, <3>1
    <3>3. ~Closes(Checkpoint)
      BY DEF Checkpoint, IsMarker
    <3> SUFFICES ASSUME NEW i \in DOMAIN todo', Closes(todo'[i])
                 PROVE  at' = "closing" /\ i = Len(todo')
      BY Zenon
    <3>4. i \in DOMAIN pending \/ i = Len(pending) + 1
      BY <3>2
    <3>5. i \notin DOMAIN pending
      BY Zenon, <1>1, <3>2 DEF Held
    <3>6. ~Cron
      <4>1. last = Checkpoint => ~Closes(todo'[i])
        BY Zenon, <3>2, <3>3, <3>4, <3>5
      <4>2. Cron => ~Close
        BY <2>3 DEF Close
      <4> QED  BY Zenon, <2>1, <4>1, <4>2
    <3> QED  BY Zenon, <2>2, <3>2, <3>4, <3>5, <3>6
  <2>5. NoneClosed
    BY <1>1, <2>2
  <2> QED  BY Zenon, <1>1, <2>2, <2>4, <2>5, ClosedKept, NoneAbove, HeldEmpty DEF ClosingInv
<1>l. CASE Load
  <2>1. /\ jobs' = jobs /\ todo' = <<>> /\ log' = log /\ gen' = gen + 1
        /\ \/ pending' = <<AMarker("loaded", points + 1)>>
           \/ pending' = <<AMarker("loaded", points + 1), AMarker("disabled", points + 2)>>
    BY Zenon, <1>l, LoadFrame
  <2>2. \A m \in Held(pending') : ~Closes(m)
    <3> DEFINE a == AMarker("loaded", points + 1)
               b == AMarker("disabled", points + 2)
    <3>1. ~Closes(a) /\ ~Closes(b)
      BY DEF AMarker, IsMarker
    <3> HIDE DEF a, b, Closes
    <3>2. Held(<<a>>) = {a} /\ Held(<<a, b>>) = {a, b}
      BY DEF Held
    <3> QED  BY Zenon, <2>1, <3>1, <3>2 DEF a, b
  <2>3. NoneClosed'
    <3>1. \A i \in DOMAIN log : log[i].gen \in Nat
      BY Zenon, <1>2, LogTyped
    <3>2. \A i \in DOMAIN log : log[i].gen # gen + 1
      BY <1>2, <3>1 DEF GensInv
    <3> QED  BY Zenon, <2>1, <3>2 DEF NoneClosed
  <2>4. ClosedApart'
    BY Zenon, <1>1, <2>1 DEF ClosedApart, Older, Says, Is
  <2>5. Ends'
    <3>1. DOMAIN todo' = {}
      BY <2>1
    <3> QED  BY Zenon, <3>1
  <2> QED  BY Zenon, <1>1, <2>1, <2>2, <2>3, <2>4, <2>5, NoneAbove DEF ClosingInv
<1> QED  BY Zenon, <1>q, <1>n, <1>w, <1>p, <1>t, <1>l, NextCases DEF Point

\* A generation closes with its `unloading` marker: what it accepted is written by then,
\* and nothing of it comes afterwards, whichever operations run and whatever is refused,
\* but an older marker out of a job that deinit left behind, and that only with a worker.
THEOREM ClosedCorrect == Spec => []ClosedLast
<1>1. BaseInv /\ ClosingInv => ClosedLast
  BY DEF BaseInv, Stages, ClosingInv, ClosedApart, ClosedLast, Older, Is
<1> QED  BY <1>1, BaseInit, BaseNext, LeftInit, LeftNext, OrderInit, OrderNext, OvertakenInit,
            OvertakenNext, GensInit, GensNext, ClosingInit, ClosingNext, PTL DEF Spec

\* No job outlives the module when events are not dispatched to a worker: at the end of
\* MODULE UNLOAD no post-notification job of the module is registered.
THEOREM UnloadCorrect ==
  ASSUME "async" \notin Ops
  PROVE  Spec => []NoJobAfterUnload
<1>1. BaseInv => NoJobAfterUnload
  BY DEF BaseInv, Stages, NoJobAfterUnload
<1> QED  BY <1>1, BaseInit, BaseNext, PTL DEF Spec

=============================================================================
