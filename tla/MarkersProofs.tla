---------------------------- MODULE MarkersProofs ----------------------------
(***************************************************************************)
(* Proofs about Markers: what a reader of the control stream may conclude  *)
(* about generations, checkpoints, flushes and capture gaps.               *)
(***************************************************************************)
EXTENDS MarkersOrder

-----------------------------------------------------------------------------
(* Generations. *)

\* The generation's `loaded` marker is on the stream, or is the first thing to get there.
Opened  == \E j \in DOMAIN log : Says(j, {"loaded"}) /\ log[j].gen = gen
Led(s)  == s # <<>> /\ IsMarker(s[1], {"loaded"})
Opening ==
  \/ Led(pending) /\ jobs = <<>> /\ todo = <<>> /\ backlog = <<>>
  \/ at \in {"unit", "jobs"} /\ Led(jobs)
  \/ at \in {"cron", "closing"} /\ Led(todo) /\ jobs = <<>> /\ backlog = <<>>
LoadedInv == (Opened \/ Opening) /\ LoadedFirst

\* FORWARDED + EVENTS_LOST counts the events of the generation on the stream or lost.
ResolvedIn(g, n) == {j \in 1..n : (Is(j, "entry") \/ Is(j, "lost")) /\ log[j].gen = g}
CountInv == resolved = Cardinality(ResolvedIn(gen, Len(log))) /\ CheckpointExact

-----------------------------------------------------------------------------
(* Times. *)

\* No entry of s is of an event after unit u.
NoneAfter(s, u) == \A e \in Held(s) : e.kind = "entry" => e.time <= u

TimesInv ==
  /\ \A i \in DOMAIN log : log[i].unit <= time
  /\ NoneAfter(jobs, time) /\ NoneAfter(backlog, time)

\* A `flushed` marker in s, and one ahead of every entry of an event after unit u.
Flushed(s)  == \E m \in Held(s) : IsMarker(m, {"flushed"})
Leads(s, u) ==
  \E p \in DOMAIN s : /\ IsMarker(s[p], {"flushed"})
                      /\ \A q \in 1..(p - 1) : s[q].kind = "entry" => s[q].time <= u

\* The marker of a flush in unit u of this generation still waits, ahead of every entry
\* of a later event.
Ahead(u) ==
  \/ (Flushed(pending) \/ Flushed(todo)) /\ NoneAfter(jobs, u) /\ NoneAfter(backlog, u)
  \/ Leads(jobs, u) /\ (at \in {"unit", "jobs"} \/ NoneAfter(backlog, u))

\* The record i of the log is of a flush on the master of this generation, in unit u.
FlushAt(i, u) ==
  Is(i, "flush") /\ log[i].item.by = "master" /\ log[i].gen = gen /\ log[i].unit = u
Marked(i) == \E j \in DOMAIN log : j > i /\ Says(j, {"flushed"})

FlushInv ==
  /\ FlushMarkerFirst
  /\ \A i \in DOMAIN log, u \in Nat : FlushAt(i, u) => Marked(i) \/ Ahead(u)

\* The markers written or waiting, wherever they are.
InLog      == {log[i].item : i \in DOMAIN log}
AllMarkers == {m \in InLog \cup Held(jobs) \cup Held(todo) \cup Held(pending) : m.kind = "marker"}

\* While capture is off the last of the markers that say so or otherwise says `disabled`.
LastOff(m) ==
  m.action = "disabled" /\ \A n \in AllMarkers : n.action \in {"enabled", "loaded"} => n.point < m.point
OffInv == ~enabled => \E m \in AllMarkers : LastOff(m)

\* An event of unit u lies in a window the stream opens with `disabled`, or will when the
\* jobs of the command in progress have run.
Window(u) ==
  \E i \in DOMAIN log :
    /\ Says(i, {"disabled"}) /\ log[i].unit <= u
    /\ \A j \in DOMAIN log : (j > i /\ Says(j, {"enabled", "loaded"})) => log[j].unit >= u
Soon(u) ==
  u = time /\ at \in {"unit", "jobs"} /\ \E m \in Held(jobs) : IsMarker(m, {"disabled"})

\* What tells of a flush of this node's waits to be written.
Tells   == {"flushed", "loaded"}
Waits   == \E m \in Held(pending) \cup Held(jobs) \cup Held(todo) : IsMarker(m, Tells)
ToldInv ==
  \A f \in DOMAIN log :
    (Is(f, "flush") /\ log[f].item.by = "master") =>
      Waits \/ \E j \in DOMAIN log : j > f /\ Says(j, Tells)

GapInv == OffInv /\ \A u \in missed : u <= time /\ (Window(u) \/ Soon(u))

-----------------------------------------------------------------------------
(* The start of a generation. *)

LEMMA LedJoined ==
  ASSUME NEW S, NEW s \in Seq(S), NEW t \in Seq(S), Led(s)
  PROVE  Led(s \o t)
<1>1. (s \o t)[1] = s[1] /\ s \o t # <<>>
  BY DEF Led
<1> QED  BY Zenon, <1>1 DEF Led

LEMMA LedAppended ==
  ASSUME NEW S, NEW s \in Seq(S), NEW x \in S, Led(s)
  PROVE  Led(Append(s, x))
<1>1. Append(s, x)[1] = s[1] /\ Append(s, x) # <<>>
  BY DEF Led
<1> QED  BY Zenon, <1>1 DEF Led

\* What a generation may write once its opening marker is there, and that marker itself.
LEMMA OpenedGrows ==
  ASSUME TypeInv, LoadedFirst, NEW x \in Items, Adds(x)
  PROVE  /\ Opened \/ IsMarker(x, {"loaded"}) => Opened' /\ LoadedFirst'
         /\ x.kind = "flush" => LoadedFirst'
<1>1. log' = Append(log, Written(x)) /\ gen' = gen
  BY Zenon DEF Adds
<1>2. /\ DOMAIN log' = DOMAIN log \cup {Len(log) + 1} /\ Len(log) \in Nat
      /\ DOMAIN log = 1..Len(log) /\ DOMAIN log' = 1..(Len(log) + 1)
      /\ \A i \in DOMAIN log : log'[i] = log[i]
      /\ log'[Len(log) + 1].item = x /\ log'[Len(log) + 1].gen = gen
  BY Zenon, <1>1, Grown
<1>3. /\ \A i \in DOMAIN log : 1..i \subseteq DOMAIN log /\ i \in 1..i
      /\ DOMAIN log' = 1..(Len(log) + 1) /\ Len(log) + 1 \in 1..(Len(log) + 1)
  BY <1>2
<1>4. \A i \in DOMAIN log :
        log'[i].item.kind \in {"entry", "marker", "checkpoint"} =>
          \E j \in 1..i : /\ log'[j].item.kind = "marker" /\ log'[j].item.action \in {"loaded"}
                          /\ log'[j].gen = log'[i].gen
  <2> TAKE i \in DOMAIN log
  <2> HAVE log'[i].item.kind \in {"entry", "marker", "checkpoint"}
  <2>1. \E j \in 1..i : Says(j, {"loaded"}) /\ log[j].gen = log[i].gen
    BY Zenon, <1>2 DEF LoadedFirst
  <2> QED  BY Zenon, <1>2, <1>3, <2>1 DEF Says, Is
<1>5. ASSUME Opened \/ IsMarker(x, {"loaded"})
      PROVE  \E j \in DOMAIN log' : /\ log'[j].item.kind = "marker" /\ log'[j].item.action \in {"loaded"}
                                    /\ log'[j].gen = gen
  <2>1. CASE Opened
    BY Zenon, <1>2, <2>1 DEF Opened, Says, Is
  <2>2. CASE IsMarker(x, {"loaded"})
    BY Zenon, <1>2, <2>2 DEF IsMarker
  <2> QED  BY Zenon, <1>5, <2>1, <2>2
<1>6. ASSUME Opened \/ IsMarker(x, {"loaded"}) PROVE Opened' /\ LoadedFirst'
  <2>1. Opened'
    BY Zenon, <1>1, <1>5, <1>6 DEF Opened, Says, Is
  <2>2. LoadedFirst'
    BY Zenon, <1>2, <1>3, <1>4, <1>5, <1>6 DEF LoadedFirst, Says, Is
  <2> QED  BY Zenon, <2>1, <2>2
<1>7. ASSUME x.kind = "flush" PROVE LoadedFirst'
  <2>1. x.kind \notin {"entry", "marker", "checkpoint"}
    BY <1>7
  <2> QED  BY Zenon, <1>2, <1>4, <2>1 DEF LoadedFirst, Says, Is
<1> QED  BY Zenon, <1>6, <1>7

LEMMA OpenedKept ==
  ASSUME log' = log, gen' = gen
  PROVE  Opened' = Opened
BY Zenon DEF Opened, Says, Is

LEMMA LoadedKept ==
  ASSUME log' = log
  PROVE  LoadedFirst' = LoadedFirst
BY Zenon DEF LoadedFirst, Says, Is

LEMMA LoadedInit == Init => LoadedInv
<1> SUFFICES ASSUME Init PROVE LoadedInv
  OBVIOUS
<1>1. DOMAIN log = {} /\ pending # <<>> /\ pending[1] = AMarker("loaded", 0)
  BY DEF Init
<1>2. IsMarker(AMarker("loaded", 0), {"loaded"})
  BY DEF IsMarker, AMarker
<1> QED  BY Zenon, <1>1, <1>2 DEF LoadedInv, LoadedFirst, Opening, Led, Init

LEMMA LoadedNext ==
  ASSUME "refuse" \notin Ops, "defer" \notin Ops
  PROVE  BaseInv /\ LoadedInv /\ [Next]_vars => LoadedInv'
<1> SUFFICES ASSUME BaseInv, LoadedInv, [Next]_vars PROVE LoadedInv'
  OBVIOUS
<1>1. LoadedFirst /\ (Opened \/ Opening)
  BY Zenon DEF LoadedInv
<1>2. /\ TypeInv /\ jobs \in Seq(Jobs) /\ pending \in Seq(Marker) /\ log \in Seq(Recs)
      /\ todo \in Seq(Marker \cup Tick) /\ points \in Nat /\ pending \in Seq(Jobs)
      /\ pending \in Seq(Marker \cup Tick)
  <2>1. pending \in Seq(Marker) => pending \in Seq(Marker \cup Event) /\ pending \in Seq(Marker \cup Tick)
    <3> HIDE DEF Marker, Event, Tick
    <3> QED  OBVIOUS
  <2> QED  BY Zenon, <2>1, TypesOf DEF BaseInv, Jobs
<1>3. \A s : s \in Seq(Jobs) /\ Led(s) => \A t \in Seq(Jobs) : Led(s \o t)
  BY Zenon, LedJoined
<1>q. CASE Quiet
  <2>1. UNCHANGED <<log, gen, pending, jobs, todo, backlog>> /\ Moves
    BY Zenon, <1>q, QuietMoves DEF content
  <2>2. Opening => Opening'
    BY <2>1 DEF Opening, Moves, Led, IsMarker
  <2> QED  BY Zenon, <1>1, <2>1, <2>2, OpenedKept, LoadedKept DEF LoadedInv
<1>n. CASE Notify
  <2>1. /\ at \in {"idle", "unit"} /\ at' = "unit" /\ todo = <<>> /\ todo' = todo
        /\ log' = log /\ gen' = gen /\ role' = role
        /\ backlog' = backlog \/ role = "master"
    BY Zenon, <1>n, NotifyFrame
  <2>2. PICK new \in Seq(Event) :
               Step0(jobs, new) /\ (new = <<>> \/ (new = <<AnEvent(Unit)>> /\ role = "master"))
    BY Zenon, <1>n, NotifyFrame
  <2>3. /\ new \in Seq(Jobs) /\ jobs \o pending \in Seq(Jobs)
        /\ \/ ~Drains /\ jobs' = jobs \o new /\ UNCHANGED <<pending, dirty>>
           \/ Drains /\ jobs' = (jobs \o pending) \o new
    BY Zenon, <1>2, <2>2, Step0Cases, Joined
  <2>4. ASSUME Opening PROVE Opening'
    <3>1. CASE Led(pending) /\ jobs = <<>> /\ backlog = <<>>
      <4>1. dirty
        BY Zenon, <3>1 DEF Led, BaseInv, NothingStranded
      <4>2. CASE role = "master"
        <5>1. jobs' = (jobs \o pending) \o new
          BY Zenon, <2>3, <4>1, <4>2 DEF Drains
        <5>2. jobs \o pending = pending
          BY <1>2, <3>1
        <5>3. Led(jobs')
          BY Zenon, <1>2, <1>3, <2>3, <3>1, <5>1, <5>2
        <5> QED  BY <2>1, <5>3 DEF Opening
      <4>3. CASE role # "master"
        <5>1. jobs' = jobs \o <<>> /\ pending' = pending
          BY Zenon, <2>2, <2>3, <4>3 DEF Drains
        <5>2. jobs' = <<>>
          BY <3>1, <5>1
        <5> QED  BY Zenon, <2>1, <3>1, <4>3, <5>1, <5>2 DEF Opening
      <4> QED  BY Zenon, <4>2, <4>3
    <3>2. CASE Led(jobs)
      <4>1. Led(jobs \o new) /\ Led(jobs \o pending)
        BY Zenon, <1>2, <1>3, <2>3, <3>2
      <4>2. Led((jobs \o pending) \o new)
        BY Zenon, <1>3, <2>3, <4>1
      <4>3. Led(jobs')
        BY Zenon, <2>3, <4>1, <4>2
      <4> QED  BY <2>1, <4>3 DEF Opening
    <3> QED  BY Zenon, <2>1, <2>4, <3>1, <3>2 DEF Opening, Led
  <2> QED  BY Zenon, <1>1, <2>1, <2>4, OpenedKept, LoadedKept DEF LoadedInv
<1>w. CASE RunJob \/ WorkerWrite \/ WriteDirect
  <2>1. PICK x \in Marker \cup Event \cup Tick, js \in Seq(Jobs) : Writing(x, js) /\ Write(x, js) /\ Kept
    BY Zenon, <1>w, WriteCases
  <2>2. /\ x \in Items /\ gen' = gen
        /\ (log' = log /\ x.kind = "checkpoint") \/ Adds(x)
    BY Zenon, <2>1, WriteLog DEF Kept
  <2>3. Opened \/ IsMarker(x, {"loaded"})
    <3> SUFFICES ASSUME Opening PROVE IsMarker(x, {"loaded"})
      BY Zenon, <1>1
    <3>1. CASE Led(jobs) /\ at \in {"unit", "jobs"}
      <4>1. x = Head(jobs) /\ jobs # <<>>
        BY <2>1, <3>1 DEF Writing
      <4> QED  BY Zenon, <1>2, <3>1, <4>1, Headed DEF Led
    <3>2. CASE Led(todo) /\ at \in {"cron", "closing"}
      <4>1. x = Head(todo) /\ todo # <<>>
        BY <2>1, <3>2 DEF Writing
      <4> QED  BY Zenon, <1>2, <3>2, <4>1, Headed DEF Led
    <3>3. ~(jobs = <<>> /\ todo = <<>> /\ backlog = <<>>)
      BY Zenon, <2>1 DEF Writing
    <3> QED  BY Zenon, <3>1, <3>2, <3>3 DEF Opening
  <2>4. CASE Adds(x)
    BY Zenon, <1>1, <1>2, <2>2, <2>3, <2>4, OpenedGrows DEF LoadedInv
  <2>5. CASE log' = log /\ x.kind = "checkpoint"
    <3>1. ~IsMarker(x, {"loaded"})
      BY <2>5 DEF IsMarker
    <3> QED  BY Zenon, <1>1, <2>2, <2>3, <2>5, <3>1, OpenedKept, LoadedKept DEF LoadedInv
  <2> QED  BY Zenon, <2>2, <2>4, <2>5
<1>p. CASE Point \/ (FlushStarted /\ role # "master")
  <2>1. /\ at \in {"idle", "unit"} /\ UNCHANGED <<at, gen, jobs, todo, backlog>>
        /\ pending' = pending \/ Recorded(PointActions)
        /\ Wipe \in Items /\ Wipe.kind = "flush"
        /\ log' = log \/ Adds(Wipe)
    BY Zenon, <1>p, MarkFrame
  <2>2. Led(pending) => Led(pending')
    <3>1. CASE Recorded(PointActions)
      <4>1. PICK a \in PointActions : pending' = Append(pending, AMarker(a, points + 1))
        BY Zenon, <3>1 DEF Recorded
      <4>2. AMarker(a, points + 1) \in Marker
        BY <1>2 DEF AMarker, Marker, Actions, PointActions
      <4> QED  BY Zenon, <1>2, <4>1, <4>2, LedAppended
    <3> QED  BY Zenon, <2>1, <3>1
  <2>3. Opening => Opening'
    BY Zenon, <2>1, <2>2 DEF Opening, Led
  <2>5. LoadedFirst' /\ (Opened => Opened')
    <3>1. CASE log' = log
      <4>1. Opened' = Opened /\ LoadedFirst' = LoadedFirst
        BY Zenon, <2>1, <3>1, OpenedKept, LoadedKept
      <4> QED  BY Zenon, <1>1, <4>1
    <3>2. CASE Adds(Wipe)
      BY Zenon, <1>1, <1>2, <2>1, <3>2, OpenedGrows
    <3> QED  BY Zenon, <2>1, <3>1, <3>2
  <2> QED  BY Zenon, <1>1, <2>3, <2>5 DEF LoadedInv
<1>t. CASE role = "master" /\ (Cron \/ Close)
  <2>1. PICK last \in Marker \cup Tick :
             /\ todo' = Append(pending, last)
             /\ \/ Cron /\ last = Checkpoint /\ points' = points
                \/ Close /\ last = AMarker("unloading", points + 1) /\ points' = points + 1
    BY Zenon, <1>t, TakeFrame
  <2>2. /\ UNCHANGED <<jobs, backlog, log, gen>>
        /\ \/ Cron /\ at = "idle" /\ at' = "cron"
           \/ Close /\ at = "stopping" /\ at' = "closing" /\ backlog = <<>>
    BY Zenon, <1>t, TakeFrame
  <2>3. Opening => Led(pending) /\ jobs = <<>> /\ backlog = <<>>
    BY <2>2 DEF Opening
  <2>4. Led(pending) => Led(todo')
    BY Zenon, <1>2, <2>1, LedAppended
  <2>5. Opening => Opening'
    BY <2>2, <2>3, <2>4 DEF Opening
  <2> QED  BY Zenon, <1>1, <2>2, <2>5, OpenedKept, LoadedKept DEF LoadedInv
<1>l. CASE Load
  <2>1. /\ jobs' = <<>> /\ todo' = <<>> /\ backlog' = <<>> /\ log' = log
        /\ \/ pending' = <<AMarker("loaded", points + 1)>>
           \/ pending' = <<AMarker("loaded", points + 1), AMarker("disabled", points + 2)>>
    BY Zenon, <1>l, LoadFrame
  <2>2. Led(pending')
    <3> DEFINE a == AMarker("loaded", points + 1)
               b == AMarker("disabled", points + 2)
    <3>1. IsMarker(a, {"loaded"})
      BY DEF AMarker, IsMarker
    <3> HIDE DEF a, b
    <3>2. <<a>> # <<>> /\ <<a, b>> # <<>> /\ <<a>>[1] = a /\ <<a, b>>[1] = a
      OBVIOUS
    <3> QED  BY Zenon, <2>1, <3>1, <3>2 DEF a, b, Led
  <2>3. Opening'
    BY Zenon, <2>1, <2>2 DEF Opening
  <2> QED  BY Zenon, <1>1, <2>1, <2>3, LoadedKept DEF LoadedInv
<1> QED  BY Zenon, <1>q, <1>n, <1>w, <1>p, <1>t, <1>l, NextCases DEF Point

\* A generation opens with its `loaded` marker, whatever events, lifecycle points, ticks,
\* role changes and unloads come first, as long as no write is refused and every job can
\* be registered (a refused `loaded` marker is counted as dropped and never written).
THEOREM LoadedCorrect ==
  ASSUME "refuse" \notin Ops, "defer" \notin Ops
  PROVE  Spec => []LoadedFirst
<1>1. LoadedInv => LoadedFirst
  BY DEF LoadedInv
<1> QED  BY <1>1, BaseInit, BaseNext, LoadedInit, LoadedNext, PTL DEF Spec

-----------------------------------------------------------------------------
(* Flushes. *)

LEMMA TimesInit == Init => TimesInv
<1> SUFFICES ASSUME Init PROVE TimesInv
  OBVIOUS
<1>1. DOMAIN log = {} /\ jobs = <<>> /\ backlog = <<>>
  BY DEF Init
<1> QED  BY Zenon, <1>1, HeldEmpty DEF TimesInv, NoneAfter

LEMMA TimesNext == BaseInv /\ TimesInv /\ [Next]_vars => TimesInv'
<1> SUFFICES ASSUME BaseInv, TimesInv, [Next]_vars PROVE TimesInv'
  OBVIOUS
<1>1. /\ TypeInv /\ jobs \in Seq(Jobs) /\ pending \in Seq(Marker) /\ log \in Seq(Recs)
      /\ backlog \in Seq(Event) /\ time \in Nat
  BY Zenon, TypesOf DEF BaseInv
<1>2. /\ \A i \in DOMAIN log : log[i].unit \in Nat /\ log[i].unit <= time
      /\ \A e \in Held(jobs) \cup Held(backlog) : e.kind = "entry" => e.time \in Nat /\ e.time <= time
      /\ \A m \in Held(pending) : m.kind # "entry"
  <2>1. Held(jobs) \subseteq Jobs /\ Held(backlog) \subseteq Event /\ Held(pending) \subseteq Marker
    BY Zenon, <1>1, HeldIn
  <2>2. \A e \in Jobs : e.kind = "entry" => e.time \in Nat
    BY DEF Jobs, Marker, Event
  <2>3. /\ \A e \in Event : e.kind = "entry" => e.time \in Nat
        /\ \A e \in Marker : e.kind # "entry"
    BY DEF Marker, Event
  <2> QED  BY Zenon, <1>1, <2>1, <2>2, <2>3, LogTyped DEF TimesInv, NoneAfter
<1>3. time' \in Nat /\ time <= time'
  <2>1. CASE Notify
    BY Zenon, <2>1, NotifyFrame
  <2>2. CASE time' = time
    BY <1>1, <2>2
  <2>3. CASE Quiet
    BY Zenon, <2>2, <2>3, QuietMoves DEF content
  <2>4. CASE RunJob \/ WorkerWrite \/ WriteDirect
    BY Zenon, <2>2, <2>4, WriteCases DEF Kept
  <2>5. CASE Point \/ (FlushStarted /\ role # "master")
    BY Zenon, <2>2, <2>5, MarkFrame
  <2>6. CASE role = "master" /\ (Cron \/ Close)
    BY Zenon, <2>2, <2>6, TakeFrame
  <2>7. CASE Load
    BY Zenon, <2>2, <2>7, LoadFrame
  <2> QED  BY Zenon, <2>1, <2>3, <2>4, <2>5, <2>6, <2>7, NextCases DEF Point
<1>4. \A n \in Nat : n <= time => n <= time'
  BY <1>1, <1>3
<1>5. \A i \in DOMAIN log' : log'[i].unit <= time'
  <2>1. CASE log' = log
    BY Zenon, <1>2, <1>4, <2>1
  <2>2. ASSUME NEW x \in Items, Adds(x) PROVE \A i \in DOMAIN log' : log'[i].unit <= time'
    <3>1. log' = Append(log, Written(x))
      BY Zenon, <2>2 DEF Adds
    <3>2. /\ DOMAIN log' = DOMAIN log \cup {Len(log) + 1}
          /\ \A i \in DOMAIN log : log'[i] = log[i]
          /\ log'[Len(log) + 1].unit = time
      BY Zenon, <1>1, <3>1, Grown
    <3> QED  BY Zenon, <1>2, <1>3, <1>4, <3>2
  <2> QED  BY Zenon, <2>1, <2>2, LogSteps
<1>6. \A e \in Held(jobs') \cup Held(backlog') : e.kind = "entry" => e.time <= time'
  <2>1. CASE Notify
    <3>1. PICK new \in Seq(Event) : Step0(jobs, new) /\ (new = <<>> \/ new = <<AnEvent(Unit)>>)
      BY Zenon, <2>1, NotifyFrame
    <3>2. Held(new) \subseteq {AnEvent(Unit)}
      BY <3>1 DEF Held
    <3>3. /\ time' = Unit /\ Unit \in Nat /\ AnEvent(Unit) \in Event
          /\ backlog' = backlog \/ backlog' = Append(backlog, AnEvent(Unit))
      BY Zenon, <2>1, NotifyFrame
    <3>4. AnEvent(Unit).time <= time'
      BY <3>3 DEF AnEvent
    <3>5. \A e \in Event : Held(Append(backlog, e)) = Held(backlog) \cup {e}
      BY Zenon, <1>1, HeldAppended
    <3>6. Held(backlog') \subseteq Held(backlog) \cup {AnEvent(Unit)}
      BY Zenon, <3>3, <3>5
    <3>7. Held(jobs') \subseteq Held(jobs) \cup Held(pending) \cup {AnEvent(Unit)}
      BY Zenon, <1>1, <3>1, <3>2, Step0Held
    <3> QED  BY Zenon, <1>2, <1>4, <3>4, <3>6, <3>7
  <2>2. ASSUME Held(jobs') \subseteq Held(jobs) \cup Held(pending), Held(backlog') \subseteq Held(backlog)
        PROVE  \A e \in Held(jobs') \cup Held(backlog') : e.kind = "entry" => e.time <= time'
    BY Zenon, <1>2, <1>4, <2>2
  <2>3. CASE Quiet
    BY Zenon, <2>2, <2>3, QuietMoves DEF content
  <2>4. CASE RunJob \/ WorkerWrite \/ WriteDirect
    <3>1. PICK x \in Marker \cup Event \cup Tick, js \in Seq(Jobs) : Writing(x, js) /\ Write(x, js) /\ Kept
      BY Zenon, <2>4, WriteCases
    <3>2. Held(js) \subseteq Held(jobs) /\ Held(backlog') \subseteq Held(backlog)
      <4>1. jobs # <<>> => Held(Tail(jobs)) \subseteq Held(jobs)
        BY Zenon, <1>1, HeldTail
      <4>2. backlog # <<>> => Held(Tail(backlog)) \subseteq Held(backlog)
        BY Zenon, <1>1, HeldTail
      <4> QED  BY Zenon, <3>1, <4>1, <4>2 DEF Writing
    <3> QED  BY Zenon, <1>1, <2>2, <3>1, <3>2, WriteHeld
  <2>5. CASE Point \/ (FlushStarted /\ role # "master")
    BY Zenon, <2>2, <2>5, MarkFrame
  <2>6. CASE role = "master" /\ (Cron \/ Close)
    BY Zenon, <2>2, <2>6, TakeFrame
  <2>7. CASE Load
    BY Zenon, <2>2, <2>7, LoadFrame
  <2> QED  BY Zenon, <2>1, <2>3, <2>4, <2>5, <2>6, <2>7, NextCases DEF Point
<1> QED  BY Zenon, <1>5, <1>6 DEF TimesInv, NoneAfter

LEMMA LeadsJoined ==
  ASSUME NEW S, NEW s \in Seq(S), NEW t \in Seq(S), NEW u \in Nat
  PROVE  /\ Leads(s, u) => Leads(s \o t, u)
         /\ NoneAfter(s, u) /\ Leads(t, u) => Leads(s \o t, u)
<1> DEFINE w == s \o t
<1>1. /\ Len(s) \in Nat /\ Len(t) \in Nat /\ DOMAIN w = 1..(Len(s) + Len(t))
      /\ DOMAIN s = 1..Len(s) /\ DOMAIN t = 1..Len(t)
      /\ \A i \in 1..Len(s) : w[i] = s[i]
      /\ \A i \in 1..Len(t) : w[Len(s) + i] = t[i]
  BY Joined
<1> HIDE DEF w
<1>2. ASSUME Leads(s, u) PROVE Leads(w, u)
  <2>1. PICK p \in DOMAIN s : /\ IsMarker(s[p], {"flushed"})
                              /\ \A q \in 1..(p - 1) : s[q].kind = "entry" => s[q].time <= u
    BY Zenon, <1>2 DEF Leads
  <2>2. p \in DOMAIN w /\ w[p] = s[p] /\ \A q \in 1..(p - 1) : w[q] = s[q]
    BY <1>1
  <2> QED  BY Zenon, <2>1, <2>2 DEF Leads
<1>3. ASSUME NoneAfter(s, u), Leads(t, u) PROVE Leads(w, u)
  <2>1. PICK p \in DOMAIN t : /\ IsMarker(t[p], {"flushed"})
                              /\ \A q \in 1..(p - 1) : t[q].kind = "entry" => t[q].time <= u
    BY Zenon, <1>3 DEF Leads
  <2>2. Len(s) + p \in DOMAIN w /\ w[Len(s) + p] = t[p]
    BY <1>1
  <2>3. \A q \in 1..((Len(s) + p) - 1) :
          \/ q \in DOMAIN s /\ w[q] = s[q]
          \/ q - Len(s) \in 1..(p - 1) /\ w[q] = t[q - Len(s)]
    BY <1>1
  <2>4. \A q \in DOMAIN s : s[q].kind = "entry" => s[q].time <= u
    BY Zenon, <1>3 DEF NoneAfter, Held
  <2>5. \A q \in 1..((Len(s) + p) - 1) : w[q].kind = "entry" => w[q].time <= u
    <3> TAKE q \in 1..((Len(s) + p) - 1)
    <3>1. CASE q \in DOMAIN s /\ w[q] = s[q]
      BY Zenon, <2>4, <3>1
    <3>2. CASE q - Len(s) \in 1..(p - 1) /\ w[q] = t[q - Len(s)]
      BY Zenon, <2>1, <3>2
    <3> QED  BY Zenon, <2>3, <3>1, <3>2
  <2> QED  BY Zenon, <2>1, <2>2, <2>5 DEF Leads
<1> QED  BY Zenon, <1>2, <1>3 DEF w

LEMMA LeadsTail ==
  ASSUME NEW S, NEW s \in Seq(S), NEW u \in Nat, Leads(s, u)
  PROVE  /\ s # <<>>
         /\ \/ IsMarker(Head(s), {"flushed"})
            \/ Leads(Tail(s), u) /\ (Head(s).kind = "entry" => Head(s).time <= u)
<1> DEFINE r == Tail(s)
<1>1. PICK p \in DOMAIN s : /\ IsMarker(s[p], {"flushed"})
                            /\ \A q \in 1..(p - 1) : s[q].kind = "entry" => s[q].time <= u
  BY Zenon DEF Leads
<1>2. s # <<>>
  OBVIOUS
<1>3. /\ Head(s) = s[1] /\ Len(s) \in Nat /\ Len(s) > 0 /\ Len(r) = Len(s) - 1
      /\ \A i \in 1..Len(r) : r[i] = s[i + 1]
      /\ DOMAIN s = 1..Len(s) /\ DOMAIN r = 1..Len(r)
  BY <1>2, Headed
<1> HIDE DEF r
<1>4. CASE p # 1
  <2>1. /\ p - 1 \in DOMAIN r /\ r[p - 1] = s[p] /\ 1 \in 1..(p - 1)
        /\ \A q \in 1..((p - 1) - 1) : r[q] = s[q + 1] /\ q + 1 \in 1..(p - 1)
    BY <1>3, <1>4
  <2>2. Leads(r, u)
    BY Zenon, <1>1, <2>1 DEF Leads
  <2> QED  BY Zenon, <1>1, <1>2, <1>3, <2>1, <2>2 DEF r
<1> QED  BY Zenon, <1>1, <1>2, <1>3, <1>4

LEMMA LeadsMarkers ==
  ASSUME NEW s \in Seq(Marker), NEW u \in Nat, Flushed(s)
  PROVE  Leads(s, u)
<1>1. PICK p \in DOMAIN s : IsMarker(s[p], {"flushed"})
  BY Zenon DEF Flushed, Held
<1>2. \A q \in 1..(p - 1) : s[q] \in Marker
  <2> HIDE DEF Marker
  <2> QED  OBVIOUS
<1>3. \A m \in Marker : m.kind # "entry"
  BY DEF Marker
<1> QED  BY Zenon, <1>1, <1>2, <1>3 DEF Leads

\* Step 0 keeps a waiting `flushed` marker ahead of what comes later.
LEMMA Step0Ahead ==
  ASSUME TypeInv, "defer" \notin Ops, NEW js \in Seq(Jobs), NEW new \in Seq(Event),
         Step0(js, new), NEW u \in Nat
  PROVE  /\ Leads(js, u) => Leads(jobs', u)
         /\ NoneAfter(js, u) /\ Flushed(pending) =>
              \/ Drains /\ Leads(jobs', u)
              \/ ~Drains /\ pending' = pending /\ jobs' = js \o new
<1>1. /\ js \o new \in Seq(Jobs) /\ pending \in Seq(Jobs) /\ new \in Seq(Jobs)
      /\ js \o pending \in Seq(Jobs) /\ pending \in Seq(Marker)
  BY Zenon, Step0Cases, Joined, TypesOf
<1>2. \A s, t \in Seq(Jobs) : /\ Leads(s, u) => Leads(s \o t, u)
                              /\ NoneAfter(s, u) /\ Leads(t, u) => Leads(s \o t, u)
  BY Zenon, LeadsJoined
<1>3. \/ ~Drains /\ jobs' = js \o new /\ pending' = pending
      \/ Drains /\ jobs' = (js \o pending) \o new
  BY Zenon, Step0Cases
<1>4. Flushed(pending) => Leads(pending, u)
  BY Zenon, <1>1, LeadsMarkers
<1>5. Leads(js, u) => Leads(js \o new, u) /\ Leads((js \o pending) \o new, u)
  BY Zenon, <1>1, <1>2
<1>6. NoneAfter(js, u) /\ Flushed(pending) => Leads((js \o pending) \o new, u)
  BY Zenon, <1>1, <1>2, <1>4
<1> QED  BY Zenon, <1>3, <1>5, <1>6

LEMMA AheadWrite ==
  ASSUME "refuse" \notin Ops, "defer" \notin Ops, BaseInv, NEW u \in Nat, Ahead(u),
         NEW x \in Marker \cup Event \cup Tick, NEW js \in Seq(Jobs),
         Writing(x, js), Write(x, js), Kept
  PROVE  /\ Ahead(u)' \/ IsMarker(x, {"flushed"})
         /\ x.kind = "entry" => x.time <= u
<1>1. /\ TypeInv /\ jobs \in Seq(Jobs) /\ pending \in Seq(Marker)
      /\ todo \in Seq(Marker \cup Tick) /\ backlog \in Seq(Event)
  BY Zenon, TypesOf DEF BaseInv
<1>2. <<>> \in Seq(Event) /\ js \o <<>> = js /\ at' = at
  BY Zenon, SMT DEF Kept
<1>3. Step0(js, <<>>)
  BY Zenon DEF Write
<1>4. /\ Leads(js, u) => Leads(jobs', u)
      /\ NoneAfter(js, u) /\ Flushed(pending) => Leads(jobs', u) \/ (pending' = pending /\ jobs' = js)
  BY Zenon, <1>1, <1>2, <1>3, Step0Ahead
<1>5. \A s, r : Held(r) \subseteq Held(s) /\ NoneAfter(s, u) => NoneAfter(r, u)
  BY Zenon DEF NoneAfter
<1>6. jobs # <<>> => Held(jobs) = {Head(jobs)} \cup Held(Tail(jobs))
  BY Zenon, <1>1, HeldTail
<1>7. backlog # <<>> => Held(backlog) = {Head(backlog)} \cup Held(Tail(backlog))
  BY Zenon, <1>1, HeldTail
<1>8. todo # <<>> => Held(todo) = {Head(todo)} \cup Held(Tail(todo))
  BY Zenon, <1>1, HeldTail
<1>j. CASE at \in {"jobs", "unloaded"}
  <2>1. jobs # <<>> /\ x = Head(jobs) /\ js = Tail(jobs) /\ backlog' = backlog /\ todo' = todo
    BY <1>j DEF Writing
  <2>2. todo = <<>>
    BY <1>j DEF BaseInv, Stages
  <2>3. at' \in {"unit", "jobs"} \/ NoneAfter(backlog', u)
    <3>1. at' \in {"unit", "jobs"} \/ at \notin {"unit", "jobs"}
      BY Zenon, <1>2
    <3> QED  BY Zenon, <2>1, <3>1 DEF Ahead
  <2>4. CASE Flushed(pending) /\ NoneAfter(jobs, u) /\ NoneAfter(backlog, u)
    <3>1. NoneAfter(js, u) /\ (x.kind = "entry" => x.time <= u)
      BY Zenon, <1>6, <2>1, <2>4 DEF NoneAfter
    <3>2. Ahead(u)'
      BY Zenon, <1>4, <2>1, <2>3, <2>4, <3>1 DEF Ahead
    <3> QED  BY Zenon, <3>1, <3>2
  <2>5. CASE Leads(jobs, u)
    <3>1. \/ IsMarker(Head(jobs), {"flushed"})
          \/ Leads(Tail(jobs), u) /\ (Head(jobs).kind = "entry" => Head(jobs).time <= u)
      BY Zenon, <1>1, <2>5, LeadsTail
    <3>2. CASE IsMarker(x, {"flushed"})
      <4>1. x.kind # "entry"
        BY <3>2 DEF IsMarker
      <4> QED  BY Zenon, <3>2, <4>1
    <3>3. CASE Leads(js, u) /\ (x.kind = "entry" => x.time <= u)
      BY Zenon, <1>4, <2>3, <3>3 DEF Ahead
    <3> QED  BY Zenon, <2>1, <3>1, <3>2, <3>3
  <2>6. ~Flushed(todo)
    BY Zenon, <2>2, HeldEmpty DEF Flushed
  <2> QED  BY Zenon, <2>4, <2>5, <2>6 DEF Ahead
<1>k. CASE at \in {"worker", "stopping"}
  <2>1. backlog # <<>> /\ x = Head(backlog) /\ js = jobs /\ backlog' = Tail(backlog) /\ todo' = todo
    BY <1>k DEF Writing
  <2>2. todo = <<>> /\ at \notin {"unit", "jobs"}
    BY <1>k DEF BaseInv, Stages
  <2>3. NoneAfter(backlog, u)
    BY Zenon, <2>2 DEF Ahead
  <2>4. NoneAfter(backlog', u) /\ (x.kind = "entry" => x.time <= u)
    BY Zenon, <1>7, <2>1, <2>3 DEF NoneAfter
  <2>5. ~Flushed(todo)
    BY Zenon, <2>2, HeldEmpty DEF Flushed
  <2>6. Ahead(u)'
    BY Zenon, <1>4, <2>1, <2>4, <2>5 DEF Ahead
  <2> QED  BY Zenon, <2>4, <2>6
<1>d. CASE at \in {"cron", "closing"}
  <2>1. todo # <<>> /\ x = Head(todo) /\ todo' = Tail(todo) /\ backlog' = backlog
    BY <1>d DEF Writing
  <2>2. jobs' = jobs /\ pending' = <<>> /\ pending = <<>>
    BY Zenon, <1>d, DirectDrainsNothing
  <2>3. x.kind # "entry"
    <3>1. x \in Marker \cup Tick
      BY Zenon, <1>1, <2>1, Headed
    <3> QED  BY <3>1 DEF Marker, Tick
  <2>4. Flushed(todo) => IsMarker(x, {"flushed"}) \/ Flushed(todo')
    BY Zenon, <1>8, <2>1 DEF Flushed
  <2>5. ~Flushed(pending)
    BY Zenon, <2>2, HeldEmpty DEF Flushed
  <2>6. Ahead(u)' \/ IsMarker(x, {"flushed"})
    BY Zenon, <1>2, <2>1, <2>2, <2>4, <2>5 DEF Ahead
  <2> QED  BY Zenon, <2>3, <2>6
<1> QED  BY Zenon, <1>j, <1>k, <1>d DEF Writing

\* A waiting marker stays ahead, or is written.
LEMMA AheadNext ==
  ASSUME "refuse" \notin Ops, "defer" \notin Ops, BaseInv, NEW u \in Nat, Ahead(u), [Next]_vars,
         gen' = gen
  PROVE  \/ Ahead(u)'
         \/ \E x \in Items : Adds(x) /\ IsMarker(x, {"flushed"})
<1>1. /\ TypeInv /\ jobs \in Seq(Jobs) /\ pending \in Seq(Marker) /\ points \in Nat /\ gen \in Nat
      /\ todo \in Seq(Marker \cup Tick) /\ backlog \in Seq(Event) /\ pending \in Seq(Marker \cup Tick)
  <2>1. pending \in Seq(Marker) => pending \in Seq(Marker \cup Tick)
    <3> HIDE DEF Marker, Tick
    <3> QED  OBVIOUS
  <2> QED  BY Zenon, <2>1, TypesOf DEF BaseInv
<1>q. CASE Quiet
  <2>1. UNCHANGED <<pending, jobs, todo, backlog>> /\ Moves
    BY Zenon, <1>q, QuietMoves DEF content
  <2>2. Leads(jobs, u) => jobs # <<>>
    BY Zenon, <1>1, LeadsTail
  <2>3. Leads(jobs, u) /\ at \in {"unit", "jobs"} => at' \in {"unit", "jobs"}
    BY <2>1, <2>2 DEF Moves
  <2> QED  BY Zenon, <2>1, <2>3 DEF Ahead
<1>n. CASE Notify
  <2>1. /\ at' = "unit" /\ todo = <<>> /\ todo' = todo
        /\ backlog' = backlog \/ role = "master"
    BY Zenon, <1>n, NotifyFrame
  <2>2. PICK new \in Seq(Event) :
               Step0(jobs, new) /\ (new = <<>> \/ (new = <<AnEvent(Unit)>> /\ role = "master"))
    BY Zenon, <1>n, NotifyFrame
  <2>3. /\ Leads(jobs, u) => Leads(jobs', u)
        /\ NoneAfter(jobs, u) /\ Flushed(pending) =>
             \/ Drains /\ Leads(jobs', u)
             \/ ~Drains /\ pending' = pending /\ jobs' = jobs \o new
    BY Zenon, <1>1, <2>2, Step0Ahead
  <2>4. Leads(jobs', u) => Ahead(u)'
    BY <2>1 DEF Ahead
  <2>5. CASE Flushed(pending) /\ NoneAfter(jobs, u) /\ NoneAfter(backlog, u) /\ ~Drains
    <3>1. pending # <<>>
      BY Zenon, <2>5, HeldEmpty DEF Flushed
    <3>2. role # "master"
      BY Zenon, <2>5, <3>1 DEF BaseInv, NothingStranded, Drains
    <3>3. new = <<>> /\ jobs \o <<>> = jobs
      BY <1>1, <2>2, <3>2
    <3> QED  BY Zenon, <2>1, <2>3, <2>5, <3>2, <3>3 DEF Ahead
  <2>6. ~Flushed(todo)
    BY Zenon, <2>1, HeldEmpty DEF Flushed
  <2> QED  BY Zenon, <2>3, <2>4, <2>5, <2>6 DEF Ahead
<1>w. CASE RunJob \/ WorkerWrite \/ WriteDirect
  <2>1. PICK x \in Marker \cup Event \cup Tick, js \in Seq(Jobs) : Writing(x, js) /\ Write(x, js) /\ Kept
    BY Zenon, <1>w, WriteCases
  <2>2. x \in Items /\ (x.kind = "checkpoint" \/ Adds(x))
    BY Zenon, <2>1, WriteLog
  <2>3. x.kind = "checkpoint" => ~IsMarker(x, {"flushed"})
    BY DEF IsMarker
  <2>4. Ahead(u)' \/ IsMarker(x, {"flushed"})
    BY Zenon, <2>1, AheadWrite
  <2> QED  BY Zenon, <2>2, <2>3, <2>4
<1>p. CASE Point \/ (FlushStarted /\ role # "master")
  <2>1. /\ UNCHANGED <<at, jobs, todo, backlog>>
        /\ pending' = pending \/ Recorded(PointActions)
    BY Zenon, <1>p, MarkFrame
  <2>2. Flushed(pending) => Flushed(pending')
    <3>1. CASE Recorded(PointActions)
      <4>1. PICK a \in PointActions : pending' = Append(pending, AMarker(a, points + 1))
        BY Zenon, <3>1 DEF Recorded
      <4>2. AMarker(a, points + 1) \in Marker
        BY <1>1 DEF AMarker, Marker, Actions, PointActions
      <4>3. \A m \in Marker : Held(Append(pending, m)) = Held(pending) \cup {m}
        BY Zenon, <1>1, HeldAppended
      <4> QED  BY Zenon, <4>1, <4>2, <4>3 DEF Flushed
    <3> QED  BY Zenon, <2>1, <3>1
  <2> QED  BY Zenon, <2>1, <2>2 DEF Ahead
<1>t. CASE role = "master" /\ (Cron \/ Close)
  <2>1. PICK last \in Marker \cup Tick : todo' = Append(pending, last)
    BY Zenon, <1>t, TakeFrame
  <2>2. /\ UNCHANGED <<jobs, backlog>>
        /\ \/ Cron /\ at = "idle" /\ at' = "cron"
           \/ Close /\ at = "stopping" /\ at' = "closing" /\ backlog = <<>>
    BY Zenon, <1>t, TakeFrame
  <2>3. at \notin {"unit", "jobs"} /\ todo = <<>>
    BY <2>2 DEF BaseInv, Stages
  <2>4. \A m \in Marker \cup Tick : Held(Append(pending, m)) = Held(pending) \cup {m}
    BY Zenon, <1>1, HeldAppended
  <2>5. Flushed(pending) => Flushed(todo')
    BY Zenon, <2>1, <2>4 DEF Flushed
  <2>6. ~Flushed(todo)
    BY Zenon, <2>3, HeldEmpty DEF Flushed
  <2> QED  BY Zenon, <2>2, <2>3, <2>5, <2>6 DEF Ahead
<1>l. CASE Load
  <2>1. gen' = gen + 1
    BY Zenon, <1>l, LoadFrame
  <2> QED  BY <1>1, <2>1
<1> QED  BY Zenon, <1>q, <1>n, <1>w, <1>p, <1>t, <1>l, NextCases DEF Point

LEMMA FlushInit == Init => FlushInv
<1> SUFFICES ASSUME Init PROVE FlushInv
  OBVIOUS
<1>1. DOMAIN log = {}
  BY DEF Init
<1> QED  BY Zenon, <1>1 DEF FlushInv, FlushMarkerFirst

\* An entry is not written past the marker of an earlier flush.
LEMMA EntryBehind ==
  ASSUME "refuse" \notin Ops, "defer" \notin Ops, BaseInv, NEW u \in Nat, Ahead(u), [Next]_vars,
         NEW x \in Items, Adds(x), x.kind = "entry"
  PROVE  x.time <= u
<1>1. log' = Append(log, Written(x)) /\ TypeInv /\ gen' = gen
  BY Zenon DEF Adds, BaseInv
<1>2. /\ log' # log /\ gen \in Nat
      /\ \A y \in Items : Adds(y) => y = x
  <2>1. Len(log') = Len(log) + 1 /\ Len(log) \in Nat /\ log'[Len(log) + 1].item = x
    BY Zenon, <1>1, Grown
  <2>2. \A y \in Items : Adds(y) => log'[Len(log) + 1].item = y
    BY Zenon, <1>1, Grown DEF Adds
  <2>3. log' # log
    BY <2>1
  <2> QED  BY Zenon, <1>1, <2>1, <2>2, <2>3, TypesOf
<1>3. CASE RunJob \/ WorkerWrite \/ WriteDirect
  <2>1. PICK y \in Marker \cup Event \cup Tick, js \in Seq(Jobs) : Writing(y, js) /\ Write(y, js) /\ Kept
    BY Zenon, <1>3, WriteCases
  <2>2. y \in Items /\ (log' = log \/ Adds(y))
    BY Zenon, <2>1, WriteLog
  <2> QED  BY Zenon, <1>2, <2>1, <2>2, AheadWrite
<1>4. CASE Point \/ (FlushStarted /\ role # "master")
  <2>1. Wipe \in Items /\ Wipe.kind = "flush" /\ (log' = log \/ Adds(Wipe))
    BY Zenon, <1>4, MarkFrame
  <2> QED  BY <1>2, <2>1
<1>5. ~Quiet /\ ~Notify /\ ~(role = "master" /\ (Cron \/ Close)) /\ ~Load
  <2>1. ~Load
    <3>1. Load => gen' = gen + 1
      BY Zenon, LoadFrame
    <3> QED  BY <1>1, <1>2, <3>1
  <2> QED  BY Zenon, <1>2, <2>1, QuietMoves, NotifyFrame, TakeFrame DEF content
<1> QED  BY Zenon, <1>3, <1>4, <1>5, NextCases DEF Point

LEMMA FlushNext ==
  ASSUME "refuse" \notin Ops, "defer" \notin Ops
  PROVE  BaseInv /\ GensInv /\ TimesInv /\ FlushInv /\ [Next]_vars => FlushInv'
<1> SUFFICES ASSUME BaseInv, GensInv, TimesInv, FlushInv, [Next]_vars PROVE FlushInv'
  OBVIOUS
<1>1. /\ TypeInv /\ gen \in Nat /\ log \in Seq(Recs) /\ points \in Nat /\ time \in Nat
      /\ pending \in Seq(Marker)
  BY Zenon, TypesOf DEF BaseInv
<1>2. FlushMarkerFirst /\ \A i \in DOMAIN log, u \in Nat : FlushAt(i, u) => Marked(i) \/ Ahead(u)
  BY Zenon DEF FlushInv
<1>3. CASE log' = log /\ gen' = gen + 1
  <2>1. \A i \in DOMAIN log : log[i].gen \in Nat
    BY Zenon, <1>1, LogTyped
  <2>2. \A i \in DOMAIN log : log[i].gen # gen + 1
    BY <1>1, <2>1 DEF GensInv
  <2>3. \A i \in DOMAIN log', u \in Nat : ~FlushAt(i, u)'
    BY Zenon, <1>3, <2>2 DEF FlushAt
  <2>4. FlushMarkerFirst'
    BY Zenon, <1>2, <1>3 DEF FlushMarkerFirst, Is, Says
  <2> QED  BY Zenon, <2>3, <2>4 DEF FlushInv
<1>4. CASE log' = log /\ gen' = gen
  <2>1. ~\E x \in Items : Adds(x)
    <3>1. \A x \in Items : Adds(x) => Len(log') = Len(log) + 1 /\ Len(log) \in Nat
      BY Zenon, <1>1, Grown DEF Adds
    <3> QED  BY <1>4, <3>1
  <2>2. \A u \in Nat : Ahead(u) => Ahead(u)'
    BY Zenon, <1>4, <2>1, AheadNext
  <2>3. FlushMarkerFirst'
    BY Zenon, <1>2, <1>4 DEF FlushMarkerFirst, Is, Says
  <2>4. \A i \in DOMAIN log, u \in Nat : /\ FlushAt(i, u)' <=> FlushAt(i, u)
                                         /\ Marked(i)' <=> Marked(i)
    BY Zenon, <1>4 DEF FlushAt, Marked, Is, Says
  <2> QED  BY Zenon, <1>2, <1>4, <2>2, <2>3, <2>4 DEF FlushInv
<1>5. ASSUME NEW x \in Items, Adds(x) PROVE FlushInv'
  <2> DEFINE n == Len(log)
  <2>1. log' = Append(log, Written(x)) /\ gen' = gen
    BY Zenon, <1>5 DEF Adds
  <2>2. /\ DOMAIN log' = DOMAIN log \cup {n + 1} /\ n \in Nat /\ n + 1 \notin DOMAIN log
        /\ DOMAIN log = 1..n
        /\ \A i \in DOMAIN log : i \in Nat /\ i < n + 1 /\ log'[i] = log[i]
        /\ log'[n + 1].item = x /\ log'[n + 1].gen = gen /\ log'[n + 1].unit = time
    BY Zenon, <1>1, <2>1, Grown
  <2> HIDE DEF n
  <2>3. \A i \in DOMAIN log : n + 1 > i
    BY <2>2
  <2>4. \A i \in DOMAIN log, u \in Nat : FlushAt(i, u)' <=> FlushAt(i, u)
    BY Zenon, <2>1, <2>2 DEF FlushAt, Is
  <2>5. \A i \in DOMAIN log : Marked(i) => Marked(i)'
    BY Zenon, <2>2 DEF Marked, Says, Is
  <2>6. IsMarker(x, {"flushed"}) => \A i \in DOMAIN log : Marked(i)'
    BY Zenon, <2>2, <2>3 DEF Marked, Says, Is, IsMarker
  <2>7. \A i \in DOMAIN log, u \in Nat : FlushAt(i, u) => Marked(i)' \/ Ahead(u)'
    <3> SUFFICES ASSUME NEW i \in DOMAIN log, NEW u \in Nat, FlushAt(i, u)
                 PROVE  Marked(i)' \/ Ahead(u)'
      OBVIOUS
    <3>1. CASE Marked(i)
      BY Zenon, <2>5, <3>1
    <3>2. CASE Ahead(u)
      <4>1. Ahead(u)' \/ \E y \in Items : Adds(y) /\ IsMarker(y, {"flushed"})
        BY Zenon, <2>1, <3>2, AheadNext
      <4>2. \A y \in Items : Adds(y) => y = x
        <5>1. \A y \in Items : Adds(y) => log'[n + 1].item = y
          BY Zenon, <1>1, Grown DEF Adds, n
        <5> QED  BY Zenon, <2>2, <5>1
      <4> QED  BY Zenon, <2>6, <4>1, <4>2
    <3> QED  BY Zenon, <1>2, <3>1, <3>2
  <2>8. \A i \in {n + 1}, u \in Nat : FlushAt(i, u)' => Ahead(u)'
    <3> SUFFICES ASSUME NEW u \in Nat, x.kind = "flush", x.by = "master", u = time PROVE Ahead(u)'
      BY Zenon, <2>2 DEF FlushAt, Is
    <3>1. FlushStarted /\ role = "master"
      <4>1. CASE RunJob \/ WorkerWrite \/ WriteDirect
        <5>1. PICK y \in Marker \cup Event \cup Tick, js \in Seq(Jobs) : Writing(y, js) /\ Write(y, js) /\ Kept
          BY Zenon, <4>1, WriteCases
        <5>2. y \in Items /\ (log' = log \/ Adds(y))
          BY Zenon, <5>1, WriteLog
        <5>3. y.kind # "flush"
          BY DEF Marker, Event, Tick
        <5>4. log' # log
          BY Zenon, <2>2
        <5>5. Adds(y) => log'[n + 1].item = y
          BY Zenon, <1>1, <5>2, Grown DEF Adds, n
        <5> QED  BY Zenon, <2>2, <5>2, <5>3, <5>4, <5>5
      <4>2. CASE Point \/ (FlushStarted /\ role # "master")
        <5>1. log' # log
          BY Zenon, <2>2
        <5>2. FlushStarted /\ log' = Append(log, Written(Wipe)) /\ Wipe \in Items
          BY Zenon, <4>2, <5>1, MarkFrame DEF Adds
        <5>3. log'[n + 1].item = Wipe
          BY Zenon, <1>1, <5>2, Grown DEF n
        <5>4. Wipe.by = role
          BY DEF Wipe
        <5> QED  BY Zenon, <2>2, <5>2, <5>3, <5>4
      <4>3. ~Quiet /\ ~Notify /\ ~(role = "master" /\ (Cron \/ Close)) /\ ~Load
        <5>1. log' # log
          BY Zenon, <2>2
        <5> QED  BY Zenon, <5>1, QuietMoves, NotifyFrame, TakeFrame, LoadFrame DEF content
      <4> QED  BY Zenon, <4>1, <4>2, <4>3, NextCases DEF Point
    <3>2. pending' = Append(pending, AMarker("flushed", points + 1)) /\ jobs' = jobs /\ backlog' = backlog
      BY <3>1 DEF FlushStarted, MarkOnMaster, Record
    <3>3. AMarker("flushed", points + 1) \in Marker /\ IsMarker(AMarker("flushed", points + 1), {"flushed"})
      BY <1>1 DEF AMarker, Marker, Actions, IsMarker
    <3>4. \A m \in Marker : Held(Append(pending, m)) = Held(pending) \cup {m}
      BY Zenon, <1>1, HeldAppended
    <3>5. Flushed(pending')
      BY Zenon, <3>2, <3>3, <3>4 DEF Flushed
    <3> QED  BY Zenon, <3>2, <3>5 DEF Ahead, TimesInv
  <2>9. FlushMarkerFirst'
    <3> SUFFICES ASSUME NEW i \in DOMAIN log', NEW k \in DOMAIN log', i < k,
                        log'[i].item.kind = "flush", log'[i].item.by = "master",
                        log'[k].item.kind = "entry", log'[k].item.time > log'[i].unit,
                        log'[k].gen = log'[i].gen
                 PROVE  \E j \in i..k : /\ log'[j].item.kind = "marker"
                                        /\ log'[j].item.action \in {"flushed"}
      BY Zenon DEF FlushMarkerFirst, Is, Says
    <3>1. i \in DOMAIN log
      BY <2>2
    <3>2. CASE k \in DOMAIN log
      <4>1. \E j \in i..k : Says(j, {"flushed"})
        BY Zenon, <1>2, <2>2, <3>1, <3>2 DEF FlushMarkerFirst, Is
      <4>2. \A j \in i..k : j \in DOMAIN log
        BY <2>2, <3>1, <3>2
      <4> QED  BY Zenon, <2>2, <4>1, <4>2 DEF Says, Is
    <3>3. CASE k = n + 1
      <4> DEFINE u == log[i].unit
      <4>1. u \in Nat /\ FlushAt(i, u)
        <5>1. u \in Nat
          BY Zenon, <1>1, <3>1, LogTyped
        <5> QED  BY Zenon, <2>2, <3>1, <3>3, <5>1 DEF FlushAt, Is
      <4>2. x.kind = "entry" /\ x.time > u
        BY Zenon, <2>2, <3>1, <3>3
      <4>3. x.time \in Nat
        BY <4>2 DEF Items, Marker, Event, Tick, Loss
      <4> HIDE DEF u
      <4>4. ~Ahead(u)
        <5>1. Ahead(u) => x.time <= u
          BY Zenon, <1>5, <4>1, <4>2, EntryBehind
        <5> QED  BY <4>1, <4>2, <4>3, <5>1
      <4>5. PICK j \in DOMAIN log : j > i /\ Says(j, {"flushed"})
        BY Zenon, <1>2, <3>1, <4>1, <4>4 DEF Marked
      <4>6. j \in i..k
        BY <2>2, <3>1, <3>3, <4>5
      <4> QED  BY Zenon, <2>2, <4>5, <4>6 DEF Says, Is
    <3> QED  BY Zenon, <2>2, <3>2, <3>3
  <2>10. \A i \in DOMAIN log', u \in Nat : FlushAt(i, u)' => Marked(i)' \/ Ahead(u)'
    BY Zenon, <2>2, <2>4, <2>7, <2>8
  <2> QED  BY Zenon, <2>9, <2>10 DEF FlushInv
<1> QED  BY Zenon, <1>3, <1>4, <1>5, LogSteps

\* The marker of a flush on the capturing master lands ahead of every entry of a later
\* execution unit of that generation, through transactions, demotions, worker batches and
\* ticks, as long as no write is refused and every job can be registered.
THEOREM FlushCorrect ==
  ASSUME "refuse" \notin Ops, "defer" \notin Ops
  PROVE  Spec => []FlushMarkerFirst
<1>1. FlushInv => FlushMarkerFirst
  BY DEF FlushInv
<1> QED  BY <1>1, BaseInit, BaseNext, GensInit, GensNext, TimesInit, TimesNext, FlushInit,
            FlushNext, PTL DEF Spec

-----------------------------------------------------------------------------
(* Capture gaps. *)

LEMMA MarkersBounded ==
  ASSUME BaseInv, OrderInv, NEW m \in AllMarkers
  PROVE  m.point \in Nat /\ m.point <= points
<1>1. PointsIn(pending) \cup Queued \cup Direct \cup Logged \subseteq 0..points
  BY Zenon DEF OrderInv, Ordered
<1>2. m.point \in PointsIn(pending) \cup Queued \cup Direct \cup Logged
  BY Zenon DEF AllMarkers, InLog, Held, PointsIn, Queued, Direct, Logged, Is
<1>3. points \in Nat
  BY Zenon, TypesOf DEF BaseInv
<1> QED  BY <1>1, <1>2, <1>3

LEMMA InLogGrown ==
  ASSUME TypeInv, NEW x \in Items, Adds(x)
  PROVE  InLog' = InLog \cup {x}
<1>1. log' = Append(log, Written(x))
  BY Zenon DEF Adds
<1>2. /\ DOMAIN log' = DOMAIN log \cup {Len(log) + 1}
      /\ \A i \in DOMAIN log : log'[i] = log[i]
      /\ log'[Len(log) + 1].item = x
  BY Zenon, <1>1, Grown
<1> QED  BY ZenonT(40), <1>2 DEF InLog

\* A marker that is recorded stays recorded until the next load, and only the switch
\* records one that says capture is on or off.
LEMMA MarkersStay ==
  ASSUME "refuse" \notin Ops, "defer" \notin Ops, BaseInv, [Next]_vars, ~Load, ~SetEnabled
  PROVE  /\ enabled' = enabled
         /\ AllMarkers \subseteq AllMarkers'
         /\ \A m \in AllMarkers' : m \in AllMarkers \/ m.action \notin {"enabled", "loaded"}
<1> DEFINE W == InLog \cup Held(jobs) \cup Held(todo) \cup Held(pending)
<1>1. /\ TypeInv /\ jobs \in Seq(Jobs) /\ pending \in Seq(Marker) /\ points \in Nat
      /\ todo \in Seq(Marker \cup Tick) /\ backlog \in Seq(Event) /\ pending \in Seq(Marker \cup Tick)
  <2>1. pending \in Seq(Marker) => pending \in Seq(Marker \cup Tick)
    <3> HIDE DEF Marker, Tick
    <3> QED  OBVIOUS
  <2> QED  BY Zenon, <2>1, TypesOf DEF BaseInv
<1>2. ASSUME NEW A, W \subseteq W' \cup A, W' \subseteq W \cup A, \A m \in A \ W' : m.kind # "marker",
             \A m \in A : m.kind # "marker" \/ m.action \notin {"enabled", "loaded"}
      PROVE  /\ AllMarkers \subseteq AllMarkers'
             /\ \A m \in AllMarkers' : m \in AllMarkers \/ m.action \notin {"enabled", "loaded"}
  <2>1. AllMarkers = {m \in W : m.kind = "marker"} /\ AllMarkers' = {m \in W' : m.kind = "marker"}
    BY Zenon DEF AllMarkers
  <2> HIDE DEF W
  <2> QED  BY Zenon, <1>2, <2>1
<1> HIDE DEF W
<1>3. ASSUME NEW A, W' = W \cup A,
             \A m \in A : m.kind # "marker" \/ m.action \notin {"enabled", "loaded"}
      PROVE  /\ AllMarkers \subseteq AllMarkers'
             /\ \A m \in AllMarkers' : m \in AllMarkers \/ m.action \notin {"enabled", "loaded"}
  <2>1. W \subseteq W' \cup A /\ W' \subseteq W \cup A /\ \A m \in A \ W' : m.kind # "marker"
    BY Zenon, <1>3
  <2> QED  BY Zenon, <1>2, <1>3, <2>1
<1>4. ASSUME W' = W
      PROVE  /\ AllMarkers \subseteq AllMarkers'
             /\ \A m \in AllMarkers' : m \in AllMarkers \/ m.action \notin {"enabled", "loaded"}
  BY Zenon, <1>4 DEF AllMarkers, W
<1>5. ASSUME NEW x, W' = W \cup {x}, x.kind # "marker" \/ x.action \notin {"enabled", "loaded"}
      PROVE  /\ AllMarkers \subseteq AllMarkers'
             /\ \A m \in AllMarkers' : m \in AllMarkers \/ m.action \notin {"enabled", "loaded"}
  BY Zenon, <1>5 DEF AllMarkers, W
<1>q. CASE Quiet
  <2>1. W' = W /\ enabled' = enabled
    BY Zenon, <1>q, QuietMoves DEF content, InLog, W
  <2> QED  BY Zenon, <1>4, <2>1
<1>n. CASE Notify
  <2>1. log' = log /\ enabled' = enabled /\ todo' = todo
    BY Zenon, <1>n, NotifyFrame
  <2>2. PICK new \in Seq(Event) : Step0(jobs, new)
    BY Zenon, <1>n, NotifyFrame
  <2>3. Held(jobs') \cup Held(pending') = Held(jobs) \cup Held(pending) \cup Held(new)
    BY Zenon, <1>1, <2>2, Step0Held
  <2>4. \A m \in Held(new) : m.kind # "marker"
    <3>1. Held(new) \subseteq Event
      BY Zenon, HeldIn
    <3>2. \A e \in Event : e.kind # "marker"
      BY DEF Event
    <3> QED  BY Zenon, <3>1, <3>2
  <2>5. W' = W \cup Held(new)
    BY Zenon, <2>1, <2>3 DEF InLog, W
  <2> QED  BY Zenon, <1>3, <2>1, <2>4, <2>5
<1>w. CASE RunJob \/ WorkerWrite \/ WriteDirect
  <2>1. PICK x \in Marker \cup Event \cup Tick, js \in Seq(Jobs) : Writing(x, js) /\ Write(x, js) /\ Kept
    BY Zenon, <1>w, WriteCases
  <2>2. x \in Items /\ ((log' = log /\ x.kind = "checkpoint") \/ Adds(x))
    BY Zenon, <2>1, WriteLog
  <2>3. Held(jobs') \cup Held(pending') = Held(js) \cup Held(pending)
    BY Zenon, <1>1, <2>1, WriteHeld
  <2>4. enabled' = enabled
    BY Zenon, <2>1 DEF Kept
  <2>5. \/ Held(jobs) \cup Held(todo) = Held(js) \cup Held(todo') \cup {x}
        \/ Held(jobs) \cup Held(todo) = Held(js) \cup Held(todo') /\ x.kind = "entry"
    <3>1. CASE at \in {"jobs", "unloaded"}
      <4>1. jobs # <<>> /\ x = Head(jobs) /\ js = Tail(jobs) /\ todo' = todo
        BY <2>1, <3>1 DEF Writing
      <4>2. Held(jobs) = {Head(jobs)} \cup Held(Tail(jobs))
        BY Zenon, <1>1, <4>1, HeldTail
      <4> QED  BY Zenon, <4>1, <4>2
    <3>2. CASE at \in {"worker", "stopping"}
      <4>1. backlog # <<>> /\ x = Head(backlog) /\ js = jobs /\ todo' = todo
        BY <2>1, <3>2 DEF Writing
      <4>2. x \in Event
        BY Zenon, <1>1, <4>1, Headed
      <4>3. x.kind = "entry"
        BY <4>2 DEF Event
      <4> QED  BY Zenon, <4>1, <4>3
    <3>3. CASE at \in {"cron", "closing"}
      <4>1. todo # <<>> /\ x = Head(todo) /\ js = jobs /\ todo' = Tail(todo)
        BY <2>1, <3>3 DEF Writing
      <4>2. Held(todo) = {Head(todo)} \cup Held(Tail(todo))
        BY Zenon, <1>1, <4>1, HeldTail
      <4> QED  BY Zenon, <4>1, <4>2
    <3> QED  BY Zenon, <2>1, <3>1, <3>2, <3>3 DEF Writing
  <2>6. CASE Adds(x)
    <3>1. InLog' = InLog \cup {x}
      BY Zenon, <1>1, <2>2, <2>6, InLogGrown
    <3>2. CASE Held(jobs) \cup Held(todo) = Held(js) \cup Held(todo') \cup {x}
      <4>1. W' = W
        BY Zenon, <2>3, <3>1, <3>2 DEF W
      <4> QED  BY Zenon, <1>4, <2>4, <4>1
    <3>3. CASE Held(jobs) \cup Held(todo) = Held(js) \cup Held(todo') /\ x.kind = "entry"
      <4>1. W' = W \cup {x}
        BY Zenon, <2>3, <3>1, <3>3 DEF W
      <4>2. x.kind # "marker"
        BY <3>3
      <4> QED  BY Zenon, <1>5, <2>4, <4>1, <4>2
    <3> QED  BY Zenon, <2>5, <3>2, <3>3
  <2>7. CASE log' = log /\ x.kind = "checkpoint"
    <3>1. InLog' = InLog /\ x.kind # "marker"
      BY <2>7 DEF InLog
    <3>2. W \subseteq W' \cup {x} /\ W' \subseteq W \cup {x}
      BY Zenon, <2>3, <2>5, <3>1 DEF W
    <3>3. /\ \A m \in {x} \ W' : m.kind # "marker"
          /\ \A m \in {x} : m.kind # "marker" \/ m.action \notin {"enabled", "loaded"}
      BY Zenon, <3>1
    <3> QED  BY ZenonT(40), <1>2, <2>4, <3>2, <3>3
  <2> QED  BY Zenon, <2>2, <2>6, <2>7
<1>p. CASE (Point \/ (FlushStarted /\ role # "master")) /\ ~SetEnabled
  <2>1. /\ UNCHANGED <<jobs, todo>> /\ Wipe \in Items /\ Wipe.kind = "flush"
        /\ log' = log \/ Adds(Wipe)
    BY Zenon, <1>p, MarkFrame
  <2>2. /\ enabled' = enabled
        /\ \/ pending' = pending
           \/ \E a \in {"flushed", "swapdb"} : pending' = Append(pending, AMarker(a, points + 1))
    <3>1. CASE SwapDb
      BY <3>1 DEF SwapDb, MarkOnMaster, Record
    <3>2. CASE FlushStarted
      BY <3>2 DEF FlushStarted, MarkOnMaster, Record
    <3> QED  BY Zenon, <1>p, <3>1, <3>2 DEF Point
  <2> DEFINE A == Held(pending') \ Held(pending)
  <2>4. /\ Held(pending') = Held(pending) \cup A
        /\ \A m \in A : m.action \notin {"enabled", "loaded"}
    <3>1. CASE pending' = pending
      BY Zenon, <3>1
    <3>2. ASSUME NEW a \in {"flushed", "swapdb"}, pending' = Append(pending, AMarker(a, points + 1))
          PROVE  /\ Held(pending') = Held(pending) \cup A
                 /\ \A m \in A : m.action \notin {"enabled", "loaded"}
      <4>1. AMarker(a, points + 1) \in Marker /\ AMarker(a, points + 1).action \notin {"enabled", "loaded"}
        BY <1>1 DEF AMarker, Marker, Actions
      <4>2. \A m \in Marker : Held(Append(pending, m)) = Held(pending) \cup {m}
        BY Zenon, <1>1, HeldAppended
      <4>3. Held(pending') = Held(pending) \cup {AMarker(a, points + 1)}
        BY Zenon, <3>2, <4>1, <4>2
      <4>4. A \subseteq {AMarker(a, points + 1)} /\ Held(pending') = Held(pending) \cup A
        BY Zenon, <4>3
      <4> QED  BY Zenon, <4>1, <4>4
    <3> QED  BY Zenon, <2>2, <3>1, <3>2
  <2> HIDE DEF A
  <2>5. CASE log' = log
    <3>1. W' = W \cup A
      BY Zenon, <2>1, <2>4, <2>5 DEF InLog, W
    <3> QED  BY Zenon, <1>3, <2>2, <2>4, <3>1
  <2>6. CASE Adds(Wipe)
    <3>1. InLog' = InLog \cup {Wipe} /\ Wipe.kind # "marker"
      <4>1. Wipe.kind # "marker"
        BY <2>1
      <4> QED  BY Zenon, <1>1, <2>1, <2>6, <4>1, InLogGrown
    <3>2. W' = W \cup (A \cup {Wipe})
      BY Zenon, <2>1, <2>4, <3>1 DEF W
    <3>3. \A m \in A \cup {Wipe} : m.kind # "marker" \/ m.action \notin {"enabled", "loaded"}
      BY Zenon, <2>4, <3>1
    <3> QED  BY Zenon, <1>3, <2>2, <3>2, <3>3
  <2> QED  BY Zenon, <2>1, <2>5, <2>6
<1>t. CASE role = "master" /\ (Cron \/ Close)
  <2>1. PICK last \in Marker \cup Tick :
             /\ todo' = Append(pending, last)
             /\ \/ Cron /\ last = Checkpoint /\ points' = points
                \/ Close /\ last = AMarker("unloading", points + 1) /\ points' = points + 1
    BY Zenon, <1>t, TakeFrame
  <2>2. /\ UNCHANGED <<jobs, log, enabled>> /\ pending' = <<>>
        /\ \/ Cron /\ at = "idle" /\ at' = "cron"
           \/ Close /\ at = "stopping" /\ at' = "closing" /\ backlog = <<>>
    BY Zenon, <1>t, TakeFrame
  <2>3. todo = <<>>
    BY <2>2 DEF BaseInv, Stages
  <2>4. \A m \in Marker \cup Tick : Held(Append(pending, m)) = Held(pending) \cup {m}
    BY Zenon, <1>1, HeldAppended
  <2>5. W' = W \cup {last}
    BY ZenonT(40), <2>1, <2>2, <2>3, <2>4, HeldEmpty DEF InLog, W
  <2>6. last.kind # "marker" \/ last.action \notin {"enabled", "loaded"}
    BY <2>1 DEF Checkpoint, AMarker
  <2> QED  BY Zenon, <1>5, <2>2, <2>5, <2>6
<1> QED  BY Zenon, <1>q, <1>n, <1>w, <1>p, <1>t, NextCases DEF Point

LEMMA OffInit == Init => OffInv
BY DEF Init, OffInv

LEMMA OffNext ==
  ASSUME "refuse" \notin Ops, "defer" \notin Ops
  PROVE  BaseInv /\ OrderInv /\ OffInv /\ [Next]_vars => OffInv'
<1> SUFFICES ASSUME BaseInv, OrderInv, OffInv, [Next]_vars, ~enabled'
             PROVE  (\E m \in AllMarkers : LastOff(m))'
  BY Zenon DEF OffInv
<1>1. /\ TypeInv /\ points \in Nat /\ enabled \in BOOLEAN /\ pending \in Seq(Marker)
      /\ \A m \in AllMarkers : m.point \in Nat /\ m.point <= points
  BY Zenon, TypesOf, MarkersBounded DEF BaseInv
<1>2. CASE ~Load /\ ~SetEnabled
  <2>1. /\ enabled' = enabled /\ AllMarkers \subseteq AllMarkers'
        /\ \A m \in AllMarkers' : m \in AllMarkers \/ m.action \notin {"enabled", "loaded"}
    BY Zenon, <1>2, MarkersStay
  <2>2. PICK m \in AllMarkers : LastOff(m)
    BY Zenon, <2>1 DEF OffInv
  <2>3. \A k \in AllMarkers' : k.action \in {"enabled", "loaded"} => k.point < m.point
    BY Zenon, <2>1, <2>2 DEF LastOff
  <2> QED  BY Zenon, <2>1, <2>2, <2>3 DEF LastOff
<1>3. CASE SetEnabled
  <2> DEFINE d == AMarker("disabled", points + 1)
  <2>1. /\ enabled' = ~enabled /\ UNCHANGED <<jobs, todo, log>>
        /\ pending' = Append(pending, AMarker(IF enabled THEN "disabled" ELSE "enabled", points + 1))
    BY Zenon, <1>3 DEF SetEnabled, Record
  <2>2. pending' = Append(pending, d)
    BY Zenon, <1>1, <2>1
  <2>3. /\ d \in Marker /\ d.kind = "marker" /\ d.action = "disabled" /\ d.point = points + 1
        /\ d.action \notin {"enabled", "loaded"}
    BY <1>1 DEF AMarker, Marker, Actions
  <2> HIDE DEF d
  <2>4. \A m \in Marker : Held(Append(pending, m)) = Held(pending) \cup {m}
    BY Zenon, <1>1, HeldAppended
  <2>5. Held(pending') = Held(pending) \cup {d}
    BY Zenon, <2>2, <2>3, <2>4
  <2>6. d \in AllMarkers' /\ \A m \in AllMarkers' : m \in AllMarkers \/ m = d
    BY Zenon, <2>1, <2>3, <2>5 DEF AllMarkers, InLog
  <2>7. \A m \in AllMarkers : m.point < d.point
    BY <1>1, <2>3
  <2> QED  BY Zenon, <2>3, <2>6, <2>7 DEF LastOff
<1>4. CASE Load
  <2> DEFINE l == AMarker("loaded", points + 1)
             d == AMarker("disabled", points + 2)
  <2>1. pending' = <<l, d>> /\ UNCHANGED <<jobs, todo, log>>
    BY Zenon, <1>4, LoadFrame
  <2>2. /\ d.kind = "marker" /\ d.action = "disabled" /\ d.point = points + 2
        /\ d.action \notin {"enabled", "loaded"} /\ l.point = points + 1
    BY DEF AMarker
  <2> HIDE DEF d, l
  <2>3. Held(pending') = {l, d}
    BY <2>1 DEF Held
  <2>4. d \in AllMarkers' /\ \A m \in AllMarkers' : m \in AllMarkers \/ m = d \/ m = l
    BY Zenon, <2>1, <2>2, <2>3 DEF AllMarkers, InLog
  <2>5. l.point < d.point /\ \A m \in AllMarkers : m.point < d.point
    BY <1>1, <2>2
  <2> QED  BY Zenon, <2>2, <2>4, <2>5 DEF LastOff
<1> QED  BY Zenon, <1>2, <1>3, <1>4

\* A window stays one: what is written later is not before the event.
LEMMA WindowStays ==
  ASSUME TypeInv, NEW u \in Nat, u <= time, Window(u),
         log' = log \/ \E x \in Items : Adds(x)
  PROVE  Window(u)'
<1>1. PICK i \in DOMAIN log :
        /\ Says(i, {"disabled"}) /\ log[i].unit <= u
        /\ \A j \in DOMAIN log : (j > i /\ Says(j, {"enabled", "loaded"})) => log[j].unit >= u
  BY Zenon DEF Window
<1>2. CASE log' = log
  BY Zenon, <1>2 DEF Window, Says, Is
<1>3. ASSUME NEW x \in Items, Adds(x) PROVE Window(u)'
  <2>1. log' = Append(log, Written(x))
    BY Zenon, <1>3 DEF Adds
  <2>2. /\ DOMAIN log' = DOMAIN log \cup {Len(log) + 1}
        /\ \A j \in DOMAIN log : log'[j] = log[j]
        /\ log'[Len(log) + 1].unit = time
    BY Zenon, <2>1, Grown
  <2>3. time >= u
    BY TypesOf
  <2>4. \A j \in DOMAIN log' :
          (j > i /\ log'[j].item.kind = "marker" /\ log'[j].item.action \in {"enabled", "loaded"})
            => log'[j].unit >= u
    BY Zenon, <1>1, <2>2, <2>3 DEF Says, Is
  <2> QED  BY Zenon, <1>1, <2>2, <2>4 DEF Window, Says, Is
<1> QED  BY Zenon, <1>2, <1>3

\* The jobs of a command write its `disabled` marker before the command is over.
LEMMA SoonNext ==
  ASSUME "refuse" \notin Ops, "defer" \notin Ops, BaseInv, NEW u \in Nat, Soon(u), [Next]_vars
  PROVE  Window(u)' \/ Soon(u)'
<1>1. /\ TypeInv /\ jobs \in Seq(Jobs) /\ pending \in Seq(Marker) /\ time \in Nat
      /\ u = time /\ at \in {"unit", "jobs"}
  BY Zenon, TypesOf DEF BaseInv, Soon
<1>2. PICK m \in Held(jobs) : IsMarker(m, {"disabled"})
  BY Zenon DEF Soon
<1>3. jobs # <<>>
  BY Zenon, <1>2, HeldEmpty
<1>4. ASSUME at' \in {"unit", "jobs"}, time' = time, m \in Held(jobs') PROVE Soon(u)'
  BY Zenon, <1>1, <1>2, <1>4 DEF Soon
<1>q. CASE Quiet
  <2>1. UNCHANGED <<jobs, time>> /\ Moves
    BY Zenon, <1>q, QuietMoves DEF content
  <2>2. at' \in {"unit", "jobs"}
    BY <1>1, <1>3, <2>1 DEF Moves
  <2> QED  BY Zenon, <1>2, <1>4, <2>1, <2>2
<1>n. CASE Notify
  <2>1. at' \in {"unit", "jobs"} /\ time' = time
    <3>1. at \in {"idle", "unit"} /\ at' = "unit" /\ time' = Unit /\ (at = "unit" => Unit = time)
      BY Zenon, <1>n, NotifyFrame
    <3> QED  BY <1>1, <3>1
  <2>2. PICK new \in Seq(Event) : Step0(jobs, new)
    BY Zenon, <1>n, NotifyFrame
  <2>3. Held(jobs) \subseteq Held(jobs')
    <3>1. \/ jobs' = jobs \o new
          \/ jobs' = (jobs \o pending) \o new
      BY Zenon, <1>1, <2>2, Step0Cases
    <3>2. new \in Seq(Jobs) /\ jobs \o pending \in Seq(Jobs) /\ pending \in Seq(Jobs)
      BY Zenon, <1>1, <2>2, Step0Cases, Joined
    <3>3. \A s, t \in Seq(Jobs) : Held(s \o t) = Held(s) \cup Held(t)
      BY Zenon, HeldJoined
    <3>4. Held(jobs \o new) = Held(jobs) \cup Held(new) /\ Held(jobs \o pending) = Held(jobs) \cup Held(pending)
      BY Zenon, <1>1, <3>2, <3>3
    <3>5. Held((jobs \o pending) \o new) = Held(jobs \o pending) \cup Held(new)
      BY Zenon, <3>2, <3>3
    <3> QED  BY Zenon, <3>1, <3>4, <3>5
  <2> QED  BY Zenon, <1>2, <1>4, <2>1, <2>3
<1>w. CASE RunJob \/ WorkerWrite \/ WriteDirect
  <2>1. PICK x \in Marker \cup Event \cup Tick, js \in Seq(Jobs) : Writing(x, js) /\ Write(x, js) /\ Kept
    BY Zenon, <1>w, WriteCases
  <2>2. jobs # <<>> /\ x = Head(jobs) /\ js = Tail(jobs)
    BY <1>1, <2>1 DEF Writing
  <2>3. Held(jobs) = {Head(jobs)} \cup Held(Tail(jobs))
    BY Zenon, <1>1, <2>2, HeldTail
  <2>4. x \in Items /\ (x.kind = "checkpoint" \/ Adds(x)) /\ at' = at /\ time' = time
    BY Zenon, <2>1, WriteLog DEF Kept
  <2>5. CASE m = x
    <3>1. x.kind # "checkpoint"
      BY <1>2, <2>5 DEF IsMarker
    <3>2. log' = Append(log, Written(x))
      BY Zenon, <2>4, <3>1 DEF Adds
    <3>3. /\ DOMAIN log' = 1..(Len(log) + 1) /\ Len(log) \in Nat
          /\ log'[Len(log) + 1].item = x /\ log'[Len(log) + 1].unit = time
      BY Zenon, <1>1, <2>4, <3>2, Grown
    <3> DEFINE n == Len(log) + 1
    <3>4. /\ n \in DOMAIN log' /\ time <= u
          /\ \A j \in DOMAIN log' : ~(j > n)
      BY <1>1, <3>3
    <3> HIDE DEF n
    <3>5. /\ log'[n].item.kind = "marker" /\ log'[n].item.action \in {"disabled"} /\ log'[n].unit <= u
      BY Zenon, <1>2, <2>5, <3>3, <3>4 DEF IsMarker, n
    <3> QED  BY Zenon, <3>4, <3>5 DEF Window, Says, Is
  <2>6. CASE m # x
    <3>1. m \in Held(js)
      BY Zenon, <1>2, <2>2, <2>3, <2>6
    <3>2. Step0(js, <<>>) /\ <<>> \in Seq(Event)
      BY Zenon, <2>1, SMT DEF Write
    <3>3. \/ jobs' = js \o <<>>
          \/ jobs' = (js \o pending) \o <<>>
      BY Zenon, <1>1, <3>2, Step0Cases
    <3>4. <<>> \in Seq(Jobs) /\ js \o pending \in Seq(Jobs) /\ pending \in Seq(Jobs)
      BY Zenon, <1>1, <3>2, Step0Cases, Joined
    <3>5. \A s, t \in Seq(Jobs) : Held(s \o t) = Held(s) \cup Held(t)
      BY Zenon, HeldJoined
    <3>6. /\ Held(js \o <<>>) = Held(js) \cup Held(<<>>)
          /\ Held(js \o pending) = Held(js) \cup Held(pending)
          /\ Held((js \o pending) \o <<>>) = Held(js \o pending) \cup Held(<<>>)
      BY Zenon, <3>4, <3>5
    <3>7. m \in Held(jobs')
      BY Zenon, <3>1, <3>3, <3>6
    <3> QED  BY Zenon, <1>1, <1>4, <2>4, <3>7
  <2> QED  BY Zenon, <2>5, <2>6
<1>p. CASE Point \/ (FlushStarted /\ role # "master")
  <2>1. UNCHANGED <<at, jobs, time>>
    BY Zenon, <1>p, MarkFrame
  <2> QED  BY Zenon, <1>1, <1>2, <1>4, <2>1
<1>t. CASE role = "master" /\ (Cron \/ Close)
  <2>1. \/ Cron /\ at = "idle" /\ at' = "cron"
        \/ Close /\ at = "stopping" /\ at' = "closing" /\ backlog = <<>>
    BY Zenon, <1>t, TakeFrame
  <2> QED  BY <1>1, <2>1
<1>l. CASE Load
  <2>1. at = "unloaded"
    BY Zenon, <1>l, LoadFrame
  <2> QED  BY <1>1, <2>1
<1> QED  BY Zenon, <1>q, <1>n, <1>w, <1>p, <1>t, <1>l, NextCases DEF Point

\* An event a disabled master does not capture lies in an open window.
LEMMA MissedSoon ==
  ASSUME "defer" \notin Ops, BaseInv, OrderInv, TimesInv, OffInv, Notify, ~enabled, role = "master",
         NEW u \in Nat, u = Unit
  PROVE  Window(u)' \/ Soon(u)'
<1>1. /\ TypeInv /\ jobs \in Seq(Jobs) /\ pending \in Seq(Marker) /\ time \in Nat
      /\ log \in Seq(Recs)
  BY Zenon, TypesOf DEF BaseInv
<1>2. /\ at' = "unit" /\ time' = u /\ time <= u /\ todo = <<>> /\ log' = log
  BY Zenon, NotifyFrame
<1>3. PICK new \in Seq(Event) : Step0(jobs, new)
  BY Zenon, NotifyFrame
<1>4. PICK m \in AllMarkers : LastOff(m)
  BY Zenon DEF OffInv
<1>5. IsMarker(m, {"disabled"})
  BY Zenon, <1>4 DEF AllMarkers, LastOff, IsMarker
<1>6. CASE m \in Held(jobs) \cup Held(pending)
  <2>1. Held(jobs') \cup Held(pending') = Held(jobs) \cup Held(pending) \cup Held(new)
    BY Zenon, <1>1, <1>3, Step0Held
  <2>2. m \in Held(jobs')
    <3>1. CASE Drains
      <4>1. Held(pending') = {}
        BY Zenon, <1>1, <1>3, <3>1, Step0Cases, HeldEmpty
      <4> QED  BY Zenon, <1>6, <2>1, <4>1
    <3>2. CASE ~Drains
      <4>1. pending = <<>>
        BY Zenon, <3>2 DEF Drains, BaseInv, NothingStranded
      <4>2. Held(pending) = {} /\ Held(pending') = {}
        BY Zenon, <1>1, <1>3, <4>1, Step0Held, HeldEmpty
      <4> QED  BY Zenon, <1>6, <2>1, <4>2
    <3> QED  BY Zenon, <3>1, <3>2
  <2>3. at' \in {"unit", "jobs"}
    BY <1>2
  <2> QED  BY Zenon, <1>2, <1>5, <2>2, <2>3 DEF Soon
<1>7. CASE m \in InLog
  <2>1. PICK i \in DOMAIN log : log[i].item = m
    BY Zenon, <1>7 DEF InLog
  <2>2. Says(i, {"disabled"}) /\ log[i].unit <= u
    <3>1. log[i].unit \in Nat /\ log[i].unit <= time
      BY Zenon, <1>1, <2>1, LogTyped DEF TimesInv
    <3>2. log[i].unit <= u
      BY <1>1, <1>2, <3>1
    <3> QED  BY Zenon, <1>5, <2>1, <3>2 DEF Says, Is, IsMarker
  <2>3. ASSUME NEW j \in DOMAIN log, j > i, Says(j, {"enabled", "loaded"}) PROVE FALSE
    <3>1. log[j].item \in AllMarkers
      BY Zenon, <2>3 DEF AllMarkers, InLog, Says, Is
    <3>2. log[j].item.point < m.point
      BY Zenon, <1>4, <2>3, <3>1 DEF LastOff, Says
    <3>3. i < j
      BY <1>1, <2>3
    <3>4. m.point < log[j].item.point
      <4>1. ~Says(i, {"unloading"})
        BY <2>2 DEF Says
      <4> QED  BY Zenon, <2>1, <2>2, <2>3, <3>3, <4>1 DEF OrderInv, MarkersInOrder, Says
    <3>5. m.point \in Nat /\ log[j].item.point \in Nat
      BY Zenon, <3>1, MarkersBounded
    <3> QED  BY <3>2, <3>4, <3>5
  <2> QED  BY Zenon, <1>2, <2>2, <2>3 DEF Window, Says, Is
<1>8. m \notin Held(todo)
  BY Zenon, <1>2, HeldEmpty
<1> QED  BY Zenon, <1>6, <1>7, <1>8 DEF AllMarkers

LEMMA GapInit == Init => GapInv
<1> SUFFICES ASSUME Init PROVE GapInv
  OBVIOUS
<1>1. missed = {}
  BY DEF Init
<1> QED  BY Zenon, <1>1, OffInit DEF GapInv

LEMMA GapNext ==
  ASSUME "refuse" \notin Ops, "defer" \notin Ops
  PROVE  BaseInv /\ OrderInv /\ TimesInv /\ GapInv /\ [Next]_vars => GapInv'
<1> SUFFICES ASSUME BaseInv, OrderInv, TimesInv, GapInv, [Next]_vars PROVE GapInv'
  OBVIOUS
<1>1. TypeInv /\ time \in Nat /\ missed \subseteq Nat
  BY Zenon, TypesOf DEF BaseInv
<1>2. OffInv /\ OffInv'
  BY Zenon, OffNext DEF GapInv
<1>3. time' \in Nat /\ time <= time' /\ (missed' = missed \/ (Notify /\ missed' = missed \cup {Unit}
                                                           /\ ~enabled /\ role = "master" /\ time' = Unit))
  <2>1. CASE Notify
    BY Zenon, <2>1, NotifyFrame
  <2>2. CASE time' = time /\ missed' = missed
    BY <1>1, <2>2
  <2>3. CASE Quiet
    BY Zenon, <2>2, <2>3, QuietMoves DEF content
  <2>4. CASE RunJob \/ WorkerWrite \/ WriteDirect
    BY Zenon, <2>2, <2>4, WriteCases DEF Kept
  <2>5. CASE Point \/ (FlushStarted /\ role # "master")
    BY Zenon, <2>2, <2>5, MarkFrame
  <2>6. CASE role = "master" /\ (Cron \/ Close)
    BY Zenon, <2>2, <2>6, TakeFrame
  <2>7. CASE Load
    BY Zenon, <2>2, <2>7, LoadFrame
  <2> QED  BY Zenon, <2>1, <2>3, <2>4, <2>5, <2>6, <2>7, NextCases DEF Point
<1>4. log' = log \/ \E x \in Items : Adds(x)
  BY Zenon, LogSteps
<1>5. ASSUME NEW u \in missed PROVE u <= time' /\ (Window(u)' \/ Soon(u)')
  <2>1. u \in Nat /\ u <= time /\ (Window(u) \/ Soon(u))
    BY Zenon, <1>1 DEF GapInv
  <2>2. u <= time'
    BY <1>1, <1>3, <2>1
  <2>3. CASE Window(u)
    BY Zenon, <1>1, <1>4, <2>1, <2>2, <2>3, WindowStays
  <2>4. CASE Soon(u)
    BY Zenon, <2>1, <2>2, <2>4, SoonNext
  <2> QED  BY Zenon, <2>1, <2>3, <2>4
<1>6. ASSUME Notify, ~enabled, role = "master", time' = Unit, NEW u, u = Unit
      PROVE  u <= time' /\ (Window(u)' \/ Soon(u)')
  <2>1. u \in Nat /\ u <= time'
    BY <1>3, <1>6
  <2> QED  BY Zenon, <1>2, <1>6, <2>1, MissedSoon
<1>7. \A u \in missed' : u <= time' /\ (Window(u)' \/ Soon(u)')
  <2> TAKE u \in missed'
  <2>1. CASE u \in missed
    BY Zenon, <1>5, <2>1
  <2>2. CASE u \notin missed
    <3>1. Notify /\ ~enabled /\ role = "master" /\ time' = Unit /\ u = Unit
      BY <1>3, <2>2
    <3> QED  BY Zenon, <1>6, <3>1
  <2> QED  BY Zenon, <2>1, <2>2
<1> QED  BY Zenon, <1>2, <1>7 DEF GapInv

\* A load has its own marker pending.
LEMMA LoadWaits ==
  ASSUME BaseInv, Load
  PROVE  Waits'
<1> DEFINE l == AMarker("loaded", points + 1)
           d == AMarker("disabled", points + 2)
<1>1. pending' = <<l>> \/ pending' = <<l, d>>
  BY Zenon, LoadFrame
<1>2. IsMarker(l, Tells)
  BY DEF AMarker, IsMarker, Tells
<1> HIDE DEF l, d
<1>3. l \in Held(pending')
  <2>1. Held(<<l>>) = {l} /\ Held(<<l, d>>) = {l, d}
    BY DEF Held
  <2> QED  BY Zenon, <1>1, <2>1
<1> QED  BY Zenon, <1>2, <1>3 DEF Waits

LEMMA WaitsNext ==
  ASSUME "refuse" \notin Ops, "defer" \notin Ops, BaseInv, [Next]_vars, Waits
  PROVE  Waits' \/ \E x \in Items : Adds(x) /\ IsMarker(x, Tells)
<1>1. /\ TypeInv /\ jobs \in Seq(Jobs) /\ pending \in Seq(Marker) /\ points \in Nat
      /\ todo \in Seq(Marker \cup Tick) /\ pending \in Seq(Marker \cup Tick)
  <2>1. pending \in Seq(Marker) => pending \in Seq(Marker \cup Tick)
    <3> HIDE DEF Marker, Tick
    <3> QED  OBVIOUS
  <2> QED  BY Zenon, <2>1, TypesOf DEF BaseInv
<1>2. PICK m \in Held(pending) \cup Held(jobs) \cup Held(todo) : IsMarker(m, Tells)
  BY Zenon DEF Waits
<1>3. ASSUME m \in Held(pending') \cup Held(jobs') \cup Held(todo') PROVE Waits'
  BY Zenon, <1>2, <1>3 DEF Waits
<1>q. CASE Quiet
  BY Zenon, <1>2, <1>3, <1>q, QuietMoves DEF content
<1>n. CASE Notify
  <2>1. PICK new \in Seq(Event) : Step0(jobs, new)
    BY Zenon, <1>n, NotifyFrame
  <2>2. todo' = todo
    BY Zenon, <1>n, NotifyFrame
  <2>3. Held(jobs') \cup Held(pending') = Held(jobs) \cup Held(pending) \cup Held(new)
    BY Zenon, <1>1, <2>1, Step0Held
  <2> QED  BY Zenon, <1>2, <1>3, <2>2, <2>3
<1>w. CASE RunJob \/ WorkerWrite \/ WriteDirect
  <2>1. PICK x \in Marker \cup Event \cup Tick, js \in Seq(Jobs) : Writing(x, js) /\ Write(x, js) /\ Kept
    BY Zenon, <1>w, WriteCases
  <2>2. x \in Items /\ (x.kind = "checkpoint" \/ Adds(x))
    BY Zenon, <2>1, WriteLog
  <2>3. Held(jobs') \cup Held(pending') = Held(js) \cup Held(pending)
    BY Zenon, <1>1, <2>1, WriteHeld
  <2>4. Held(jobs) \subseteq Held(js) \cup {x} /\ Held(todo) \subseteq Held(todo') \cup {x}
    <3>1. jobs # <<>> => Held(jobs) = {Head(jobs)} \cup Held(Tail(jobs))
      BY Zenon, <1>1, HeldTail
    <3>2. todo # <<>> => Held(todo) = {Head(todo)} \cup Held(Tail(todo))
      BY Zenon, <1>1, HeldTail
    <3> QED  BY Zenon, <2>1, <3>1, <3>2 DEF Writing
  <2>5. CASE m = x
    <3>1. x.kind # "checkpoint"
      BY <1>2, <2>5 DEF IsMarker
    <3> QED  BY Zenon, <1>2, <2>2, <2>5, <3>1
  <2>6. CASE m # x
    BY Zenon, <1>2, <1>3, <2>3, <2>4, <2>6
  <2> QED  BY Zenon, <2>5, <2>6
<1>p. CASE Point \/ (FlushStarted /\ role # "master")
  <2>1. /\ UNCHANGED <<jobs, todo>>
        /\ pending' = pending \/ Recorded(PointActions)
    BY Zenon, <1>p, MarkFrame
  <2>2. Held(pending) \subseteq Held(pending')
    <3>1. CASE Recorded(PointActions)
      <4>1. PICK a \in PointActions : pending' = Append(pending, AMarker(a, points + 1))
        BY Zenon, <3>1 DEF Recorded
      <4>2. AMarker(a, points + 1) \in Marker
        BY <1>1 DEF AMarker, Marker, Actions, PointActions
      <4>3. \A k \in Marker : Held(Append(pending, k)) = Held(pending) \cup {k}
        BY Zenon, <1>1, HeldAppended
      <4> QED  BY Zenon, <4>1, <4>2, <4>3
    <3> QED  BY Zenon, <2>1, <3>1
  <2> QED  BY Zenon, <1>2, <1>3, <2>1, <2>2
<1>t. CASE role = "master" /\ (Cron \/ Close)
  <2>1. PICK last \in Marker \cup Tick : todo' = Append(pending, last)
    BY Zenon, <1>t, TakeFrame
  <2>2. jobs' = jobs /\ at \in {"idle", "stopping"}
    BY Zenon, <1>t, TakeFrame
  <2>3. todo = <<>>
    BY <2>2 DEF BaseInv, Stages
  <2>4. \A k \in Marker \cup Tick : Held(Append(pending, k)) = Held(pending) \cup {k}
    BY Zenon, <1>1, HeldAppended
  <2> QED  BY Zenon, <1>2, <1>3, <2>1, <2>2, <2>3, <2>4, HeldEmpty
<1>l. CASE Load
  BY Zenon, <1>l, LoadWaits
<1> QED  BY Zenon, <1>q, <1>n, <1>w, <1>p, <1>t, <1>l, NextCases DEF Point

LEMMA ToldInit == Init => ToldInv
<1> SUFFICES ASSUME Init PROVE ToldInv
  OBVIOUS
<1>1. DOMAIN log = {}
  BY DEF Init
<1> QED  BY Zenon, <1>1 DEF ToldInv

\* A flush on a master leaves its marker behind; on a replica it leaves nothing.
LEMMA WipeWaits ==
  ASSUME BaseInv, [Next]_vars, NEW x \in Items, Adds(x), x.kind = "flush", x.by = "master"
  PROVE  Waits'
<1>1. TypeInv /\ points \in Nat /\ pending \in Seq(Marker)
  BY Zenon, TypesOf DEF BaseInv
<1>2. /\ log' # log
      /\ \A y \in Items : Adds(y) => y = x
  <2>1. /\ Len(log') = Len(log) + 1 /\ Len(log) \in Nat
        /\ \A y \in Items : Adds(y) => log'[Len(log) + 1].item = y
    BY Zenon, <1>1, Grown DEF Adds
  <2>2. log' # log
    BY <2>1
  <2> QED  BY Zenon, <2>1, <2>2
<1>3. CASE RunJob \/ WorkerWrite \/ WriteDirect
  <2>1. PICK y \in Marker \cup Event \cup Tick, js \in Seq(Jobs) : Write(y, js) /\ Kept
    BY Zenon, <1>3, WriteCases
  <2>2. y \in Items /\ Loss \in Items /\ (log' = log \/ Adds(y) \/ Adds(Loss))
    BY Zenon, <2>1, WriteLog
  <2>3. y.kind # "flush" /\ Loss.kind # "flush"
    BY DEF Marker, Event, Tick, Loss
  <2> QED  BY Zenon, <1>2, <2>2, <2>3
<1>4. CASE Notify
  <2>1. Loss \in Items /\ Loss.kind # "flush"
    BY DEF Loss, Items
  <2> QED  BY Zenon, <1>2, <1>4, <2>1, NotifyFrame
<1>5. CASE Point \/ (FlushStarted /\ role # "master")
  <2>1. FlushStarted /\ Wipe = x
    BY Zenon, <1>2, <1>5, MarkFrame
  <2>2. Wipe.by = role
    BY DEF Wipe
  <2>3. FlushStarted /\ role = "master"
    BY Zenon, <2>1, <2>2
  <2>4. pending' = Append(pending, AMarker("flushed", points + 1))
    BY <2>3 DEF FlushStarted, MarkOnMaster, Record
  <2>5. AMarker("flushed", points + 1) \in Marker /\ IsMarker(AMarker("flushed", points + 1), Tells)
    BY <1>1 DEF AMarker, Marker, Actions, IsMarker, Tells
  <2>6. \A m \in Marker : Held(Append(pending, m)) = Held(pending) \cup {m}
    BY Zenon, <1>1, HeldAppended
  <2> QED  BY Zenon, <2>4, <2>5, <2>6 DEF Waits
<1>6. ~Quiet /\ ~(role = "master" /\ (Cron \/ Close)) /\ ~Load
  BY Zenon, <1>2, QuietMoves, TakeFrame, LoadFrame DEF content
<1> QED  BY Zenon, <1>3, <1>4, <1>5, <1>6, NextCases DEF Point

LEMMA ToldNext ==
  ASSUME "refuse" \notin Ops, "defer" \notin Ops
  PROVE  BaseInv /\ ToldInv /\ [Next]_vars => ToldInv'
<1> SUFFICES ASSUME BaseInv, ToldInv, [Next]_vars, ~Waits',
                    NEW f \in DOMAIN log', log'[f].item.kind = "flush", log'[f].item.by = "master"
             PROVE  \E j \in DOMAIN log' : /\ j > f /\ log'[j].item.kind = "marker"
                                           /\ log'[j].item.action \in Tells
  BY Zenon DEF ToldInv, Is, Says
<1>1. TypeInv
  BY Zenon DEF BaseInv
<1>2. CASE log' = log
  <2>1. ~Waits
    <3>1. \A x \in Items : Adds(x) => Len(log') = Len(log) + 1 /\ Len(log) \in Nat
      BY Zenon, <1>1, Grown DEF Adds
    <3>2. ~\E x \in Items : Adds(x)
      BY <1>2, <3>1
    <3> QED  BY Zenon, <3>2, WaitsNext
  <2> QED  BY Zenon, <1>2, <2>1 DEF ToldInv, Is, Says
<1>3. ASSUME NEW x \in Items, Adds(x)
      PROVE  \E j \in DOMAIN log' : /\ j > f /\ log'[j].item.kind = "marker"
                                    /\ log'[j].item.action \in Tells
  <2> DEFINE n == Len(log)
  <2>1. log' = Append(log, Written(x))
    BY Zenon, <1>3 DEF Adds
  <2>2. /\ DOMAIN log' = DOMAIN log \cup {n + 1} /\ n \in Nat
        /\ \A i \in DOMAIN log : i \in Nat /\ i < n + 1 /\ log'[i] = log[i]
        /\ log'[n + 1].item = x
        /\ \A y \in Items : Adds(y) => log'[n + 1].item = y
    BY Zenon, <1>1, <2>1, Grown DEF Adds
  <2>3. f # n + 1
    BY Zenon, <1>3, <2>2, WipeWaits
  <2>4. f \in DOMAIN log
    BY Zenon, <2>2, <2>3
  <2>5. n + 1 > f
    BY <2>2, <2>4
  <2>6. CASE Waits
    <3>1. PICK y \in Items : Adds(y) /\ IsMarker(y, Tells)
      BY Zenon, <2>6, WaitsNext
    <3> HIDE DEF n
    <3> QED  BY Zenon, <2>2, <2>5, <3>1 DEF IsMarker
  <2>7. CASE ~Waits
    BY Zenon, <2>2, <2>4, <2>7 DEF ToldInv, Is, Says
  <2> QED  BY Zenon, <2>6, <2>7
<1> QED  BY Zenon, <1>2, <1>3, LogSteps

\* A capture gap can be seen: an event a disabled master did not capture lies in a window
\* the control stream opens with `disabled`, even when the switch is thrown inside the
\* same transaction; and whatever flush of a master has since taken that marker away is
\* told of.  It holds as long as no write is refused and every job can be registered.
THEOREM GapCorrect ==
  ASSUME "refuse" \notin Ops, "defer" \notin Ops
  PROVE  Spec => []GapWindow
<1>1. BaseInv /\ GapInv /\ ToldInv => GapWindow
  <2> SUFFICES ASSUME BaseInv, GapInv, ToldInv, at = "idle"
               PROVE  /\ \A u \in missed : Window(u)
                      /\ \A j \in DOMAIN log :
                           (Is(j, "flush") /\ log[j].item.by = "master") => Told(j)
    BY Zenon DEF GapWindow, Window
  <2>1. at \notin {"unit", "jobs"} /\ jobs = <<>> /\ todo = <<>>
    BY DEF BaseInv, Stages
  <2>2. \A u \in missed : Window(u)
    BY Zenon, <2>1 DEF GapInv, Soon
  <2>3. Waits => \E k \in DOMAIN pending : pending[k].action \in Tells
    BY Zenon, <2>1, HeldEmpty DEF Waits, Held, IsMarker
  <2> QED  BY Zenon, <2>2, <2>3 DEF ToldInv, Told, Tells
<1> QED  BY <1>1, BaseInit, BaseNext, LeftInit, LeftNext, OrderInit, OrderNext, OvertakenInit,
            OvertakenNext, TimesInit, TimesNext, GapInit, GapNext, ToldInit, ToldNext, PTL DEF Spec

-----------------------------------------------------------------------------
(* Checkpoints. *)

INSTANCE FiniteSetTheorems

\* Records written later do not change what a prefix holds.
LEMMA ResolvedKept ==
  ASSUME TypeInv, NEW x \in Items, log' = Append(log, Written(x)), NEW g, NEW n \in 0..Len(log)
  PROVE  ResolvedIn(g, n)' = ResolvedIn(g, n)
<1>1. \A j \in 1..n : log'[j] = log[j]
  BY Grown
<1> QED  BY Zenon, <1>1 DEF ResolvedIn, Is

LEMMA CountInit == Init => CountInv
<1> SUFFICES ASSUME Init PROVE CountInv
  OBVIOUS
<1>1. Len(log) = 0 /\ DOMAIN log = {} /\ resolved = 0
  BY DEF Init
<1>2. ResolvedIn(gen, Len(log)) = {}
  BY <1>1 DEF ResolvedIn
<1> QED  BY <1>1, <1>2, FS_EmptySet DEF CountInv, CheckpointExact

LEMMA CountNext == BaseInv /\ GensInv /\ CountInv /\ [Next]_vars => CountInv'
<1> SUFFICES ASSUME BaseInv, GensInv, CountInv, [Next]_vars PROVE CountInv'
  OBVIOUS
<1>1. gen \in Nat /\ log \in Seq(Recs) /\ TypeInv /\ Len(log) \in Nat /\ DOMAIN log = 1..Len(log)
  BY TypesOf DEF BaseInv
<1>2. CASE UNCHANGED <<log, gen, resolved>>
  BY Zenon, <1>2 DEF CountInv, CheckpointExact, ResolvedIn, Is
<1>3. CASE log' = log /\ gen' = gen + 1 /\ resolved' = 0
  <2>1. \A j \in 1..Len(log) : log[j].gen # gen + 1
    <3>1. \A i \in DOMAIN log : log[i].gen \in Nat
      BY Zenon, <1>1, LogTyped
    <3> QED  BY <1>1, <3>1 DEF GensInv
  <2>3. ResolvedIn(gen, Len(log))' = {}
    BY Zenon, <1>3, <2>1 DEF ResolvedIn, Is
  <2>4. CheckpointExact'
    BY Zenon, <1>3 DEF CountInv, CheckpointExact, Is
  <2> QED  BY Zenon, <1>3, <2>3, <2>4, FS_EmptySet DEF CountInv
<1>4. ASSUME NEW x \in Items, Adds(x) PROVE CountInv'
  <2> DEFINE n == Len(log)
             A == ResolvedIn(gen, n)
  <2>1. /\ log' = Append(log, Written(x)) /\ gen' = gen
        /\ resolved' = IF x.kind \in {"entry", "lost"} THEN resolved + 1 ELSE resolved
    BY Zenon, <1>4 DEF Adds
  <2>2. ResolvedIn(gen, Len(log))' = IF x.kind \in {"entry", "lost"} THEN A \cup {n + 1} ELSE A
    <3>1. /\ Len(log') = n + 1 /\ n \in Nat /\ log'[n + 1].item = x /\ log'[n + 1].gen = gen
          /\ \A j \in 1..n : log'[j] = log[j]
      BY Zenon, <1>1, <2>1, Grown
    <3>2. 1..(n + 1) = 1..n \cup {n + 1} /\ n + 1 \notin 1..n
      BY <3>1
    <3>3. \A j : j \in ResolvedIn(gen, Len(log))' <=>
                   /\ j \in 1..(n + 1) /\ log'[j].gen = gen
                   /\ log'[j].item.kind = "entry" \/ log'[j].item.kind = "lost"
      BY Zenon, <2>1, <3>1 DEF ResolvedIn, Is
    <3>4. \A j : j \in A <=> /\ j \in 1..n /\ log[j].gen = gen
                             /\ log[j].item.kind = "entry" \/ log[j].item.kind = "lost"
      BY Zenon DEF ResolvedIn, Is
    <3> HIDE DEF A
    <3>5. \A j : j \in ResolvedIn(gen, Len(log))' <=>
                   j \in A \/ (j = n + 1 /\ (x.kind = "entry" \/ x.kind = "lost"))
      BY ZenonT(40), <3>1, <3>2, <3>3, <3>4
    <3> QED  BY Zenon, <3>5
  <2>3. IsFiniteSet(A) /\ Cardinality(A) = resolved /\ n + 1 \notin A
    <3>1. A \subseteq 1..n /\ n + 1 \notin 1..n
      BY <1>1 DEF ResolvedIn
    <3>2. IsFiniteSet(1..n)
      BY <1>1, FS_Interval
    <3> QED  BY Zenon, <3>1, <3>2, FS_Subset DEF CountInv
  <2>4. resolved' = Cardinality(ResolvedIn(gen, Len(log))')
    <3>1. Cardinality(A \cup {n + 1}) = Cardinality(A) + 1
      BY Zenon, <2>3, FS_AddElement
    <3> QED  BY Zenon, <2>1, <2>2, <2>3, <3>1
  <2>5. CheckpointExact'
    <3> SUFFICES ASSUME NEW i \in DOMAIN log', log'[i].item.kind = "checkpoint"
                 PROVE  log'[i].resolved = Cardinality(ResolvedIn(log[i].gen, i)')
      BY Zenon DEF CheckpointExact, ResolvedIn, Is
    <3>1. CASE i \in DOMAIN log
      <4>1. i \in 0..Len(log) /\ log'[i] = log[i]
        BY <1>1, <2>1, <3>1, Grown
      <4>2. ResolvedIn(log[i].gen, i)' = {j \in 1..i :
                           (Is(j, "entry") \/ Is(j, "lost")) /\ log[j].gen = log[i].gen}
        <5>1. \A j \in 1..i : log'[j] = log[j]
          BY <1>1, <2>1, <3>1, Grown
        <5> QED  BY Zenon, <4>1, <5>1 DEF ResolvedIn, Is
      <4> QED  BY Zenon, <3>1, <4>1, <4>2 DEF CountInv, CheckpointExact, Is
    <3>2. CASE i = n + 1
      <4>1. log'[i] = Written(x) /\ Written(x).item = x /\ Written(x).resolved = resolved
            /\ Written(x).gen = gen /\ Len(log') = i
        BY Zenon, <1>1, <2>1, <3>2, Grown
      <4>2. x.kind \notin {"entry", "lost"}
        BY <4>1
      <4>3. ResolvedIn(log[i].gen, i)' = A
        BY Zenon, <2>1, <2>2, <4>1, <4>2 DEF ResolvedIn
      <4> QED  BY Zenon, <2>3, <4>1, <4>3
    <3> QED  BY Zenon, <1>1, <2>1, <3>1, <3>2, Grown
  <2> QED  BY Zenon, <2>4, <2>5 DEF CountInv
<1> QED  BY Zenon, <1>2, <1>3, <1>4, LogSteps

\* A checkpoint tells the truth about its generation: the number it reports is the number
\* of events written or counted lost before it, through refused writes, events lost when
\* no job can be registered, and loads in a retained image.
THEOREM CheckpointCorrect == Spec => []CheckpointExact
<1>1. CountInv => CheckpointExact
  BY DEF CountInv
<1> QED  BY <1>1, BaseInit, BaseNext, GensInit, GensNext, CountInit, CountNext, PTL DEF Spec


=============================================================================
