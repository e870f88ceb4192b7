--------------------------- MODULE DispatchProofs ---------------------------
(***************************************************************************)
(* Proofs about Dispatch, for every queue capacity, batch size, number of  *)
(* events and set of destinations.                                         *)
(***************************************************************************)
EXTENDS Dispatch, TLAPS

-----------------------------------------------------------------------------
(***************************************************************************)
(* Sequences of events: what taking a prefix, dropping it and appending do. *)
(***************************************************************************)

\* The elements of a sequence of events are events, and their ids numbers.
LEMMA ElementFacts ==
  ASSUME NEW s \in Seq(Event)
  PROVE  /\ DOMAIN s = 1..Len(s) /\ Len(s) \in Nat
         /\ \A i \in DOMAIN s : s[i] \in Event /\ s[i].id \in Nat
<1>1. DOMAIN s = 1..Len(s) /\ Len(s) \in Nat
  OBVIOUS
<1>2. \A i \in DOMAIN s : s[i] \in Event
  OBVIOUS
<1>3. \A e \in Event : e.id \in Nat
  BY Zenon DEF Event
<1> QED
  BY Zenon, <1>1, <1>2, <1>3

\* A contiguous part of a sequence of events is one, element by element.
LEMMA SubSeqFacts ==
  ASSUME NEW s \in Seq(Event), NEW m \in 1..(Len(s) + 1), NEW n \in 0..Len(s),
         m <= n + 1
  PROVE  /\ SubSeq(s, m, n) \in Seq(Event)
         /\ Len(SubSeq(s, m, n)) = n - m + 1
         /\ \A i \in 1..(n - m + 1) : SubSeq(s, m, n)[i] = s[m + i - 1]
  OBVIOUS

\* Appending an event keeps the others where they are.
LEMMA AppendFacts ==
  ASSUME NEW s \in Seq(Event), NEW e \in Event
  PROVE  /\ Append(s, e) \in Seq(Event)
         /\ Len(Append(s, e)) = Len(s) + 1
         /\ \A i \in 1..Len(s) : Append(s, e)[i] = s[i]
         /\ Append(s, e)[Len(s) + 1] = e
  OBVIOUS

\* The head and the tail of a sequence of events.
LEMMA TailFacts ==
  ASSUME NEW s \in Seq(Event), s # <<>>
  PROVE  /\ Head(s) \in Event /\ Head(s) = s[1]
         /\ Tail(s) \in Seq(Event)
         /\ Len(s) >= 1
         /\ Len(Tail(s)) = Len(s) - 1
         /\ \A i \in 1..(Len(s) - 1) : Tail(s)[i] = s[i + 1]
  OBVIOUS

-----------------------------------------------------------------------------
(***************************************************************************)
(* Type correctness.  The gauge is a natural number only because it is the *)
(* queue's length whenever something may be drained, and that rests on who *)
(* holds Redis's lock and on when the worker has ended.                    *)
(***************************************************************************)
MainHolds   == {"unit", "jobs", "wake", "join", "finish"}
WorkerHolds == {"drain", "process"}
Gone        == {"finish", "unloaded"}

Locks ==
  /\ gil = "main" <=> main \in MainHolds
  /\ gil = "worker" <=> worker \in WorkerHolds

Phases ==
  /\ main \in {"idle", "unit", "jobs"} => activeMode = Mode
  /\ worker = "none" <=> Mode = "sync"
  /\ main \in Gone => worker \in {"none", "exited", "panicked"}
  /\ main = "unloaded" => gil = "free"

Gauge == main \notin Gone => depth = Len(queue)

TypeInv == TypeOK /\ Locks /\ Phases /\ Gauge

\* A freshly started dispatch layer satisfies the invariant.
LEMMA TypeInvInit == Init => TypeInv
<1> SUFFICES ASSUME Init PROVE TypeInv
  BY Zenon
<1>1. stop \in BOOLEAN
  BY Zenon DEF Init
<1>2. queue \in Seq(Event) /\ batch \in Seq(Event) /\ jobs \in Seq(Event)
  BY DEF Init
<1>3. snap \in Seq(Event) /\ handed \in Seq(Event) /\ log \in Seq(Entry)
  BY DEF Init
<1>4. TypeOK
  BY Zenon, <1>1, <1>2, <1>3, ConstantsAssumption DEF Init, TypeOK, MainStates, WorkerStates
<1>5. Locks /\ Phases
  BY Zenon, ConstantsAssumption DEF Init, Locks, Phases, MainHolds, WorkerHolds, Gone
<1>6. Gauge
  BY Zenon DEF Init, Gauge
<1> QED
  BY Zenon, <1>4, <1>5, <1>6 DEF TypeInv

\* Writing or losing the first n drained events keeps the types.
LEMMA SettleTypes ==
  ASSUME TypeOK, NEW n \in 1..Len(batch), Process(n) \/ Panic(n)
  PROVE  /\ batch' \in Seq(Event) /\ log' \in Seq(Entry) /\ lost' \subseteq Nat
         /\ enqueued' \in Nat /\ drained' \in Nat /\ panics' \in Nat
<1>1. batch \in Seq(Event) /\ log \in Seq(Entry) /\ lost \subseteq Nat
  BY Zenon DEF TypeOK
<1> DEFINE es == SubSeq(batch, 1, n)
<1>2. es \in Seq(Event) /\ Len(es) = n /\ es[1] \in Event
  BY <1>1, SubSeqFacts
<1>3. SubSeq(batch, n + 1, Len(batch)) \in Seq(Event)
  BY <1>1, SubSeqFacts
<1>4. Ids(es) \subseteq Nat
  BY <1>2 DEF Ids, Event
<1>5. [dst |-> es[1].dst, events |-> es] \in Entry
  BY Zenon, <1>2 DEF Entry, Event
<1> HIDE DEF es
<1>6. CASE Write(n)
  BY SMTT(40), <1>1, <1>3, <1>5, <1>6 DEF Write, TypeOK, es
<1>7. CASE Refuse(n)
  BY Zenon, <1>1, <1>3, <1>4, <1>7 DEF Refuse, TypeOK, es
<1>8. CASE Panic(n)
  BY <1>1, <1>3, <1>8 DEF Panic, TypeOK
<1> QED
  BY Zenon, <1>6, <1>7, <1>8 DEF Process

\* Registering a job, or losing its event, keeps the types.
LEMMA DeferTypes ==
  ASSUME TypeOK, NEW e \in Event, Defer(e)
  PROVE  jobs' \in Seq(Event) /\ lost' \subseteq Nat
<1>1. CASE jobs' = Append(jobs, e) /\ UNCHANGED lost
  BY Zenon, <1>1, AppendFacts DEF TypeOK
<1>2. CASE lost' = lost \cup {e.id} /\ UNCHANGED jobs
  BY Zenon, <1>2 DEF TypeOK, Event
<1> QED
  BY Zenon, <1>1, <1>2 DEF Defer

\* Every step of either thread keeps the invariant.
LEMMA TypeInvNext == TypeInv /\ [Next]_vars => TypeInv'
<1> SUFFICES ASSUME TypeInv, [Next]_vars PROVE TypeInv'
  BY Zenon
<1> USE ConstantsAssumption
<1> USE DEF TypeInv, Locks, Phases, Gauge, MainStates, WorkerStates, MainHolds,
            WorkerHolds, Gone, shared, mainVars, workerVars, outcomes
<1>1. CASE EndUnit
  BY Zenon, <1>1 DEF EndUnit, TypeOK
<1>2. CASE EndJobs
  BY Zenon, <1>2 DEF EndJobs, TypeOK
<1>3. CASE UnloadSync
  BY Zenon, <1>3 DEF UnloadSync, TypeOK
<1>4. CASE StoreStop
  BY Zenon, <1>4 DEF StoreStop, TypeOK
<1>5. CASE Wake
  BY ZenonT(40), <1>5 DEF Wake, Notified, TypeOK
<1>6. CASE JoinOk
  BY <1>6 DEF JoinOk, TypeOK
<1>7. CASE FinishUnload
  BY Zenon, <1>7 DEF FinishUnload, TypeOK
<1>8. CASE WorkerStart
  BY Zenon, <1>8 DEF WorkerStart, TypeOK
<1>9. CASE WaitLock
  BY Zenon, <1>9 DEF WaitLock, TypeOK
<1>10. CASE WaitTimedOut
  BY Zenon, <1>10 DEF WaitTimedOut, TypeOK
<1>11. CASE WaitCheck
  BY Zenon, <1>11 DEF WaitCheck, TypeOK
<1>12. CASE WaitEval
  BY Zenon, <1>12 DEF WaitEval, TypeOK
<1>13. CASE WaitTimeout
  BY Zenon, <1>13 DEF WaitTimeout, TypeOK
<1>14. CASE SpuriousWake
  BY Zenon, <1>14 DEF SpuriousWake, TypeOK
<1>15. CASE WorkerAbort
  BY Zenon, <1>15 DEF WorkerAbort, TypeOK
<1>16. CASE StopCheck
  BY Zenon, <1>16 DEF StopCheck, TypeOK
<1>17. CASE TryLock
  BY Zenon, <1>17 DEF TryLock, TypeOK
<1>18. CASE Release
  BY Zenon, <1>18 DEF Release, TypeOK
<1>19. ASSUME NEW d \in Dests, NotifySync(d) PROVE TypeInv'
  <2> DEFINE e == [id |-> nextId, dst |-> d]
  <2>1. e \in Event
    BY Zenon DEF Event, TypeOK
  <2>2. jobs' \in Seq(Event) /\ lost' \subseteq Nat
    BY Zenon, <1>19, <2>1, DeferTypes DEF NotifySync
  <2> QED
    BY <1>19, <2>2 DEF NotifySync, InUnit, TypeOK
<1>20. ASSUME NEW d \in Dests, NotifyFallback(d) PROVE TypeInv'
  <2> DEFINE e == [id |-> nextId, dst |-> d]
  <2>1. e \in Event
    BY Zenon DEF Event, TypeOK
  <2>2. jobs' \in Seq(Event) /\ lost' \subseteq Nat
    BY Zenon, <1>20, <2>1, DeferTypes DEF NotifyFallback
  <2> QED
    BY <1>20, <2>2 DEF NotifyFallback, InUnit, TypeOK
<1>21. ASSUME NEW d \in Dests, NotifyPush(d) PROVE TypeInv'
  <2> DEFINE e == [id |-> nextId, dst |-> d]
  <2>1. e \in Event
    BY Zenon DEF Event, TypeOK
  <2>2. queue' \in Seq(Event) /\ Len(queue') = Len(queue) + 1
    BY Zenon, <1>21, <2>1, AppendFacts DEF NotifyPush, TypeOK
  <2> QED
    BY <1>21, <2>2 DEF NotifyPush, InUnit, Notified, TypeOK
<1>22. CASE RunSyncJob
  <2>1. batch' \in Seq(Event) /\ jobs' \in Seq(Event)
    BY <1>22, TailFacts DEF RunSyncJob, TypeOK
  <2> QED
    BY Zenon, <1>22, <2>1 DEF RunSyncJob, TypeOK
<1>23. CASE RunFallbackJob
  <2>1. PICK n \in 0..Len(queue) :
          /\ batch' = Append(SubSeq(queue, 1, n), Head(jobs))
          /\ queue' = SubSeq(queue, n + 1, Len(queue))
          /\ depth' = depth - n
          /\ drained' = drained + n
    BY Zenon, <1>23 DEF RunFallbackJob
  <2>2. Head(jobs) \in Event /\ jobs' \in Seq(Event)
    BY Zenon, <1>23, TailFacts DEF RunFallbackJob, TypeOK
  <2>3. SubSeq(queue, 1, n) \in Seq(Event)
    BY SubSeqFacts DEF TypeOK
  <2>4. batch' \in Seq(Event)
    BY Zenon, <2>1, <2>2, <2>3, AppendFacts
  <2>5. queue' \in Seq(Event) /\ Len(queue') = Len(queue) - n
    BY SMTT(40), <2>1, SubSeqFacts DEF TypeOK
  <2>6. depth' \in Nat /\ drained' \in Nat /\ Gauge'
    <3>1. main = "jobs" /\ queue \in Seq(Event) /\ depth \in Nat /\ drained \in Nat
      BY Zenon, <1>23 DEF RunFallbackJob, TypeOK
    <3>2. depth = Len(queue) /\ Len(queue) \in Nat
      BY Zenon, <3>1, ElementFacts
    <3> HIDE DEF TypeInv, Locks, Phases
    <3> QED  BY <2>1, <2>5, <3>1, <3>2
  <2> QED
    BY Zenon, <1>23, <2>1, <2>2, <2>4, <2>5, <2>6 DEF RunFallbackJob, TypeOK
<1>24. CASE ProcessJob
  <2>1. \E n \in 1..Len(batch) : Process(n) \/ Panic(n)
    BY <1>24 DEF ProcessJob, TypeOK
  <2> QED
    BY Zenon, <1>24, <2>1, SettleTypes DEF ProcessJob, TypeOK
<1>25. CASE ProcessHanded
  <2>1. \E n \in 1..Len(batch) : Process(n) \/ Panic(n)
    BY <1>25 DEF ProcessHanded, TypeOK
  <2> QED
    BY Zenon, <1>25, <2>1, SettleTypes DEF ProcessHanded, TypeOK
<1>26. CASE ProcessBatch
  <2>1. \E n \in 1..Len(batch) : Process(n) \/ Panic(n)
    BY Zenon, <1>26 DEF ProcessBatch
  <2> QED
    BY Zenon, <1>26, <2>1, SettleTypes DEF ProcessBatch, TypeOK
<1>27. CASE JoinErr
  <2>1. \A i \in DOMAIN queue : queue[i].id \in Nat
    BY Zenon, ElementFacts DEF TypeOK
  <2>2. lost' \subseteq Nat
    BY Zenon, <1>27, <2>1 DEF JoinErr, TypeOK
  <2> QED
    BY Zenon, <1>27, <2>2 DEF JoinErr, TypeOK
<1>28. CASE Prepare
  <2>1. snap' \in Seq(Event)
    BY <1>28, SubSeqFacts DEF Prepare, SmallerOf, TypeOK
  <2> QED
    BY Zenon, <1>28, <2>1 DEF Prepare, TypeOK
<1>29. CASE Drain
  <2> DEFINE n == DrainCount
  <2>1. n \in 0..Len(queue) /\ (snap # <<>> => n \in 0..Len(snap))
    BY DEF DrainCount, SnapshotMatches, SmallerOf, TypeOK
  <2>2. queue' \in Seq(Event) /\ Len(queue') = Len(queue) - n
    BY <1>29, <2>1, SubSeqFacts DEF Drain, TypeOK
  <2>3. batch' \in Seq(Event)
    BY <1>29, <2>1, SubSeqFacts DEF Drain, TypeOK
  <2> HIDE DEF n
  <2>4. depth' = depth - n /\ drained' = drained + n
    BY Zenon, <1>29 DEF Drain, n
  <2>5. /\ worker = "drain" /\ worker' = "process"
        /\ UNCHANGED <<gil, mutex, stop, mainVars, snap, handed, log, lost,
                       enqueued, panics>>
    BY Zenon, <1>29 DEF Drain
  <2> QED
    BY <2>1, <2>2, <2>3, <2>4, <2>5 DEF TypeOK
<1>30. CASE DrainAll
  BY <1>30 DEF DrainAll, TypeOK
<1>31. CASE UNCHANGED vars
  BY <1>31 DEF vars, TypeOK
<1> QED
  BY Zenon, <1>1, <1>2, <1>3, <1>4, <1>5, <1>6, <1>7, <1>8, <1>9, <1>10, <1>11, <1>12, <1>13, <1>14, <1>15, <1>16, <1>17, <1>18, <1>19, <1>20, <1>21, <1>22, <1>23, <1>24, <1>25, <1>26, <1>27, <1>28, <1>29, <1>30, <1>31
  DEF Next, MainStep, WorkerStep, Environment, Terminated

\* The statics, the queue and the program counters of the two threads keep their
\* types; in particular the queue-depth gauge never goes below zero.
THEOREM TypeCorrect == Spec => []TypeOK
<1>1. TypeInv => TypeOK
  BY Zenon DEF TypeInv
<1> QED
  BY <1>1, TypeInvInit, TypeInvNext, PTL DEF Spec

\* A step that leaves the FIFO and its counters alone, revives no worker and
\* no module.
GaugeQuiet ==
  /\ UNCHANGED <<queue, depth, enqueued, drained>>
  /\ main' \notin Gone => main \notin Gone
  /\ worker' # "exited" => worker # "exited"

LEMMA GaugeStep == TypeInv /\ GaugeAgrees /\ [Next]_vars => GaugeAgrees'
<1> SUFFICES ASSUME TypeInv, GaugeAgrees, [Next]_vars PROVE GaugeAgrees'
  BY Zenon
<1> USE ConstantsAssumption
<1>a. TypeOK /\ Phases /\ depth \in Nat /\ enqueued \in Nat /\ drained \in Nat
  BY Zenon DEF TypeInv, TypeOK
<1>1. ASSUME GaugeQuiet PROVE GaugeAgrees'
  BY Zenon, <1>1 DEF GaugeQuiet, GaugeAgrees, Gone
<1>2. CASE JoinOk \/ JoinErr \/ UnloadSync
  BY Zenon, <1>2 DEF JoinOk, JoinErr, UnloadSync, GaugeAgrees
<1>3. CASE ProcessHanded \/ FinishUnload
  BY Zenon, <1>3 DEF ProcessHanded, FinishUnload, mainVars, GaugeAgrees
<1>4. CASE DrainAll
  <2>1. queue' = <<>> /\ depth' = depth - Len(queue) /\ worker' = "exited" /\ main' = main
    BY Zenon, <1>4 DEF DrainAll, mainVars
  <2>2. Len(queue') = 0 /\ Len(queue) \in Nat
    BY <1>a, <2>1 DEF TypeOK
  <2> QED  BY <2>1, <2>2 DEF GaugeAgrees
<1>5. ASSUME NEW d \in Dests, NotifyPush(d) PROVE GaugeAgrees'
  <2>1. Len(queue') = Len(queue) + 1 /\ Len(queue) < Capacity
    BY Zenon, <1>5, <1>a, AppendFacts DEF NotifyPush, TypeOK, Event
  <2>2. /\ depth' = depth + 1 /\ enqueued' = enqueued + 1 /\ drained' = drained
        /\ main \notin Gone /\ (worker' # "exited" => worker # "exited")
    BY Zenon, <1>5 DEF NotifyPush, InUnit, Notified, Gone
  <2> QED  BY <1>a, <2>1, <2>2 DEF GaugeAgrees, Gone
<1>6. ASSUME NEW n \in 0..Len(queue), queue' = SubSeq(queue, n + 1, Len(queue)),
             depth' = depth - n, drained' = drained + n, enqueued' = enqueued,
             UNCHANGED main, worker' # "exited" => worker # "exited"
      PROVE  GaugeAgrees'
  <2>1. Len(queue') = Len(queue) - n
    BY <1>6, <1>a, SubSeqFacts, SMTT(40) DEF TypeOK
  <2>2. n \in Nat /\ Len(queue) \in Nat
    BY <1>a DEF TypeOK
  <2> QED  BY <1>6, <1>a, <2>1, <2>2 DEF GaugeAgrees
<1>7. CASE RunFallbackJob
  BY Zenon, <1>6, <1>7 DEF RunFallbackJob, workerVars
<1>8. CASE Drain
  <2>1. DrainCount \in 0..Len(queue)
    BY <1>a DEF DrainCount, SnapshotMatches, SmallerOf, TypeOK
  <2> QED  BY Zenon, <1>6, <1>8, <2>1 DEF Drain, mainVars
<1>9. ASSUME NEW d \in Dests, NotifySync(d) \/ NotifyFallback(d) PROVE GaugeQuiet
  BY Zenon, <1>9 DEF NotifySync, NotifyFallback, InUnit, workerVars, GaugeQuiet, Gone
<1>10. CASE ProcessJob \/ ProcessBatch
  <2>1. enqueued' = enqueued /\ drained' = drained
    BY <1>10, Zenon DEF ProcessJob, ProcessBatch, Process, Write, Refuse, Panic
  <2> QED  BY Zenon, <1>1, <1>10, <2>1 DEF ProcessJob, ProcessBatch, mainVars, workerVars, GaugeQuiet
<1>11. CASE EndUnit \/ RunSyncJob \/ EndJobs \/ StoreStop \/ Wake
  BY Zenon, <1>1, <1>11
  DEF EndUnit, RunSyncJob, EndJobs, StoreStop, Wake, Notified, shared, workerVars, outcomes,
      GaugeQuiet, Gone
<1>12. CASE WorkerStart \/ WaitLock \/ WaitTimedOut \/ WaitCheck \/ WaitEval \/ WaitTimeout
  BY Zenon, <1>1, <1>12
  DEF WorkerStart, WaitLock, WaitTimedOut, WaitCheck, WaitEval, WaitTimeout, shared, mainVars,
      outcomes, GaugeQuiet
<1>13. CASE Prepare \/ WorkerAbort \/ StopCheck \/ TryLock \/ Release \/ SpuriousWake
  BY Zenon, <1>1, <1>13
  DEF Prepare, WorkerAbort, StopCheck, TryLock, Release, SpuriousWake, shared, mainVars, outcomes,
      GaugeQuiet
<1>14. CASE UNCHANGED vars
  BY Zenon, <1>1, <1>14 DEF vars, shared, mainVars, workerVars, outcomes, GaugeQuiet
<1> QED
  BY Zenon, <1>1, <1>2, <1>3, <1>4, <1>5, <1>7, <1>8, <1>9, <1>10, <1>11, <1>12, <1>13, <1>14
  DEF Next, MainStep, WorkerStep, Environment, Terminated

\* async_queue_depth is the length of the FIFO, which never exceeds its capacity,
\* and while the worker lives every accepted event is drained or queued: for every
\* capacity and batch size and under every fault.
THEOREM GaugeCorrect == Spec => []GaugeAgrees
<1>1. Init => GaugeAgrees
  BY ConstantsAssumption DEF Init, GaugeAgrees
<1> QED
  BY <1>1, TypeInvInit, TypeInvNext, GaugeStep, PTL DEF Spec

-----------------------------------------------------------------------------
(***************************************************************************)
(* Order and accounting.  An event that is not settled is in exactly one   *)
(* of four places: the FIFO, a registered job, the batch being written, or *)
(* the worker's return value.  The invariant says which places can be      *)
(* occupied at each point of the two threads, how the ids in them compare, *)
(* and that together with the log and the losses they hold every id.       *)
(***************************************************************************)
Precede(A, B) == \A a \in A, b \in B : a < b

Pending == Ids(queue) \cup Ids(jobs) \cup Ids(batch) \cup Ids(handed)

Stages ==
  /\ stop => main \in {"wake", "join"} \cup Gone
  /\ worker \in {"drainall", "exited"} => stop
  /\ worker = "exited" => queue = <<>>
  /\ jobs # <<>> => main \in {"unit", "jobs"}
  /\ batch # <<>> => main \in {"jobs", "finish"} \/ worker = "process"
  /\ handed # <<>> => main \in {"wake", "join"} /\ worker = "exited"
  /\ Mode = "sync" => queue = <<>>

Sorted ==
  Increasing(queue) /\ Increasing(jobs) /\ Increasing(batch) /\ Increasing(handed)

Apart ==
  /\ Ids(queue) \cap Ids(jobs) = {}
  /\ Precede(Ids(batch), Ids(queue) \cup Ids(jobs))

Past ==
  /\ Precede(WrittenIds, Pending)
  /\ WrittenIds \cup lost \cup Pending \cup Ids(snap) \subseteq 0..(nextId - 1)
  /\ lost \cap (WrittenIds \cup Ids(jobs) \cup Ids(batch) \cup Ids(handed)) = {}
  /\ main \notin Gone => lost \cap Ids(queue) = {}
  /\ main \in Gone => Ids(queue) \subseteq lost

Accounted == panics = 0 => 0..(nextId - 1) \subseteq WrittenIds \cup lost \cup Pending

\* The prepared snapshot is the front of the FIFO, or its first event has gone.
SnapshotInv ==
  worker \in {"stopcheck", "try", "drain"} /\ snap # <<>> =>
    \/ Len(snap) <= Len(queue) /\ snap = SubSeq(queue, 1, Len(snap))
    \/ Precede({snap[1].id}, Ids(queue))

Core == Sorted /\ Apart /\ Past /\ Accounted /\ NotificationOrder

OrderInv == TypeInv /\ Stages /\ SnapshotInv /\ Core

\* Sequences of events seen as sets of ids.
LEMMA IdsFacts ==
  ASSUME NEW s \in Seq(Event)
  PROVE  /\ Ids(s) \subseteq Nat
         /\ Ids(s) = {} <=> s = <<>>
         /\ \A i \in 1..Len(s) : s[i].id \in Ids(s)
<1>1. \A i \in DOMAIN s : s[i].id \in Nat
  BY Zenon, ElementFacts
<1>2. Ids(s) \subseteq Nat
  BY Zenon, <1>1 DEF Ids
<1>3. \A i \in 1..Len(s) : s[i].id \in Ids(s)
  BY Zenon, ElementFacts DEF Ids
<1>4. s # <<>> => 1 \in 1..Len(s)
  OBVIOUS
<1>5. s = <<>> => Ids(s) = {}
  BY DEF Ids
<1> QED
  BY Zenon, <1>2, <1>3, <1>4, <1>5

\* An appended event adds its id, and at the end of the order.
LEMMA IdsAppend ==
  ASSUME NEW s \in Seq(Event), NEW e \in Event
  PROVE  /\ Ids(Append(s, e)) = Ids(s) \cup {e.id}
         /\ Increasing(s) /\ Precede(Ids(s), {e.id}) => Increasing(Append(s, e))
<1> DEFINE t == Append(s, e)
<1>1. /\ t \in Seq(Event) /\ Len(t) = Len(s) + 1 /\ t[Len(s) + 1] = e
      /\ \A i \in 1..Len(s) : t[i] = s[i]
  BY Zenon, AppendFacts
<1>2. DOMAIN t = 1..(Len(s) + 1) /\ DOMAIN s = 1..Len(s) /\ Len(s) \in Nat
  BY <1>1
<1> HIDE DEF t
<1>3. Ids(t) = Ids(s) \cup {e.id}
  <2>1. ASSUME NEW x \in Ids(t) PROVE x \in Ids(s) \cup {e.id}
    BY <1>1, <1>2 DEF Ids
  <2>2. ASSUME NEW x \in Ids(s) PROVE x \in Ids(t)
    <3>1. PICK i \in 1..Len(s) : x = s[i].id
      BY Zenon, <1>2 DEF Ids
    <3> QED
      BY <1>1, <1>2, <3>1 DEF Ids
  <2>3. e.id \in Ids(t)
    BY <1>1, <1>2 DEF Ids
  <2> QED
    BY Zenon, <2>1, <2>2, <2>3
<1>4. ASSUME Increasing(s), Precede(Ids(s), {e.id}), NEW i \in DOMAIN t,
             NEW j \in DOMAIN t, i < j
      PROVE  t[i].id < t[j].id
  <2>1. i \in 1..Len(s) /\ t[i].id = s[i].id /\ s[i].id \in Ids(s)
    BY <1>1, <1>2, <1>4, IdsFacts
  <2>2. CASE j = Len(s) + 1
    BY Zenon, <1>1, <1>4, <2>1, <2>2 DEF Precede
  <2>3. CASE j \in 1..Len(s)
    BY Zenon, <1>1, <1>2, <1>4, <2>1, <2>3 DEF Increasing
  <2> QED
    BY <1>2, <2>2, <2>3
<1> QED
  BY Zenon, <1>3, <1>4 DEF t, Increasing

\* Cutting a sequence in two cuts its set of ids, and keeps the order.
LEMMA IdsSplit ==
  ASSUME NEW s \in Seq(Event), NEW n \in 0..Len(s)
  PROVE  LET front == SubSeq(s, 1, n)
             back  == SubSeq(s, n + 1, Len(s))
         IN  /\ front \in Seq(Event) /\ back \in Seq(Event)
             /\ Ids(s) = Ids(front) \cup Ids(back)
             /\ Increasing(s) => /\ Increasing(front) /\ Increasing(back)
                                 /\ Precede(Ids(front), Ids(back))
<1> DEFINE front == SubSeq(s, 1, n)
           back  == SubSeq(s, n + 1, Len(s))
<1>1. /\ front \in Seq(Event) /\ Len(front) = n
      /\ \A i \in 1..n : front[i] = s[i]
  BY SubSeqFacts
<1>2. /\ back \in Seq(Event) /\ Len(back) = Len(s) - n
      /\ \A i \in 1..(Len(s) - n) : back[i] = s[n + i]
  BY SubSeqFacts
<1>3. /\ DOMAIN front = 1..n /\ DOMAIN back = 1..(Len(s) - n)
      /\ DOMAIN s = 1..Len(s) /\ Len(s) \in Nat
  BY <1>1, <1>2
<1> HIDE DEF front, back
<1>4. Ids(s) \subseteq Ids(front) \cup Ids(back)
  <2> SUFFICES ASSUME NEW i \in 1..Len(s) PROVE s[i].id \in Ids(front) \cup Ids(back)
    BY Zenon, <1>3 DEF Ids
  <2>1. CASE i \in 1..n
    BY Zenon, <1>1, <1>3, <2>1 DEF Ids
  <2>2. CASE i \in (n + 1)..Len(s)
    <3>1. i - n \in 1..(Len(s) - n) /\ back[i - n] = s[i]
      BY <1>2, <1>3, <2>2
    <3> QED
      BY Zenon, <1>3, <3>1 DEF Ids
  <2> QED
    BY <2>1, <2>2
<1>5. Ids(front) \subseteq Ids(s)
  BY <1>1, <1>3 DEF Ids
<1>6. Ids(back) \subseteq Ids(s)
  <2> SUFFICES ASSUME NEW i \in 1..(Len(s) - n) PROVE back[i].id \in Ids(s)
    BY Zenon, <1>3 DEF Ids
  <2>1. n + i \in DOMAIN s /\ back[i] = s[n + i]
    BY <1>2, <1>3
  <2> QED
    BY Zenon, <2>1 DEF Ids
<1>7. ASSUME Increasing(s) PROVE Increasing(front)
  BY <1>1, <1>3, <1>7 DEF Increasing
<1>8. ASSUME Increasing(s) PROVE Increasing(back)
  <2> SUFFICES ASSUME NEW i \in 1..(Len(s) - n), NEW j \in 1..(Len(s) - n), i < j
               PROVE  back[i].id < back[j].id
    BY Zenon, <1>3 DEF Increasing
  <2>1. n + i \in DOMAIN s /\ n + j \in DOMAIN s /\ n + i < n + j
    BY <1>3
  <2> QED
    BY Zenon, <1>2, <1>8, <2>1 DEF Increasing
<1>9. ASSUME Increasing(s) PROVE Precede(Ids(front), Ids(back))
  <2> SUFFICES ASSUME NEW i \in 1..n, NEW j \in 1..(Len(s) - n)
               PROVE  front[i].id < back[j].id
    BY Zenon, <1>3 DEF Precede, Ids
  <2>1. i \in DOMAIN s /\ n + j \in DOMAIN s /\ i < n + j
    BY <1>3
  <2> QED
    BY Zenon, <1>1, <1>2, <1>9, <2>1 DEF Increasing
<1> QED
  BY Zenon, <1>1, <1>2, <1>4, <1>5, <1>6, <1>7, <1>8, <1>9 DEF front, back

\* The same for the head and the tail.
LEMMA IdsTail ==
  ASSUME NEW s \in Seq(Event), s # <<>>
  PROVE  /\ Ids(s) = {Head(s).id} \cup Ids(Tail(s))
         /\ Increasing(s) => /\ Increasing(Tail(s))
                             /\ Precede({Head(s).id}, Ids(Tail(s)))
<1>1. /\ Head(s) \in Event /\ Head(s) = s[1] /\ Len(s) \in Nat /\ Len(s) >= 1
      /\ Tail(s) \in Seq(Event) /\ Len(Tail(s)) = Len(s) - 1
      /\ \A i \in 1..(Len(s) - 1) : Tail(s)[i] = s[i + 1]
  BY TailFacts
<1>2. DOMAIN s = 1..Len(s) /\ DOMAIN Tail(s) = 1..(Len(s) - 1)
  BY <1>1
<1>3. Ids(s) \subseteq {Head(s).id} \cup Ids(Tail(s))
  <2> SUFFICES ASSUME NEW i \in 1..Len(s) PROVE s[i].id \in {Head(s).id} \cup Ids(Tail(s))
    BY Zenon, <1>2 DEF Ids
  <2>1. CASE i # 1
    <3>1. i - 1 \in 1..(Len(s) - 1) /\ Tail(s)[i - 1] = s[i]
      BY <1>1, <2>1
    <3> QED
      BY Zenon, <1>2, <3>1 DEF Ids
  <2> QED
    BY Zenon, <1>1, <2>1
<1>4. {Head(s).id} \cup Ids(Tail(s)) \subseteq Ids(s)
  <2>1. s[1].id \in Ids(s)
    BY <1>1, <1>2 DEF Ids
  <2>2. \A i \in 1..(Len(s) - 1) : i + 1 \in DOMAIN s
    BY <1>1, <1>2
  <2>3. \A i \in 1..(Len(s) - 1) : Tail(s)[i].id \in Ids(s)
    BY Zenon, <1>1, <2>2 DEF Ids
  <2> QED
    BY Zenon, <1>1, <1>2, <2>1, <2>3 DEF Ids
<1>5. ASSUME Increasing(s) PROVE Increasing(Tail(s))
  <2> SUFFICES ASSUME NEW i \in 1..(Len(s) - 1), NEW j \in 1..(Len(s) - 1), i < j
               PROVE  Tail(s)[i].id < Tail(s)[j].id
    BY Zenon, <1>2 DEF Increasing
  <2>1. i + 1 \in DOMAIN s /\ j + 1 \in DOMAIN s /\ i + 1 < j + 1
    BY <1>1, <1>2
  <2> QED
    BY Zenon, <1>1, <1>5, <2>1 DEF Increasing
<1>6. ASSUME Increasing(s) PROVE Precede({Head(s).id}, Ids(Tail(s)))
  <2> SUFFICES ASSUME NEW i \in 1..(Len(s) - 1) PROVE s[1].id < Tail(s)[i].id
    BY Zenon, <1>1, <1>2 DEF Precede, Ids
  <2>1. 1 \in DOMAIN s /\ i + 1 \in DOMAIN s /\ 1 < i + 1
    BY <1>1, <1>2
  <2> QED
    BY Zenon, <1>1, <1>6, <2>1 DEF Increasing
<1> QED
  BY Zenon, <1>3, <1>4, <1>5, <1>6

\* A new entry adds its ids to the written ones, and keeps the log in order if
\* its events are in order and later than what is written.
LEMMA WrittenAppend ==
  ASSUME log \in Seq(Entry), NEW en \in Entry, log' = Append(log, en)
  PROVE  /\ WrittenIds' = WrittenIds \cup Ids(en.events)
         /\ NotificationOrder /\ Increasing(en.events)
            /\ Precede(WrittenIds, Ids(en.events)) => NotificationOrder'
<1>1. /\ Len(log) \in Nat /\ DOMAIN log = 1..Len(log)
      /\ DOMAIN log' = 1..(Len(log) + 1)
      /\ \A i \in 1..Len(log) : log'[i] = log[i]
      /\ log'[Len(log) + 1] = en
  OBVIOUS
<1>2. WrittenIds' \subseteq WrittenIds \cup Ids(en.events)
  BY <1>1 DEF WrittenIds, Ids
<1>3. WrittenIds \cup Ids(en.events) \subseteq WrittenIds'
  <2>1. \A i \in DOMAIN log' : Ids(log'[i].events) \subseteq WrittenIds'
    BY DEF WrittenIds, Ids
  <2>2. Ids(en.events) \subseteq WrittenIds'
    BY <1>1, <2>1
  <2>3. \A i \in DOMAIN log : Ids(log[i].events) \subseteq WrittenIds'
    BY <1>1, <2>1
  <2> QED
    BY <2>2, <2>3 DEF WrittenIds
<1>4. ASSUME NotificationOrder, Increasing(en.events),
             Precede(WrittenIds, Ids(en.events))
      PROVE  NotificationOrder'
  <2>1. ASSUME NEW i \in DOMAIN log' PROVE Increasing(log'[i].events)
    BY <1>1, <1>4 DEF NotificationOrder
  <2>2. ASSUME NEW i \in DOMAIN log', NEW j \in DOMAIN log', i < j,
               NEW a \in DOMAIN log'[i].events, NEW b \in DOMAIN log'[j].events
        PROVE  log'[i].events[a].id < log'[j].events[b].id
    <3>1. i \in DOMAIN log /\ log'[i] = log[i]
      BY <1>1, <2>2
    <3>2. CASE j = Len(log) + 1
      <4>1. log[i].events[a].id \in WrittenIds
        BY <2>2, <3>1 DEF WrittenIds, Ids
      <4>2. log'[j] = en /\ en.events[b].id \in Ids(en.events)
        BY Zenon, <1>1, <2>2, <3>2 DEF Ids
      <4> QED
        BY Zenon, <1>4, <3>1, <4>1, <4>2 DEF Precede
    <3>3. CASE j \in DOMAIN log
      BY Zenon, <1>1, <1>4, <2>2, <3>1, <3>3 DEF NotificationOrder
    <3> QED
      BY <1>1, <3>2, <3>3
  <2> QED
    BY ZenonT(40), <2>1, <2>2 DEF NotificationOrder, Increasing
<1> QED
  BY Zenon, <1>2, <1>3, <1>4

\* Writing, refusing or dropping the first n events of the batch: they are the
\* oldest pending ones, so the log stays in order and every other id where it is.
LEMMA SettleKeepsOrder ==
  ASSUME TypeOK, Sorted, Apart, Past, Accounted, NotificationOrder,
         NEW n \in 1..Len(batch), Process(n) \/ Panic(n),
         UNCHANGED <<queue, jobs, handed, nextId, snap, main>>,
         handed = <<>>
  PROVE  Sorted' /\ Apart' /\ Past' /\ Accounted' /\ NotificationOrder'
<1> DEFINE es   == SubSeq(batch, 1, n)
           rest == SubSeq(batch, n + 1, Len(batch))
<1>1. /\ es \in Seq(Event) /\ rest \in Seq(Event)
      /\ Ids(batch) = Ids(es) \cup Ids(rest)
      /\ Increasing(es) /\ Increasing(rest)
      /\ Precede(Ids(es), Ids(rest))
  BY SMTT(40), IdsSplit DEF TypeOK, Sorted
<1>2. Ids(handed) = {}
  BY DEF Ids
<1>3. batch' = rest
  BY Zenon DEF Process, Write, Refuse, Panic
<1>4. es[1] \in Event
  BY SubSeqFacts DEF TypeOK
<1>5. [dst |-> es[1].dst, events |-> es] \in Entry
  BY Zenon, <1>1, <1>4 DEF Entry, Event
<1> HIDE DEF es, rest
<1>6. /\ Ids(batch)' = Ids(rest) /\ Ids(queue)' = Ids(queue)
      /\ Ids(jobs)' = Ids(jobs) /\ Ids(handed)' = {} /\ Ids(snap)' = Ids(snap)
  BY Zenon, <1>2, <1>3
<1>7. Sorted' /\ Apart'
  BY Zenon, <1>1, <1>3, <1>6 DEF Sorted, Apart, Precede
<1>8. CASE Write(n)
  <2>1. log' = Append(log, [dst |-> es[1].dst, events |-> es]) /\ lost' = lost
        /\ panics' = panics
    BY Zenon, <1>8 DEF Write, es
  <2>2. Precede(WrittenIds, Ids(es))
    BY Zenon, <1>1 DEF Past, Pending, Precede
  <2>3. WrittenIds' = WrittenIds \cup Ids(es) /\ NotificationOrder'
    BY Zenon, <1>1, <1>5, <2>1, <2>2, WrittenAppend DEF TypeOK
  <2>4. Past'
    BY ZenonT(40), <1>1, <1>2, <1>6, <2>1, <2>3 DEF Past, Pending, Precede, Apart
  <2>5. Accounted'
    BY Zenon, <1>1, <1>2, <1>6, <2>1, <2>3 DEF Accounted, Pending
  <2> QED
    BY Zenon, <1>7, <2>3, <2>4, <2>5
<1>9. CASE Refuse(n)
  <2>1. log' = log /\ lost' = lost \cup Ids(es) /\ panics' = panics
    BY Zenon, <1>9 DEF Refuse, es
  <2>2. WrittenIds' = WrittenIds /\ NotificationOrder'
    BY <2>1 DEF WrittenIds, NotificationOrder
  <2>3. Past'
    <3>1. lost' \cap (WrittenIds' \cup Ids(jobs)' \cup Ids(batch)' \cup Ids(handed)') = {}
      BY <1>1, <1>2, <1>6, <2>1, <2>2 DEF Past, Pending, Precede, Apart
    <3> QED
      BY <1>1, <1>2, <1>6, <2>1, <2>2, <3>1 DEF Past, Pending, Precede, Apart
  <2>4. Accounted'
    BY Zenon, <1>1, <1>2, <1>6, <2>1, <2>2 DEF Accounted, Pending
  <2> QED
    BY Zenon, <1>7, <2>2, <2>3, <2>4
<1>10. CASE Panic(n)
  <2>1. log' = log /\ lost' = lost /\ panics' = panics + 1
    BY Zenon, <1>10 DEF Panic
  <2>2. WrittenIds' = WrittenIds /\ NotificationOrder'
    BY <2>1 DEF WrittenIds, NotificationOrder
  <2>3. Past'
    BY Zenon, <1>1, <1>2, <1>6, <2>1, <2>2 DEF Past, Pending, Precede
  <2>4. Accounted'
    BY SMTT(40), <2>1 DEF Accounted, TypeOK
  <2> QED
    BY Zenon, <1>7, <2>2, <2>3, <2>4
<1> QED
  BY Zenon, <1>8, <1>9, <1>10 DEF Process

\* Where events may wait at each point of the two threads' programs.  A worker
\* without a context would exit before it is told to stop, hence the assumption.
LEMMA StagesNext ==
  ASSUME "context" \notin Faults, TypeInv, TypeInv', Stages, [Next]_vars
  PROVE  Stages'
<1> USE ConstantsAssumption
<1> USE DEF TypeInv, TypeOK, Locks, Phases, Gauge, MainStates, WorkerStates, MainHolds,
            WorkerHolds, Gone, shared, mainVars, workerVars, outcomes, Stages
<1>1. CASE EndUnit
  BY Zenon, <1>1 DEF EndUnit
<1>2. CASE RunSyncJob
  BY Zenon, <1>2 DEF RunSyncJob
<1>3. CASE RunFallbackJob
  BY Zenon, <1>3 DEF RunFallbackJob
<1>4. CASE ProcessJob
  BY Zenon, <1>4 DEF ProcessJob, Process, Write, Refuse, Panic
<1>5. CASE EndJobs
  BY Zenon, <1>5 DEF EndJobs
<1>6. CASE Wake
  BY Zenon, <1>6 DEF Wake, Notified
<1>7. CASE JoinOk
  BY Zenon, <1>7 DEF JoinOk
<1>8. CASE JoinErr
  BY Zenon, <1>8 DEF JoinErr
<1>9. CASE ProcessHanded
  BY Zenon, <1>9 DEF ProcessHanded, Process, Write, Refuse, Panic
<1>10. CASE FinishUnload
  BY Zenon, <1>10 DEF FinishUnload
<1>11. CASE WorkerStart
  BY Zenon, <1>11 DEF WorkerStart
<1>12. CASE WaitLock
  BY Zenon, <1>12 DEF WaitLock
<1>13. CASE WaitTimedOut
  BY Zenon, <1>13 DEF WaitTimedOut
<1>14. CASE WaitCheck
  BY Zenon, <1>14 DEF WaitCheck
<1>15. CASE WaitEval
  BY Zenon, <1>15 DEF WaitEval
<1>16. CASE WaitTimeout
  BY Zenon, <1>16 DEF WaitTimeout
<1>17. CASE Prepare
  BY Zenon, <1>17 DEF Prepare
<1>18. CASE WorkerAbort
  BY Zenon, <1>18 DEF WorkerAbort
<1>19. CASE StopCheck
  BY Zenon, <1>19 DEF StopCheck
<1>20. CASE TryLock
  BY Zenon, <1>20 DEF TryLock
<1>21. CASE Drain
  BY Zenon, <1>21 DEF Drain
<1>22. CASE ProcessBatch
  BY Zenon, <1>22 DEF ProcessBatch, Process, Write, Refuse, Panic
<1>23. CASE Release
  BY Zenon, <1>23 DEF Release
<1>24. CASE DrainAll
  BY Zenon, <1>24 DEF DrainAll
<1>25. CASE UnloadSync
  BY Zenon, <1>25 DEF UnloadSync
<1>26. CASE StoreStop
  BY Zenon, <1>26 DEF StoreStop
<1>27. CASE SpuriousWake
  BY Zenon, <1>27 DEF SpuriousWake
<1>28. ASSUME NEW d \in Dests, NotifySync(d) PROVE Stages'
  BY Zenon, <1>28 DEF NotifySync, InUnit, Defer
<1>29. ASSUME NEW d \in Dests, NotifyPush(d) PROVE Stages'
  BY Zenon, <1>29 DEF NotifyPush, InUnit, Notified
<1>30. ASSUME NEW d \in Dests, NotifyFallback(d) PROVE Stages'
  BY Zenon, <1>30 DEF NotifyFallback, InUnit, Defer
<1>31. CASE UNCHANGED vars
  BY Zenon, <1>31 DEF vars
<1> QED
  BY ZenonT(40), <1>1, <1>2, <1>3, <1>4, <1>5, <1>6, <1>7, <1>8, <1>9, <1>10, <1>11, <1>12,
     <1>13, <1>14, <1>15, <1>16, <1>17, <1>18, <1>19, <1>20, <1>21, <1>22, <1>23,
     <1>24, <1>25, <1>26, <1>27, <1>28, <1>29, <1>30, <1>31
  DEF Next, MainStep, WorkerStep, Environment, Terminated

\* Steps that move no event keep the order and the accounts.
LEMMA QuietKeepsOrder ==
  ASSUME Core, UNCHANGED <<queue, jobs, batch, handed, log, lost, nextId, panics>>,
         Ids(snap)' \subseteq Ids(snap) \cup Ids(queue), main' \in Gone <=> main \in Gone
  PROVE  Core'
<1>1. /\ Ids(queue)' = Ids(queue) /\ Ids(jobs)' = Ids(jobs)
      /\ Ids(batch)' = Ids(batch) /\ Ids(handed)' = Ids(handed)
  BY Zenon DEF Ids
<1>2. WrittenIds' = WrittenIds
  BY DEF Ids, WrittenIds
<1>3. NotificationOrder'
  BY DEF NotificationOrder, Increasing, Core
<1> QED
  BY Zenon, <1>1, <1>2, <1>3 DEF Core, Sorted, Apart, Past, Accounted, Pending, Precede, Increasing

\* The callback's new event is later than everything: it goes to the end of the
\* queue, to the end of the jobs, or is lost.
LEMMA NotifyKeepsOrder ==
  ASSUME TypeOK, Core, NEW d \in Dests,
         UNCHANGED <<batch, handed, log, panics, snap>>, batch = <<>>,
         nextId' = nextId + 1, main \notin Gone, main' \notin Gone,
         LET e == [id |-> nextId, dst |-> d] IN
           \/ queue' = Append(queue, e) /\ UNCHANGED <<jobs, lost>>
           \/ jobs' = Append(jobs, e) /\ UNCHANGED <<queue, lost>>
           \/ lost' = lost \cup {e.id} /\ UNCHANGED <<queue, jobs>>
  PROVE  Core'
<1> DEFINE e == [id |-> nextId, dst |-> d]
<1>1. e \in Event /\ e.id = nextId /\ nextId \in Nat
  BY Zenon DEF Event, TypeOK
<1>2. /\ Ids(batch) = {} /\ Ids(batch)' = {} /\ Ids(handed)' = Ids(handed)
      /\ Ids(snap)' = Ids(snap)
      /\ WrittenIds' = WrittenIds /\ NotificationOrder'
  <2>1. /\ Ids(batch) = {} /\ Ids(batch)' = {} /\ Ids(handed)' = Ids(handed)
        /\ Ids(snap)' = Ids(snap)
    BY DEF Ids
  <2>2. WrittenIds' = WrittenIds
    BY DEF Ids, WrittenIds
  <2>3. NotificationOrder'
    BY DEF NotificationOrder, Increasing, Core
  <2> QED
    BY Zenon, <2>1, <2>2, <2>3
<1>3. \A x \in WrittenIds \cup lost \cup Pending \cup Ids(snap) : x < nextId /\ x \in Nat
  <2>1. WrittenIds \cup lost \cup Pending \cup Ids(snap) \subseteq 0..(nextId - 1)
    BY Zenon DEF Core, Past
  <2>2. \A x \in 0..(nextId - 1) : x < nextId /\ x \in Nat
    BY <1>1
  <2> QED
    BY Zenon, <2>1, <2>2
<1>4. 0..(nextId' - 1) = (0..(nextId - 1)) \cup {nextId}
  BY <1>1
<1> HIDE DEF e
<1>5. CASE queue' = Append(queue, e) /\ UNCHANGED <<jobs, lost>>
  <2>1. Ids(queue)' = Ids(queue) \cup {nextId} /\ Ids(jobs)' = Ids(jobs)
    BY Zenon, <1>1, <1>5, IdsAppend DEF TypeOK
  <2>2. Increasing(queue)'
    BY Zenon, <1>1, <1>3, <1>5, IdsAppend DEF TypeOK, Core, Sorted, Precede, Pending
  <2>3. Sorted' /\ Apart'
    BY <1>2, <1>3, <1>5, <2>1, <2>2 DEF Core, Sorted, Apart, Precede, Pending
  <2>4. Past'
    BY <1>2, <1>3, <1>4, <1>5, <2>1 DEF Core, Past, Precede, Pending
  <2>5. Accounted'
    BY Zenon, <1>2, <1>4, <1>5, <2>1 DEF Core, Accounted, Pending
  <2> QED
    BY Zenon, <1>2, <2>3, <2>4, <2>5 DEF Core
<1>6. CASE jobs' = Append(jobs, e) /\ UNCHANGED <<queue, lost>>
  <2>1. Ids(jobs)' = Ids(jobs) \cup {nextId} /\ Ids(queue)' = Ids(queue)
    BY Zenon, <1>1, <1>6, IdsAppend DEF TypeOK
  <2>2. Increasing(jobs)'
    BY Zenon, <1>1, <1>3, <1>6, IdsAppend DEF TypeOK, Core, Sorted, Precede, Pending
  <2>3. Sorted' /\ Apart'
    BY <1>2, <1>3, <1>6, <2>1, <2>2 DEF Core, Sorted, Apart, Precede, Pending
  <2>4. Past'
    BY <1>2, <1>3, <1>4, <1>6, <2>1 DEF Core, Past, Precede, Pending
  <2>5. Accounted'
    BY Zenon, <1>2, <1>4, <1>6, <2>1 DEF Core, Accounted, Pending
  <2> QED
    BY Zenon, <1>2, <2>3, <2>4, <2>5 DEF Core
<1>7. CASE lost' = lost \cup {nextId} /\ UNCHANGED <<queue, jobs>>
  <2>1. Ids(jobs)' = Ids(jobs) /\ Ids(queue)' = Ids(queue)
    BY Zenon, <1>7
  <2>2. Sorted' /\ Apart'
    BY Zenon, <1>2, <1>7, <2>1 DEF Core, Sorted, Apart, Precede
  <2>3. Past'
    BY <1>2, <1>3, <1>4, <1>7, <2>1 DEF Core, Past, Precede, Pending
  <2>4. Accounted'
    BY Zenon, <1>2, <1>4, <1>7, <2>1 DEF Core, Accounted, Pending
  <2> QED
    BY Zenon, <1>2, <2>2, <2>3, <2>4 DEF Core
<1> QED
  BY Zenon, <1>1, <1>5, <1>6, <1>7 DEF e

\* Whoever holds Redis's lock drains the front of the FIFO into an empty batch,
\* followed by the event of the fallback job it runs, if it runs one.
LEMMA DrainKeepsOrder ==
  ASSUME TypeOK, Core, batch = <<>>, handed = <<>>, NEW n \in 0..Len(queue),
         UNCHANGED <<handed, log, lost, nextId, panics, snap, main>>, main \notin Gone,
         queue' = SubSeq(queue, n + 1, Len(queue)),
         \/ /\ jobs = <<>> /\ UNCHANGED jobs
            /\ batch' = SubSeq(queue, 1, n)
         \/ /\ jobs # <<>> /\ jobs' = Tail(jobs)
            /\ PrefixBefore(n, Head(jobs).id)
            /\ batch' = Append(SubSeq(queue, 1, n), Head(jobs))
  PROVE  Core'
<1> DEFINE front == SubSeq(queue, 1, n)
           back  == SubSeq(queue, n + 1, Len(queue))
<1>1. /\ front \in Seq(Event) /\ back \in Seq(Event)
      /\ Ids(queue) = Ids(front) \cup Ids(back)
      /\ Increasing(front) /\ Increasing(back)
      /\ Precede(Ids(front), Ids(back))
  BY Zenon, IdsSplit DEF TypeOK, Core, Sorted
<1>2. /\ Ids(batch) = {} /\ Ids(handed) = {} /\ Ids(handed)' = {}
      /\ Ids(snap)' = Ids(snap)
      /\ WrittenIds' = WrittenIds /\ NotificationOrder'
  BY DEF Ids, WrittenIds, NotificationOrder, Increasing, Core
<1>3. Ids(queue)' = Ids(back) /\ Increasing(queue)' /\ Increasing(handed)'
  BY Zenon, <1>1 DEF Core, Sorted
<1>4. CASE /\ jobs = <<>> /\ UNCHANGED jobs
           /\ batch' = front
  <2> HIDE DEF front, back
  <2>1. /\ Ids(jobs) = {} /\ Ids(jobs)' = {} /\ Ids(batch)' = Ids(front)
        /\ Increasing(batch)' /\ Increasing(jobs)'
    BY <1>1, <1>4 DEF Ids, Core, Sorted
  <2>2. Sorted' /\ Apart'
    BY Zenon, <1>1, <1>2, <1>3, <2>1 DEF Sorted, Apart, Precede
  <2>3. Past'
    BY Zenon, <1>1, <1>2, <1>3, <2>1 DEF Core, Past, Pending, Precede
  <2>4. Accounted'
    BY Zenon, <1>1, <1>2, <1>3, <2>1 DEF Core, Accounted, Pending
  <2> QED
    BY Zenon, <1>2, <2>2, <2>3, <2>4 DEF Core
<1>5. CASE /\ jobs # <<>> /\ jobs' = Tail(jobs)
           /\ PrefixBefore(n, Head(jobs).id)
           /\ batch' = Append(front, Head(jobs))
  <2> DEFINE h == Head(jobs).id
  <2>1. /\ Head(jobs) \in Event /\ Tail(jobs) \in Seq(Event) /\ h \in Nat
        /\ Ids(jobs) = {h} \cup Ids(Tail(jobs))
        /\ Increasing(Tail(jobs)) /\ Precede({h}, Ids(Tail(jobs)))
    BY Zenon, <1>5, TailFacts, IdsTail DEF TypeOK, Core, Sorted, Event
  <2>2. Precede(Ids(front), {h})
    <3>1. /\ Len(front) = n /\ DOMAIN front = 1..n
          /\ \A i \in 1..n : front[i] = queue[i]
      BY <1>1, SubSeqFacts DEF TypeOK
    <3>2. \A i \in 1..n : queue[i].id < h
      BY Zenon, <1>5 DEF PrefixBefore
    <3> HIDE DEF front, h
    <3> QED
      BY Zenon, <3>1, <3>2 DEF Ids, Precede
  <2>3. Precede({h}, Ids(back))
    <3>1. h \notin Ids(queue)
      BY Zenon, <2>1 DEF Core, Apart
    <3>2. /\ Len(back) = Len(queue) - n /\ DOMAIN back = 1..(Len(queue) - n)
          /\ \A i \in 1..(Len(queue) - n) : back[i] = queue[n + i]
      BY <1>1, SubSeqFacts DEF TypeOK
    <3>3. /\ \A i \in DOMAIN queue : queue[i].id \in Nat
          /\ DOMAIN queue = 1..Len(queue) /\ Len(queue) \in Nat
      BY Zenon, ElementFacts DEF TypeOK
    <3>4. ASSUME NEW i \in 1..(Len(queue) - n) PROVE h < queue[n + i].id
      <4>1. n < Len(queue) /\ queue[n + 1].id >= h
        BY <1>5, <3>3 DEF PrefixBefore
      <4>2. n + 1 \in DOMAIN queue /\ n + i \in DOMAIN queue
        BY <3>3
      <4>3. queue[n + i].id >= queue[n + 1].id
        BY SMTT(40), <3>3, <4>2 DEF Core, Sorted, Increasing
      <4>4. queue[n + i].id # h
        BY Zenon, <3>1, <4>2 DEF Ids
      <4>5. h \in Nat /\ queue[n + 1].id \in Nat /\ queue[n + i].id \in Nat
        BY Zenon, <2>1, <3>3, <4>2
      <4> HIDE DEF h
      <4> QED
        BY SMTT(40), <4>1, <4>3, <4>4, <4>5
    <3> HIDE DEF back, h
    <3> QED
      BY Zenon, <3>2, <3>4 DEF Ids, Precede
  <2>4. Ids(batch)' = Ids(front) \cup {h} /\ Increasing(batch)'
    BY Zenon, <1>1, <1>5, <2>1, <2>2, IdsAppend
  <2>5. Ids(jobs)' = Ids(Tail(jobs)) /\ Increasing(jobs)'
    BY Zenon, <1>5, <2>1
  <2>6. Ids(front) \subseteq Nat /\ Ids(back) \subseteq Nat /\ Ids(Tail(jobs)) \subseteq Nat
    BY Zenon, <1>1, <2>1, IdsFacts
  <2> HIDE DEF front, back, h
  <2>7. Sorted'
    BY Zenon, <1>3, <2>4, <2>5 DEF Sorted
  <2>8. Apart'
    <3>1. Precede(Ids(batch)', Ids(queue)' \cup Ids(jobs)')
      BY <1>1, <1>3, <2>1, <2>2, <2>3, <2>4, <2>5, <2>6 DEF Precede
    <3>2. Ids(queue)' \cap Ids(jobs)' = {}
      BY Zenon, <1>1, <1>3, <2>1, <2>5 DEF Core, Apart
    <3> QED
      BY Zenon, <3>1, <3>2 DEF Apart
  <2>9. Past'
    BY ZenonT(40), <1>1, <1>2, <1>3, <2>1, <2>4, <2>5 DEF Core, Past, Pending, Precede
  <2>10. Accounted'
    BY Zenon, <1>1, <1>2, <1>3, <2>1, <2>4, <2>5 DEF Core, Accounted, Pending
  <2> QED
    BY Zenon, <1>2, <2>7, <2>8, <2>9, <2>10 DEF Core
<1> QED
  BY Zenon, <1>4, <1>5

\* drain_snapshot's two ids are enough: what the worker writes is what it takes
\* off the front of the FIFO.
LEMMA SnapshotIsFresh ==
  ASSUME TypeOK, SnapshotInv
  PROVE  SnapshotFresh
<1> SUFFICES ASSUME worker = "drain", snap # <<>>, SnapshotMatches
             PROVE  SubSeq(queue, 1, Len(snap)) = snap
  BY Zenon DEF SnapshotFresh
<1>1. Len(snap) \in Nat /\ Len(snap) >= 1 /\ Len(queue) \in Nat /\ snap[1].id \in Nat
  BY ElementFacts DEF TypeOK
<1>2. queue[1].id \in Ids(queue)
  BY <1>1, IdsFacts DEF SnapshotMatches, TypeOK
<1>3. ~Precede({snap[1].id}, Ids(queue))
  BY <1>1, <1>2 DEF SnapshotMatches, Precede
<1> QED
  BY Zenon, <1>3 DEF SnapshotInv

\* Draining by the snapshot and draining by count both move the FIFO's front.
LEMMA DrainTakesFront ==
  ASSUME TypeOK, SnapshotInv, Drain
  PROVE  \E n \in 0..Len(queue) : /\ queue' = SubSeq(queue, n + 1, Len(queue))
                                  /\ batch' = SubSeq(queue, 1, n)
<1> DEFINE n == DrainCount
<1>1. n \in 0..Len(queue)
  BY ConstantsAssumption DEF DrainCount, SnapshotMatches, SmallerOf, TypeOK
<1>2. queue' = SubSeq(queue, n + 1, Len(queue))
  BY Zenon DEF Drain
<1>3. batch' = SubSeq(queue, 1, n)
  <2>1. CASE snap = <<>>
    BY Zenon, <2>1 DEF Drain
  <2>2. CASE snap # <<>> /\ SnapshotMatches
    <3>1. n = Len(snap) /\ SubSeq(queue, 1, Len(snap)) = snap
      BY Zenon, <2>2, SnapshotIsFresh DEF DrainCount, SnapshotFresh, Drain
    <3>2. SubSeq(snap, 1, Len(snap)) = snap
      BY DEF TypeOK
    <3> QED
      BY Zenon, <2>2, <3>1, <3>2 DEF Drain
  <2>3. CASE snap # <<>> /\ ~SnapshotMatches
    <3>1. n = 0
      BY Zenon, <2>3 DEF DrainCount
    <3>2. SubSeq(snap, 1, 0) = <<>> /\ SubSeq(queue, 1, 0) = <<>>
      BY DEF TypeOK
    <3> QED
      BY Zenon, <2>3, <3>1, <3>2 DEF Drain
  <2> QED
    BY Zenon, <2>1, <2>2, <2>3
<1> QED
  BY Zenon, <1>1, <1>2, <1>3

\* Every step keeps the order and the accounts.
LEMMA CoreNext ==
  ASSUME TypeInv, Stages, Core, SnapshotInv, [Next]_vars
  PROVE  Core'
<1> USE ConstantsAssumption
<1> USE DEF MainStates, WorkerStates, MainHolds, WorkerHolds, Gone, shared, mainVars,
            workerVars, outcomes
<1>0. TypeOK /\ Ids(<<>>) = {} /\ Increasing(<<>>)
  BY DEF TypeInv, Ids, Increasing
<1>1. CASE EndUnit
  BY Zenon, <1>1, QuietKeepsOrder DEF EndUnit
<1>2. CASE EndJobs
  BY Zenon, <1>2, QuietKeepsOrder DEF EndJobs
<1>3. CASE Wake
  BY Zenon, <1>3, QuietKeepsOrder DEF Wake
<1>4. CASE StoreStop
  BY Zenon, <1>4, QuietKeepsOrder DEF StoreStop
<1>5. CASE SpuriousWake
  BY Zenon, <1>5, QuietKeepsOrder DEF SpuriousWake
<1>6. CASE WorkerStart
  BY Zenon, <1>6, QuietKeepsOrder DEF WorkerStart
<1>7. CASE WaitLock
  BY Zenon, <1>7, QuietKeepsOrder DEF WaitLock
<1>8. CASE WaitTimedOut
  BY Zenon, <1>8, QuietKeepsOrder DEF WaitTimedOut
<1>9. CASE WaitCheck
  BY Zenon, <1>9, QuietKeepsOrder DEF WaitCheck
<1>10. CASE WaitEval
  BY Zenon, <1>10, QuietKeepsOrder DEF WaitEval
<1>11. CASE WaitTimeout
  BY Zenon, <1>11, QuietKeepsOrder DEF WaitTimeout
<1>12. CASE WorkerAbort
  BY Zenon, <1>12, QuietKeepsOrder DEF WorkerAbort
<1>13. CASE StopCheck
  BY Zenon, <1>13, QuietKeepsOrder DEF StopCheck
<1>14. CASE TryLock
  BY Zenon, <1>14, QuietKeepsOrder DEF TryLock
<1>15. CASE Release
  BY Zenon, <1>15, <1>0, QuietKeepsOrder DEF Release
<1>16. CASE Prepare
  <2>1. Ids(snap)' \subseteq Ids(snap) \cup Ids(queue)
    <3>1. SmallerOf(Len(queue), BatchSize) \in 0..Len(queue)
      BY <1>0 DEF SmallerOf, TypeOK
    <3>2. snap' = <<>> \/ snap' = SubSeq(queue, 1, SmallerOf(Len(queue), BatchSize))
      BY ZenonT(40), <1>16 DEF Prepare
    <3>3. Ids(SubSeq(queue, 1, SmallerOf(Len(queue), BatchSize))) \subseteq Ids(queue)
      BY <1>0, <3>1, IdsSplit DEF TypeOK
    <3> QED
      BY Zenon, <1>0, <3>2, <3>3
  <2> QED
    BY Zenon, <1>16, <2>1, QuietKeepsOrder DEF Prepare
<1>17. ASSUME NEW d \in Dests, NotifySync(d) PROVE Core'
  <2>1. batch = <<>> /\ main \notin Gone /\ main' \notin Gone
    BY Zenon, <1>17 DEF NotifySync, InUnit, Stages, TypeInv, Locks
  <2>2. nextId' = nextId + 1 /\ UNCHANGED <<batch, handed, log, panics, snap>>
    BY Zenon, <1>17 DEF NotifySync, InUnit
  <2> QED
    BY Zenon, <1>17, <1>0, <2>1, <2>2, NotifyKeepsOrder DEF NotifySync, Defer
<1>18. ASSUME NEW d \in Dests, NotifyPush(d) PROVE Core'
  <2>1. batch = <<>> /\ main \notin Gone /\ main' \notin Gone
    BY Zenon, <1>18 DEF NotifyPush, InUnit, Stages, TypeInv, Locks
  <2>2. nextId' = nextId + 1 /\ UNCHANGED <<batch, handed, log, panics, snap>>
    BY Zenon, <1>18 DEF NotifyPush, InUnit
  <2> QED
    BY Zenon, <1>18, <1>0, <2>1, <2>2, NotifyKeepsOrder DEF NotifyPush
<1>19. ASSUME NEW d \in Dests, NotifyFallback(d) PROVE Core'
  <2>1. batch = <<>> /\ main \notin Gone /\ main' \notin Gone
    BY Zenon, <1>19 DEF NotifyFallback, InUnit, Stages, TypeInv, Locks
  <2>2. nextId' = nextId + 1 /\ UNCHANGED <<batch, handed, log, panics, snap>>
    BY Zenon, <1>19 DEF NotifyFallback, InUnit
  <2> QED
    BY Zenon, <1>19, <1>0, <2>1, <2>2, NotifyKeepsOrder DEF NotifyFallback, Defer
<1>20. CASE RunSyncJob
  <2>1. queue = <<>> /\ handed = <<>> /\ batch = <<>> /\ main \notin Gone
    BY Zenon, <1>20 DEF RunSyncJob, Stages, TypeInv, Phases
  <2>2. SubSeq(queue, 1, 0) = <<>> /\ SubSeq(queue, 0 + 1, Len(queue)) = <<>>
        /\ PrefixBefore(0, Head(jobs).id)
    BY <2>1 DEF PrefixBefore
  <2>3. Append(SubSeq(queue, 1, 0), Head(jobs)) = <<Head(jobs)>>
    <3>1. Head(jobs) \in Event
      BY Zenon, <1>0, TailFacts, <1>20 DEF RunSyncJob, TypeOK
    <3>2. Append(<<>>, Head(jobs)) = <<Head(jobs)>>
      BY <3>1
    <3> QED
      BY Zenon, <2>2, <3>2
  <2> QED
    BY <1>20, <1>0, <2>1, <2>2, <2>3, DrainKeepsOrder DEF RunSyncJob
<1>21. CASE RunFallbackJob
  <2>1. batch = <<>> /\ handed = <<>> /\ main \notin Gone /\ jobs # <<>>
    BY Zenon, <1>21 DEF RunFallbackJob, Stages
  <2>2. PICK n \in 0..Len(queue) :
          /\ PrefixBefore(n, Head(jobs).id)
          /\ batch' = Append(SubSeq(queue, 1, n), Head(jobs))
          /\ queue' = SubSeq(queue, n + 1, Len(queue))
    BY Zenon, <1>21 DEF RunFallbackJob
  <2>3. jobs' = Tail(jobs) /\ UNCHANGED <<handed, log, lost, nextId, panics, snap, main>>
    BY Zenon, <1>21 DEF RunFallbackJob
  <2> QED
    BY Zenon, <1>0, <2>1, <2>2, <2>3, DrainKeepsOrder
<1>22. CASE Drain
  <2>1. batch = <<>> /\ handed = <<>> /\ jobs = <<>> /\ main \notin Gone
    BY Zenon, <1>22 DEF Drain, Stages, TypeInv, Locks, Phases
  <2>2. UNCHANGED <<jobs, handed, log, lost, nextId, panics, snap, main>>
    BY Zenon, <1>22 DEF Drain
  <2> QED
    BY Zenon, <1>22, <1>0, <2>1, <2>2, DrainTakesFront, DrainKeepsOrder
<1>23. CASE ProcessJob
  <2>1. \E n \in 1..Len(batch) : Process(n) \/ Panic(n)
    BY <1>23, <1>0 DEF ProcessJob, TypeOK
  <2>2. handed = <<>> /\ UNCHANGED <<queue, jobs, handed, nextId, snap, main>>
    BY Zenon, <1>23 DEF ProcessJob, Stages, TypeInv, Locks, Phases
  <2> QED
    BY Zenon, <1>0, <2>1, <2>2, SettleKeepsOrder DEF Core
<1>24. CASE ProcessHanded
  <2>1. \E n \in 1..Len(batch) : Process(n) \/ Panic(n)
    BY <1>24, <1>0 DEF ProcessHanded, TypeOK
  <2>2. handed = <<>> /\ UNCHANGED <<queue, jobs, handed, nextId, snap, main>>
    BY Zenon, <1>24 DEF ProcessHanded, Stages, TypeInv, Locks, Phases
  <2> QED
    BY Zenon, <1>0, <2>1, <2>2, SettleKeepsOrder DEF Core
<1>25. CASE ProcessBatch
  <2>1. \E n \in 1..Len(batch) : Process(n) \/ Panic(n)
    BY Zenon, <1>25, <1>0 DEF ProcessBatch, TypeOK
  <2>2. handed = <<>> /\ UNCHANGED <<queue, jobs, handed, nextId, snap, main>>
    BY Zenon, <1>25 DEF ProcessBatch, Stages, TypeInv, Locks, Phases
  <2> QED
    BY Zenon, <1>0, <2>1, <2>2, SettleKeepsOrder DEF Core
<1>26. CASE JoinOk
  <2>1. queue = <<>> /\ jobs = <<>> /\ batch = <<>>
    BY Zenon, <1>26 DEF JoinOk, Stages, TypeInv, Locks
  <2>2. /\ UNCHANGED <<queue, jobs, log, lost, nextId, panics, snap>>
        /\ batch' = handed /\ handed' = <<>> /\ main' \in Gone
    BY Zenon, <1>26 DEF JoinOk
  <2>3. /\ Ids(queue)' = {} /\ Ids(jobs)' = {} /\ Ids(handed)' = {} /\ Ids(queue) = {}
        /\ Ids(jobs) = {} /\ Ids(batch) = {} /\ Ids(batch)' = Ids(handed)
        /\ Ids(snap)' = Ids(snap)
        /\ WrittenIds' = WrittenIds /\ NotificationOrder'
    BY <1>0, <2>1, <2>2 DEF Core, WrittenIds, NotificationOrder
  <2>4. Sorted' /\ Apart'
    BY Zenon, <1>0, <2>1, <2>2, <2>3 DEF Core, Sorted, Apart, Precede
  <2>5. Past' /\ Accounted'
    BY Zenon, <2>2, <2>3 DEF Core, Past, Accounted, Pending, Precede
  <2> QED
    BY Zenon, <2>3, <2>4, <2>5 DEF Core
<1>27. CASE JoinErr
  <2>1. handed = <<>> /\ jobs = <<>> /\ batch = <<>>
    BY Zenon, <1>27 DEF JoinErr, Stages, TypeInv, Locks
  <2>2. /\ UNCHANGED <<queue, jobs, batch, handed, log, nextId, panics, snap>>
        /\ main \notin Gone /\ main' \in Gone
    BY Zenon, <1>27 DEF JoinErr
  <2>3. lost' = lost \cup Ids(queue)
    <3>1. depth = Len(queue) /\ DOMAIN queue = 1..Len(queue)
      <4>1. main = "join" /\ queue \in Seq(Event) /\ Gauge
        BY Zenon, <1>27, <1>0 DEF JoinErr, TypeInv, TypeOK
      <4>2. main \notin Gone
        BY <4>1 DEF Gone
      <4> QED  BY Zenon, <4>1, <4>2, ElementFacts DEF Gauge
    <3> QED
      BY Zenon, <1>27, <3>1 DEF JoinErr, Ids
  <2>4. /\ Ids(queue)' = Ids(queue) /\ Ids(jobs)' = {} /\ Ids(handed)' = {}
        /\ Ids(batch)' = {} /\ Ids(jobs) = {} /\ Ids(batch) = {} /\ Ids(handed) = {}
        /\ Ids(snap)' = Ids(snap)
        /\ WrittenIds' = WrittenIds /\ NotificationOrder'
    BY <1>0, <2>1, <2>2 DEF Core, WrittenIds, NotificationOrder
  <2>5. Sorted' /\ Apart'
    BY Zenon, <2>2, <2>4 DEF Core, Sorted, Apart, Precede
  <2>6. WrittenIds \cap Ids(queue) = {}
    BY SMTT(40) DEF Core, Past, Pending, Precede
  <2>7. Past' /\ Accounted'
    BY Zenon, <2>2, <2>3, <2>4, <2>6 DEF Core, Past, Accounted, Pending, Precede
  <2> QED
    BY Zenon, <2>4, <2>5, <2>7 DEF Core
<1>28. CASE FinishUnload
  <2>1. /\ UNCHANGED <<jobs, batch, handed, log, lost, nextId, panics, snap>>
        /\ main \in Gone /\ main' \in Gone /\ queue' = <<>>
    BY Zenon, <1>28 DEF FinishUnload
  <2>2. /\ Ids(queue)' = {} /\ Ids(jobs)' = Ids(jobs) /\ Ids(handed)' = Ids(handed)
        /\ Ids(batch)' = Ids(batch) /\ Ids(snap)' = Ids(snap)
        /\ WrittenIds' = WrittenIds /\ NotificationOrder'
    BY ZenonT(40), <1>0, <2>1 DEF Core, WrittenIds, NotificationOrder
  <2>3. Sorted' /\ Apart'
    BY Zenon, <1>0, <2>1, <2>2 DEF Core, Sorted, Apart, Precede
  <2>4. Past' /\ Accounted'
    BY Zenon, <2>1, <2>2 DEF Core, Past, Accounted, Pending, Precede
  <2> QED
    BY Zenon, <2>2, <2>3, <2>4 DEF Core
<1>29. CASE DrainAll
  <2>1. batch = <<>> /\ handed = <<>> /\ jobs = <<>> /\ main \notin Gone
    BY Zenon, <1>29 DEF DrainAll, Stages, TypeInv, Locks, Phases, TypeOK
  <2>2. /\ UNCHANGED <<jobs, batch, log, lost, nextId, panics, main>>
        /\ handed' = queue /\ queue' = <<>> /\ snap' = <<>>
    BY Zenon, <1>29 DEF DrainAll
  <2>3. /\ Ids(queue)' = {} /\ Ids(jobs)' = {} /\ Ids(handed)' = Ids(queue)
        /\ Ids(batch)' = {} /\ Ids(handed) = {} /\ Ids(jobs) = {} /\ Ids(batch) = {}
        /\ Ids(snap)' = {}
        /\ WrittenIds' = WrittenIds /\ NotificationOrder'
    BY ZenonT(40), <1>0, <2>1, <2>2 DEF Core, WrittenIds, NotificationOrder
  <2>4. Sorted' /\ Apart'
    BY Zenon, <1>0, <2>2, <2>3 DEF Core, Sorted, Apart, Precede
  <2>5. Past' /\ Accounted'
    BY Zenon, <2>1, <2>2, <2>3 DEF Core, Past, Accounted, Pending, Precede
  <2> QED
    BY Zenon, <2>3, <2>4, <2>5 DEF Core
<1>30. CASE UnloadSync
  <2>1. queue = <<>>
    BY Zenon, <1>30 DEF UnloadSync, Stages, TypeInv, Phases
  <2>2. UNCHANGED <<queue, jobs, batch, handed, log, lost, nextId, panics, snap>>
    BY Zenon, <1>30 DEF UnloadSync
  <2>3. /\ Ids(queue)' = {} /\ Ids(queue) = {} /\ Ids(jobs)' = Ids(jobs)
        /\ Ids(handed)' = Ids(handed)
        /\ Ids(batch)' = Ids(batch) /\ Ids(snap)' = Ids(snap)
        /\ WrittenIds' = WrittenIds /\ NotificationOrder'
    BY SMTT(40), <1>0, <2>1, <2>2 DEF Core, WrittenIds, NotificationOrder
  <2>4. Sorted' /\ Apart'
    BY Zenon, <2>2, <2>3 DEF Core, Sorted, Apart, Precede
  <2>5. Past' /\ Accounted'
    BY Zenon, <2>2, <2>3 DEF Core, Past, Accounted, Pending, Precede
  <2> QED
    BY Zenon, <2>3, <2>4, <2>5 DEF Core
<1>31. CASE UNCHANGED vars
  BY Zenon, <1>31, QuietKeepsOrder DEF vars
<1> QED
  BY Zenon, <1>1, <1>2, <1>3, <1>4, <1>5, <1>6, <1>7, <1>8, <1>9, <1>10, <1>11, <1>12,
     <1>13, <1>14, <1>15, <1>16, <1>17, <1>18, <1>19, <1>20, <1>21, <1>22, <1>23,
     <1>24, <1>25, <1>26, <1>27, <1>28, <1>29, <1>30, <1>31
  DEF Next, MainStep, WorkerStep, Environment, Terminated

\* A prepared snapshot stays the front of the FIFO, or loses its first event for
\* good: pushes go to the back, and a fallback takes from the front.
LEMMA SnapshotNext ==
  ASSUME TypeInv, Increasing(queue), Ids(snap) \subseteq 0..(nextId - 1), SnapshotInv,
         [Next]_vars
  PROVE  SnapshotInv'
<1> DEFINE Holding == worker \in {"stopcheck", "try", "drain"} /\ snap # <<>>
<1>1. TypeOK /\ Len(queue) \in Nat /\ Len(snap) \in Nat
  BY DEF TypeInv, TypeOK
<1>2. ASSUME UNCHANGED <<queue, snap>>, Holding' => Holding PROVE SnapshotInv'
  BY Zenon, <1>2 DEF SnapshotInv
<1>3. ASSUME ~Holding' PROVE SnapshotInv'
  BY Zenon, <1>3 DEF SnapshotInv
<1>4. CASE Prepare
  <2> DEFINE m == SmallerOf(Len(queue), BatchSize)
  <2>1. m \in 0..Len(queue) /\ (queue' = queue)
    BY <1>1, <1>4, ConstantsAssumption DEF SmallerOf, Prepare, shared
  <2>2. snap' = <<>> \/ snap' = SubSeq(queue, 1, m)
    BY ZenonT(40), <1>4 DEF Prepare
  <2>3. Len(SubSeq(queue, 1, m)) = m
    BY <1>1, <2>1, SubSeqFacts DEF TypeOK
  <2> HIDE DEF m
  <2> QED
    BY <1>1, <2>1, <2>2, <2>3 DEF SnapshotInv
<1>5. ASSUME NEW d \in Dests, NotifyPush(d) PROVE SnapshotInv'
  <2> DEFINE e == [id |-> nextId, dst |-> d]
  <2>1. /\ queue' = Append(queue, e) /\ snap' = snap /\ (Holding' => Holding)
        /\ e \in Event /\ e.id = nextId /\ nextId \in Nat
    BY Zenon, <1>1, <1>5 DEF NotifyPush, Notified, Event, TypeOK
  <2> HIDE DEF e
  <2> SUFFICES ASSUME Holding
               PROVE  \/ Len(snap) <= Len(queue') /\ snap = SubSeq(queue', 1, Len(snap))
                      \/ Precede({snap[1].id}, Ids(queue'))
    BY Zenon, <2>1 DEF SnapshotInv, Ids
  <2>2. CASE Len(snap) <= Len(queue) /\ snap = SubSeq(queue, 1, Len(snap))
    <3>1. /\ Len(queue') = Len(queue) + 1 /\ queue' \in Seq(Event)
          /\ \A i \in 1..Len(queue) : queue'[i] = queue[i]
      BY Zenon, <1>1, <2>1, AppendFacts DEF TypeOK
    <3>2. SubSeq(queue', 1, Len(snap)) = SubSeq(queue, 1, Len(snap))
      BY <1>1, <2>2, <3>1 DEF TypeOK
    <3> QED
      BY <1>1, <2>2, <3>1, <3>2
  <2>3. CASE Precede({snap[1].id}, Ids(queue))
    <3>1. snap[1].id \in Ids(snap)
      BY SMTT(40), <1>1, IdsFacts DEF TypeOK
    <3>2. snap[1].id < nextId
      <4>1. snap[1].id \in 0..(nextId - 1)
        BY Zenon, <3>1
      <4> QED
        BY SMTT(40), <2>1, <4>1
    <3>3. Ids(queue') = Ids(queue) \cup {nextId}
      BY Zenon, <1>1, <2>1, IdsAppend DEF TypeOK
    <3> QED
      BY Zenon, <2>3, <3>2, <3>3 DEF Precede
  <2> QED
    BY Zenon, <2>2, <2>3 DEF SnapshotInv
<1>6. CASE RunFallbackJob
  <2>1. PICK n \in 0..Len(queue) : queue' = SubSeq(queue, n + 1, Len(queue))
    BY Zenon, <1>6 DEF RunFallbackJob
  <2>2. UNCHANGED <<worker, snap>>
    BY Zenon, <1>6 DEF RunFallbackJob, workerVars
  <2>3. CASE n = 0
    BY <1>1, <1>2, <2>1, <2>2, <2>3 DEF TypeOK
  <2>4. CASE n # 0
    <3> SUFFICES ASSUME Holding PROVE Precede({snap[1].id}, Ids(queue'))
      BY Zenon, <2>2 DEF SnapshotInv, Ids
    <3>1. /\ Ids(queue) = Ids(SubSeq(queue, 1, n)) \cup Ids(queue')
          /\ Precede(Ids(SubSeq(queue, 1, n)), Ids(queue'))
      BY Zenon, <1>1, <2>1, IdsSplit DEF TypeOK
    <3>2. CASE Len(snap) <= Len(queue) /\ snap = SubSeq(queue, 1, Len(snap))
      <4>1. snap[1] = queue[1] /\ queue[1] = SubSeq(queue, 1, n)[1]
        BY <1>1, <2>4, <3>2, SubSeqFacts DEF TypeOK
      <4>2. SubSeq(queue, 1, n) \in Seq(Event) /\ Len(SubSeq(queue, 1, n)) = n
        BY <1>1, SubSeqFacts DEF TypeOK
      <4>3. 1 \in 1..Len(SubSeq(queue, 1, n))
        BY <1>1, <2>4, <4>2
      <4>4. SubSeq(queue, 1, n)[1].id \in Ids(SubSeq(queue, 1, n))
        BY Zenon, <4>2, <4>3, IdsFacts
      <4> QED
        BY Zenon, <3>1, <4>1, <4>4 DEF Precede
    <3>3. CASE Precede({snap[1].id}, Ids(queue))
      BY Zenon, <3>1, <3>3 DEF Precede
    <3> QED
      BY Zenon, <3>2, <3>3 DEF SnapshotInv
  <2> QED
    BY Zenon, <2>3, <2>4
<1>7. CASE Drain \/ DrainAll \/ FinishUnload
  BY Zenon, <1>3, <1>7 DEF Drain, DrainAll, FinishUnload, workerVars, TypeInv, Phases, Gone
<1>8. CASE \/ EndUnit \/ RunSyncJob \/ ProcessJob \/ EndJobs \/ Wake \/ JoinOk \/ JoinErr
           \/ ProcessHanded \/ UnloadSync \/ StoreStop
           \/ \E d \in Dests : NotifySync(d) \/ NotifyFallback(d)
  BY ZenonT(40), <1>2, <1>8 DEF EndUnit, RunSyncJob, ProcessJob, EndJobs, Wake, Notified, JoinOk,
     JoinErr, ProcessHanded, UnloadSync, StoreStop, NotifySync, NotifyFallback,
     workerVars, shared
<1>9. CASE \/ WorkerStart \/ WaitLock \/ WaitTimedOut \/ WaitCheck \/ WaitEval
           \/ WaitTimeout \/ SpuriousWake \/ WorkerAbort \/ Release \/ ProcessBatch
  BY Zenon, <1>3, <1>9 DEF WorkerStart, WaitLock, WaitTimedOut, WaitCheck, WaitEval,
     WaitTimeout, SpuriousWake, WorkerAbort, Release, ProcessBatch, workerVars
<1>10. CASE StopCheck \/ TryLock
  BY Zenon, <1>2, <1>10 DEF StopCheck, TryLock, shared
<1>11. CASE UNCHANGED vars
  BY Zenon, <1>2, <1>11 DEF vars, shared, workerVars
<1> QED
  BY Zenon, <1>4, <1>5, <1>6, <1>7, <1>8, <1>9, <1>10, <1>11
  DEF Next, MainStep, WorkerStep, Environment, Terminated

\* The invariant holds when dispatch starts.
LEMMA OrderInvInit == Init => OrderInv
<1> SUFFICES ASSUME Init PROVE OrderInv
  BY Zenon
<1>1. /\ Ids(queue) = {} /\ Ids(jobs) = {} /\ Ids(batch) = {} /\ Ids(handed) = {}
      /\ Ids(snap) = {} /\ WrittenIds = {} /\ lost = {} /\ nextId = 0
      /\ main = "idle"
  BY DEF Init, Ids, WrittenIds
<1>2. Sorted /\ NotificationOrder
  BY SMTT(40) DEF Init, Sorted, Increasing, NotificationOrder
<1>3. Apart /\ Past /\ Accounted
  BY <1>1 DEF Apart, Past, Accounted, Pending, Precede, Gone
<1>4. Stages /\ SnapshotInv
  BY Zenon, ConstantsAssumption DEF Init, Stages, SnapshotInv, Gone
<1> QED
  BY Zenon, <1>2, <1>3, <1>4, TypeInvInit DEF OrderInv, Core

\* Every step keeps the invariant, if the worker got its context.
LEMMA OrderInvNext ==
  ASSUME "context" \notin Faults
  PROVE  OrderInv /\ [Next]_vars => OrderInv'
<1> SUFFICES ASSUME OrderInv, [Next]_vars PROVE OrderInv'
  BY Zenon
<1>1. TypeInv'
  BY Zenon, TypeInvNext DEF OrderInv
<1>2. Stages'
  BY Zenon, <1>1, StagesNext DEF OrderInv
<1>3. Core'
  BY Zenon, CoreNext DEF OrderInv
<1>4. SnapshotInv'
  <2>1. Increasing(queue) /\ Ids(snap) \subseteq 0..(nextId - 1)
    BY Zenon DEF OrderInv, Core, Sorted, Past
  <2> QED  BY Zenon, <2>1, SnapshotNext DEF OrderInv
<1> QED
  BY Zenon, <1>1, <1>2, <1>3, <1>4 DEF OrderInv

\* The events of dispatch.rs are always where the invariant puts them.
THEOREM OrderInvariant ==
  ASSUME "context" \notin Faults
  PROVE  Spec => []OrderInv
  BY OrderInvInit, OrderInvNext, PTL DEF Spec

\* If the worker gets its context, events are written in exactly notification
\* order, through any interleaving of callbacks, fallbacks, worker drains, refused
\* registrations and writes, panics and the unload.
THEOREM OrderCorrect ==
  ASSUME "context" \notin Faults
  PROVE  Spec => []NotificationOrder
<1>1. OrderInv => NotificationOrder
  BY Zenon DEF OrderInv, Core
<1> QED
  BY <1>1, OrderInvariant, PTL

\* When the unload has finished, every notified event was written or counted,
\* unless a panic was.
THEOREM LossCorrect ==
  ASSUME "context" \notin Faults
  PROVE  Spec => []NoSilentLoss
<1>1. OrderInv => NoSilentLoss
  <2> SUFFICES ASSUME OrderInv, main = "unloaded", panics = 0
               PROVE  WrittenIds \cup lost = NotifiedIds
    BY Zenon DEF NoSilentLoss
  <2>1. jobs = <<>> /\ handed = <<>> /\ batch = <<>>
    BY Zenon DEF OrderInv, Stages, TypeInv, Phases, Gone
  <2>2. Ids(jobs) = {} /\ Ids(handed) = {} /\ Ids(batch) = {}
    BY <2>1 DEF Ids
  <2>3. Ids(queue) \subseteq lost
    BY Zenon DEF OrderInv, Core, Past, Gone
  <2>4. WrittenIds \cup lost \subseteq 0..(nextId - 1)
    BY Zenon DEF OrderInv, Core, Past
  <2>5. 0..(nextId - 1) \subseteq WrittenIds \cup lost
    BY Zenon, <2>2, <2>3 DEF OrderInv, Core, Accounted, Pending
  <2> QED
    BY Zenon, <2>4, <2>5 DEF NotifiedIds
<1> QED
  BY <1>1, OrderInvariant, PTL

NoPanics == panics = 0

\* Without panics the count of them stays zero.
LEMMA NoPanicsNext ==
  ASSUME "panic" \notin Faults
  PROVE  NoPanics /\ [Next]_vars => NoPanics'
  BY Zenon DEF NoPanics, Next, MainStep, WorkerStep, Environment, Terminated, vars, shared,
     mainVars, workerVars, outcomes, EndUnit, RunSyncJob, RunFallbackJob, ProcessJob, EndJobs,
     Wake, JoinOk, JoinErr, ProcessHanded, FinishUnload, WorkerStart, WaitLock,
     WaitTimedOut, WaitCheck, WaitEval, WaitTimeout, Prepare, WorkerAbort, StopCheck,
     TryLock, Drain, ProcessBatch, Release, DrainAll, NotifySync, NotifyPush,
     NotifyFallback, UnloadSync, StoreStop, SpuriousWake, Process, Write, Refuse, Panic

\* With no panic, what the abstract log calls unsettled is what is pending: the
\* ids in the FIFO, in jobs, in the batch and in the worker's return value.
LEMMA UnsettledIsPending ==
  ASSUME OrderInv, panics = 0
  PROVE  /\ main \notin Gone => EL!Unsettled = Pending
         /\ main \in Gone => EL!Unsettled = Ids(batch)
<1>1. /\ WrittenIds \cup lost \cup Pending \subseteq 0..(nextId - 1)
      /\ 0..(nextId - 1) \subseteq WrittenIds \cup lost \cup Pending
  BY Zenon DEF OrderInv, Core, Past, Accounted
<1>2. WrittenIds \cap Pending = {}
  BY <1>1 DEF OrderInv, Core, Past, Precede
<1>3. ASSUME main \notin Gone PROVE EL!Unsettled = Pending
  <2>1. lost \cap Pending = {}
    BY Zenon, <1>3 DEF OrderInv, Core, Past, Pending
  <2> QED
    BY Zenon, <1>1, <1>2, <2>1 DEF EL!Unsettled
<1>4. ASSUME main \in Gone PROVE EL!Unsettled = Ids(batch)
  <2>1. jobs = <<>> /\ handed = <<>>
    BY Zenon, <1>4 DEF OrderInv, Stages, Gone
  <2>2. Ids(jobs) = {} /\ Ids(handed) = {}
    BY <2>1 DEF Ids
  <2>3. Ids(queue) \subseteq lost /\ lost \cap Ids(batch) = {}
    BY Zenon, <1>4 DEF OrderInv, Core, Past
  <2> QED
    BY Zenon, <1>1, <1>2, <2>2, <2>3 DEF EL!Unsettled, Pending
<1> QED
  BY Zenon, <1>3, <1>4

\* Writing or refusing the first n drained events settles the oldest unsettled
\* ones.
LEMMA ProcessSettles ==
  ASSUME OrderInv, panics = 0, NEW n \in 1..Len(batch), Process(n),
         main # "unloaded", UNCHANGED <<main, nextId>>
  PROVE  EL!Settle
<1> DEFINE es   == SubSeq(batch, 1, n)
           rest == SubSeq(batch, n + 1, Len(batch))
<1>1. TypeOK
  BY Zenon DEF OrderInv, TypeInv
<1>2. /\ es \in Seq(Event) /\ Ids(batch) = Ids(es) \cup Ids(rest)
      /\ Precede(Ids(es), Ids(rest)) /\ Increasing(es)
  BY <1>1, IdsSplit DEF TypeOK, OrderInv, Core, Sorted
<1>3. Len(es) = n /\ es[1] \in Event
  BY <1>1, SubSeqFacts DEF TypeOK
<1>4. Ids(es) # {}
  <2>1. es # <<>>
    BY <1>3
  <2> QED
    BY Zenon, <1>2, <2>1, IdsFacts
<1>5. [dst |-> es[1].dst, events |-> es] \in Entry
  BY Zenon, <1>2, <1>3 DEF Entry, Event
<1>6. batch # <<>> /\ handed = <<>>
  BY DEF OrderInv, Stages, TypeInv, Locks, Phases, MainHolds, WorkerHolds, Gone
<1>7. Ids(handed) = {}
  BY <1>6 DEF Ids
<1> HIDE DEF es, rest
<1>8. Ids(es) \subseteq EL!Unsettled
  BY Zenon, <1>2, UnsettledIsPending DEF Pending
<1>9. \A e \in Ids(es) : \A o \in EL!Unsettled \ Ids(es) : e < o
  <2>1. EL!Unsettled \subseteq Ids(batch) \cup Ids(queue) \cup Ids(jobs)
    BY Zenon, <1>7, UnsettledIsPending DEF Pending
  <2>2. Precede(Ids(batch), Ids(queue) \cup Ids(jobs))
    BY Zenon DEF OrderInv, Core, Apart
  <2> QED
    BY Zenon, <1>2, <2>1, <2>2 DEF Precede
<1>10. \/ WrittenIds' = WrittenIds \cup Ids(es) /\ lost' = lost
       \/ lost' = lost \cup Ids(es) /\ WrittenIds' = WrittenIds
  <2>1. CASE Write(n)
    <3>1. log' = Append(log, [dst |-> es[1].dst, events |-> es]) /\ lost' = lost
      BY Zenon, <2>1 DEF Write, es
    <3> QED
      BY Zenon, <1>1, <1>5, <3>1, WrittenAppend DEF TypeOK
  <2>2. CASE Refuse(n)
    BY Zenon, <2>2 DEF Refuse, es, WrittenIds
  <2> QED
    BY Zenon, <2>1, <2>2 DEF Process
<1> QED
  BY Zenon, <1>4, <1>8, <1>9, <1>10 DEF EL!Settle

\* Every step of the threads is a step of the log, or changes nothing of it.
LEMMA StepSimulation ==
  ASSUME "panic" \notin Faults, OrderInv, panics = 0, [Next]_vars
  PROVE  [EL!Next]_(EL!vars)
<1>1. ASSUME UNCHANGED <<nextId, log, lost>>, main' = "unloaded" <=> main = "unloaded"
      PROVE  UNCHANGED EL!vars
  BY Zenon, <1>1 DEF EL!vars, WrittenIds
<1>2. ASSUME NEW d \in Dests, NotifySync(d) \/ NotifyPush(d) \/ NotifyFallback(d)
      PROVE  EL!Notify
  <2>1. /\ main # "unloaded" /\ main' # "unloaded" /\ nextId' = nextId + 1
        /\ UNCHANGED log
    BY Zenon, <1>2 DEF NotifySync, NotifyPush, NotifyFallback, InUnit
  <2>2. lost' \in {lost, lost \cup {nextId}}
    BY Zenon, <1>2 DEF NotifySync, NotifyPush, NotifyFallback, Defer
  <2> QED
    BY Zenon, <2>1, <2>2 DEF EL!Notify, WrittenIds
<1>3. CASE ProcessJob \/ ProcessHanded \/ ProcessBatch
  <2>1. \E n \in 1..Len(batch) : Process(n)
    BY <1>3 DEF ProcessJob, ProcessHanded, ProcessBatch, Panic, OrderInv, TypeInv, TypeOK
  <2>2. main # "unloaded" /\ UNCHANGED <<main, nextId>>
    BY Zenon, <1>3 DEF ProcessJob, ProcessHanded, ProcessBatch, mainVars, OrderInv, TypeInv,
       Locks, Phases, WorkerHolds, Gone
  <2> QED
    BY Zenon, <2>1, <2>2, ProcessSettles DEF EL!Next
<1>4. CASE JoinErr
  <2>1. /\ UNCHANGED <<nextId, log, queue>> /\ main = "join" /\ main' = "finish"
        /\ handed = <<>> /\ jobs = <<>> /\ batch = <<>>
    BY Zenon, <1>4 DEF JoinErr, OrderInv, Stages, TypeInv, Locks, WorkerHolds, Gone
  <2>2. lost' = lost \cup Ids(queue)
    <3>1. depth = Len(queue) /\ DOMAIN queue = 1..Len(queue)
      BY <1>4 DEF JoinErr, OrderInv, TypeInv, Gauge, TypeOK, Gone
    <3> QED
      BY Zenon, <1>4, <3>1 DEF JoinErr, Ids
  <2>3. EL!Unsettled = Ids(queue)
    <3>1. Ids(handed) = {} /\ Ids(jobs) = {} /\ Ids(batch) = {}
      BY <2>1 DEF Ids
    <3> QED
      BY Zenon, <2>1, <3>1, UnsettledIsPending DEF Pending, Gone
  <2>4. WrittenIds' = WrittenIds
    BY Zenon, <2>1 DEF WrittenIds
  <2>5. CASE Ids(queue) = {}
    BY Zenon, <2>1, <2>2, <2>4, <2>5 DEF EL!vars
  <2>6. CASE Ids(queue) # {}
    BY Zenon, <2>1, <2>2, <2>3, <2>4, <2>6 DEF EL!Next, EL!Settle
  <2> QED
    BY Zenon, <2>5, <2>6
<1>5. CASE FinishUnload \/ UnloadSync
  <2>1. /\ UNCHANGED <<nextId, log, lost>> /\ main # "unloaded" /\ main' = "unloaded"
    BY Zenon, <1>5 DEF FinishUnload, UnloadSync, outcomes
  <2>2. EL!Unsettled = {}
    <3>1. CASE FinishUnload
      <4>1. batch = <<>> /\ main \in Gone
        BY Zenon, <3>1 DEF FinishUnload, Gone
      <4>2. Ids(batch) = {}
        BY <4>1 DEF Ids
      <4> QED
        BY Zenon, <4>1, <4>2, UnsettledIsPending
    <3>2. CASE UnloadSync
      <4>1. /\ main \notin Gone /\ queue = <<>> /\ jobs = <<>> /\ batch = <<>>
            /\ handed = <<>>
        BY Zenon, <3>2 DEF UnloadSync, OrderInv, Stages, TypeInv, Locks, Phases, WorkerHolds, Gone
      <4>2. Ids(queue) = {} /\ Ids(jobs) = {} /\ Ids(batch) = {} /\ Ids(handed) = {}
        BY <4>1 DEF Ids
      <4> QED
        BY Zenon, <4>1, <4>2, UnsettledIsPending DEF Pending
    <3> QED
      BY Zenon, <1>5, <3>1, <3>2
  <2> QED
    BY Zenon, <2>1, <2>2 DEF EL!Next, EL!Close, WrittenIds
<1>6. CASE \/ EndUnit \/ RunSyncJob \/ RunFallbackJob \/ EndJobs \/ Wake \/ JoinOk
           \/ StoreStop
  BY Zenon, <1>1, <1>6 DEF EndUnit, RunSyncJob, RunFallbackJob, EndJobs, Wake, JoinOk,
     StoreStop, outcomes
<1>7. CASE \/ WorkerStart \/ WaitLock \/ WaitTimedOut \/ WaitCheck \/ WaitEval
           \/ WaitTimeout \/ Prepare \/ WorkerAbort \/ StopCheck \/ TryLock \/ Drain
           \/ Release \/ DrainAll \/ SpuriousWake
  BY Zenon, <1>1, <1>7 DEF WorkerStart, WaitLock, WaitTimedOut, WaitCheck, WaitEval,
     WaitTimeout, Prepare, WorkerAbort, StopCheck, TryLock, Drain, Release, DrainAll,
     SpuriousWake, mainVars, outcomes
<1>8. CASE UNCHANGED vars
  BY Zenon, <1>1, <1>8 DEF vars, mainVars, outcomes
<1> QED
  BY Zenon, <1>2, <1>3, <1>4, <1>5, <1>6, <1>7, <1>8
  DEF EL!Next, Next, MainStep, WorkerStep, Environment, Terminated

\* dispatch.rs implements the ordered log: each event is settled exactly once, in
\* notification order, and the module is not gone before all of them are.
THEOREM Implementation ==
  ASSUME "context" \notin Faults, "panic" \notin Faults
  PROVE  Spec => EventLogSpec
<1>1. Init => EL!Init /\ NoPanics
  BY DEF Init, EL!Init, WrittenIds, NoPanics
<1>2. OrderInv /\ NoPanics /\ [Next]_vars => [EL!Next]_(EL!vars)
  BY Zenon, StepSimulation DEF NoPanics
<1> QED
  BY <1>1, <1>2, NoPanicsNext, OrderInvariant, PTL DEF Spec, EventLogSpec, EL!Spec

-----------------------------------------------------------------------------
(***************************************************************************)
(* Writing once.  This holds whatever fails, also when the worker gets no  *)
(* context and ends before it is told to: the order of the events and the  *)
(* accounts break then, but an id still has only one home.  What a thread  *)
(* takes it takes off, and the events a snapshot writes are those that     *)
(* leave the queue.                                                        *)
(***************************************************************************)
Distinct ==
  \A i, j \in DOMAIN log :
    \A a \in DOMAIN log[i].events, b \in DOMAIN log[j].events :
      log[i].events[a].id = log[j].events[b].id => i = j /\ a = b

OneHome ==
  /\ Ids(queue) \cap (Ids(jobs) \cup Ids(batch) \cup Ids(handed)) = {}
  /\ Ids(jobs) \cap (Ids(batch) \cup Ids(handed)) = {}
  /\ Ids(batch) \cap Ids(handed) = {}
  /\ WrittenIds \cap (Pending \cup lost) = {}
  /\ lost \cap (Ids(jobs) \cup Ids(batch) \cup Ids(handed)) = {}
  /\ main \notin Gone => lost \cap Ids(queue) = {}
  /\ WrittenIds \cup lost \cup Pending \cup Ids(snap) \subseteq 0..(nextId - 1)

Settling == Sorted /\ Distinct /\ OneHome

OnceInv == TypeInv /\ SnapshotInv /\ Settling

\* An entry of new, distinct ids keeps the log's ids distinct.
LEMMA DistinctAppend ==
  ASSUME log \in Seq(Entry), NEW en \in Entry, log' = Append(log, en), Distinct,
         Increasing(en.events), WrittenIds \cap Ids(en.events) = {}
  PROVE  Distinct'
<1>1. /\ DOMAIN log = 1..Len(log) /\ DOMAIN log' = 1..(Len(log) + 1)
      /\ \A i \in 1..Len(log) : log'[i] = log[i]
      /\ log'[Len(log) + 1] = en
      /\ \A i \in 1..(Len(log) + 1) : i \in 1..Len(log) \/ i = Len(log) + 1
  OBVIOUS
<1>2. en.events \in Seq(Event)
  BY Zenon DEF Entry
<1>3. \A a, b \in DOMAIN en.events : en.events[a].id = en.events[b].id => a = b
  <2>1. /\ \A a \in DOMAIN en.events : en.events[a].id \in Nat
        /\ DOMAIN en.events = 1..Len(en.events) /\ Len(en.events) \in Nat
    BY Zenon, <1>2, ElementFacts
  <2> QED  BY <2>1 DEF Increasing
<1>4. \A i \in 1..Len(log) : \A a \in DOMAIN log[i].events : log[i].events[a].id \in WrittenIds
  <2> TAKE i \in 1..Len(log)
  <2> TAKE a \in DOMAIN log[i].events
  <2>1. log[i].events[a].id \in Ids(log[i].events)
    BY Zenon DEF Ids
  <2>2. Ids(log[i].events) \in {Ids(log[j].events) : j \in DOMAIN log}
    BY Zenon, <1>1
  <2> QED  BY Zenon, <2>1, <2>2 DEF WrittenIds
<1>5. \A b \in DOMAIN en.events : en.events[b].id \in Ids(en.events)
  BY Zenon DEF Ids
<1> SUFFICES ASSUME NEW i \in DOMAIN log', NEW j \in DOMAIN log',
                    NEW a \in DOMAIN log'[i].events, NEW b \in DOMAIN log'[j].events,
                    log'[i].events[a].id = log'[j].events[b].id
             PROVE  i = j /\ a = b
  BY Zenon DEF Distinct
<1>6. CASE i \in 1..Len(log) /\ j \in 1..Len(log)
  <2>1. log'[i] = log[i] /\ log'[j] = log[j] /\ i \in DOMAIN log /\ j \in DOMAIN log
    BY Zenon, <1>1, <1>6
  <2>2. /\ a \in DOMAIN log[i].events /\ b \in DOMAIN log[j].events
        /\ log[i].events[a].id = log[j].events[b].id
    BY Zenon, <2>1
  <2>3. \A x \in DOMAIN log[i].events, y \in DOMAIN log[j].events :
          log[i].events[x].id = log[j].events[y].id => i = j /\ x = y
    BY Zenon, <2>1 DEF Distinct
  <2> QED  BY Zenon, <2>2, <2>3
<1>7. CASE i = Len(log) + 1 /\ j = Len(log) + 1
  BY Zenon, <1>1, <1>3, <1>7
<1>8. CASE i \in 1..Len(log) /\ j = Len(log) + 1
  <2>1. log'[i] = log[i] /\ log'[j] = en
    BY Zenon, <1>1, <1>8
  <2>2. log[i].events[a].id \in WrittenIds /\ en.events[b].id \in Ids(en.events)
    BY Zenon, <1>4, <1>5, <1>8, <2>1
  <2> QED  BY Zenon, <2>1, <2>2
<1>9. CASE i = Len(log) + 1 /\ j \in 1..Len(log)
  <2>1. log'[i] = en /\ log'[j] = log[j]
    BY Zenon, <1>1, <1>9
  <2>2. en.events[a].id \in Ids(en.events) /\ log[j].events[b].id \in WrittenIds
    BY Zenon, <1>4, <1>5, <1>9, <2>1
  <2> QED  BY Zenon, <2>1, <2>2
<1> QED  BY Zenon, <1>1, <1>6, <1>7, <1>8, <1>9

\* The names of the homes after a step that leaves the variables they are read from.
LEMMA HomesFrame ==
  /\ queue' = queue => Ids(queue)' = Ids(queue)
  /\ jobs' = jobs => Ids(jobs)' = Ids(jobs)
  /\ batch' = batch => Ids(batch)' = Ids(batch)
  /\ handed' = handed => Ids(handed)' = Ids(handed)
  /\ snap' = snap => Ids(snap)' = Ids(snap)
  /\ log' = log => WrittenIds' = WrittenIds /\ (Distinct => Distinct')
<1>1. log' = log => WrittenIds' = WrittenIds
  BY DEF WrittenIds, Ids
<1>2. log' = log => (Distinct => Distinct')
  BY DEF Distinct
<1> QED  BY Zenon, <1>1, <1>2

\* Steps that move no event.
LEMMA QuietKeepsOnce ==
  ASSUME Settling, UNCHANGED <<queue, jobs, batch, handed, log, lost, nextId>>,
         Ids(snap)' \subseteq Ids(snap) \cup Ids(queue), main \in Gone => main' \in Gone
  PROVE  Settling'
<1>1. Sorted'
  BY Zenon DEF Settling, Sorted
<1>2. /\ Ids(queue)' = Ids(queue) /\ Ids(jobs)' = Ids(jobs) /\ Ids(batch)' = Ids(batch)
      /\ Ids(handed)' = Ids(handed) /\ WrittenIds' = WrittenIds /\ Distinct'
  BY Zenon, HomesFrame DEF Settling
<1>3. OneHome'
  BY Zenon, <1>2 DEF Settling, OneHome, Pending
<1> QED  BY Zenon, <1>1, <1>2, <1>3 DEF Settling

\* The callback's new event has a new id.
LEMMA NotifyKeepsOnce ==
  ASSUME TypeOK, Settling, NEW d \in Dests, nextId' = nextId + 1, main \notin Gone,
         UNCHANGED <<batch, handed, log, snap>>,
         LET e == [id |-> nextId, dst |-> d] IN
           \/ queue' = Append(queue, e) /\ UNCHANGED <<jobs, lost>>
           \/ jobs' = Append(jobs, e) /\ UNCHANGED <<queue, lost>>
           \/ lost' = lost \cup {e.id} /\ UNCHANGED <<queue, jobs>>
  PROVE  Settling'
<1> DEFINE e == [id |-> nextId, dst |-> d]
<1>1. e \in Event /\ e.id = nextId /\ nextId \in Nat
  BY Zenon DEF Event, TypeOK
<1>2. /\ Ids(batch)' = Ids(batch) /\ Ids(handed)' = Ids(handed) /\ Ids(snap)' = Ids(snap)
      /\ WrittenIds' = WrittenIds /\ Distinct'
  BY Zenon, HomesFrame DEF Settling
<1>3. \A x \in WrittenIds \cup lost \cup Pending \cup Ids(snap) : x < nextId /\ x # nextId
  <2>1. WrittenIds \cup lost \cup Pending \cup Ids(snap) \subseteq 0..(nextId - 1)
    BY Zenon DEF Settling, OneHome
  <2>2. \A x \in 0..(nextId - 1) : x < nextId /\ x # nextId
    BY <1>1
  <2> QED  BY Zenon, <2>1, <2>2
<1>4. 0..(nextId' - 1) = (0..(nextId - 1)) \cup {nextId}
  BY <1>1
<1> HIDE DEF e
<1>5. CASE queue' = Append(queue, e) /\ UNCHANGED <<jobs, lost>>
  <2>1. Ids(queue)' = Ids(queue) \cup {nextId} /\ Ids(jobs)' = Ids(jobs) /\ Increasing(queue)'
    BY ZenonT(40), <1>1, <1>3, <1>5, IdsAppend DEF TypeOK, Settling, Sorted, Precede, Pending
  <2>2. Sorted'
    BY Zenon, <1>5, <2>1 DEF Settling, Sorted
  <2>3. OneHome'
    BY ZenonT(40), <1>2, <1>3, <1>4, <1>5, <2>1 DEF Settling, OneHome, Pending
  <2> QED  BY Zenon, <1>2, <2>2, <2>3 DEF Settling
<1>6. CASE jobs' = Append(jobs, e) /\ UNCHANGED <<queue, lost>>
  <2>1. Ids(jobs)' = Ids(jobs) \cup {nextId} /\ Ids(queue)' = Ids(queue) /\ Increasing(jobs)'
    BY ZenonT(40), <1>1, <1>3, <1>6, IdsAppend DEF TypeOK, Settling, Sorted, Precede, Pending
  <2>2. Sorted'
    BY Zenon, <1>6, <2>1 DEF Settling, Sorted
  <2>3. OneHome'
    <3>1. nextId \notin Ids(queue) \cup Ids(batch) \cup Ids(handed) \cup WrittenIds \cup lost
      BY Zenon, <1>3 DEF Pending
    <3>2. Ids(queue)' \cap (Ids(jobs)' \cup Ids(batch)' \cup Ids(handed)') = {}
      BY ZenonT(40), <1>2, <2>1, <3>1 DEF Settling, OneHome
    <3>3. /\ Ids(jobs)' \cap (Ids(batch)' \cup Ids(handed)') = {}
          /\ Ids(batch)' \cap Ids(handed)' = {}
      BY ZenonT(40), <1>2, <2>1, <3>1 DEF Settling, OneHome
    <3>4. WrittenIds' \cap (Pending' \cup lost') = {}
      BY ZenonT(40), <1>2, <1>6, <2>1, <3>1 DEF Settling, OneHome, Pending
    <3>5. lost' \cap (Ids(jobs)' \cup Ids(batch)' \cup Ids(handed)') = {}
      BY ZenonT(40), <1>2, <1>6, <2>1, <3>1 DEF Settling, OneHome
    <3>6. main' \notin Gone => lost' \cap Ids(queue)' = {}
      BY Zenon, <1>6, <2>1 DEF Settling, OneHome
    <3>7. WrittenIds' \cup lost' \cup Pending' \cup Ids(snap)' \subseteq 0..(nextId' - 1)
      BY Zenon, <1>2, <1>4, <1>6, <2>1 DEF Settling, OneHome, Pending
    <3> QED  BY Zenon, <3>2, <3>3, <3>4, <3>5, <3>6, <3>7 DEF OneHome
  <2> QED  BY Zenon, <1>2, <2>2, <2>3 DEF Settling
<1>7. CASE lost' = lost \cup {nextId} /\ UNCHANGED <<queue, jobs>>
  <2>1. Ids(jobs)' = Ids(jobs) /\ Ids(queue)' = Ids(queue)
    BY Zenon, <1>7
  <2>2. Sorted'
    BY Zenon, <1>7 DEF Settling, Sorted
  <2>3. OneHome'
    BY ZenonT(40), <1>2, <1>3, <1>4, <1>7, <2>1 DEF Settling, OneHome, Pending
  <2> QED  BY Zenon, <1>2, <2>2, <2>3 DEF Settling
<1> QED
  BY Zenon, <1>1, <1>5, <1>6, <1>7 DEF e

\* Writing, refusing or dropping the first n events of the batch.
LEMMA SettleKeepsOnce ==
  ASSUME TypeOK, Settling, NEW n \in 1..Len(batch), Process(n) \/ Panic(n),
         UNCHANGED <<queue, jobs, handed, nextId, snap, main>>
  PROVE  Settling'
<1> DEFINE es   == SubSeq(batch, 1, n)
           rest == SubSeq(batch, n + 1, Len(batch))
<1>1. /\ es \in Seq(Event) /\ rest \in Seq(Event)
      /\ Ids(batch) = Ids(es) \cup Ids(rest)
      /\ Increasing(es) /\ Increasing(rest)
      /\ Precede(Ids(es), Ids(rest))
  BY SMTT(40), IdsSplit DEF TypeOK, Settling, Sorted
<1>2. batch' = rest
  BY Zenon DEF Process, Write, Refuse, Panic
<1>3. es[1] \in Event
  <2>1. batch \in Seq(Event)
    BY Zenon DEF TypeOK
  <2>2. 1 \in 1..Len(batch) /\ es[1] = batch[1]
    BY <2>1
  <2> QED  BY Zenon, <2>1, <2>2, ElementFacts
<1>4. [dst |-> es[1].dst, events |-> es] \in Entry
  BY Zenon, <1>1, <1>3 DEF Entry, Event
<1> HIDE DEF es, rest
<1>5. Ids(es) \cap Ids(rest) = {}
  <2>1. Ids(es) \subseteq Nat
    BY Zenon, <1>1, IdsFacts
  <2>2. \A x \in Nat : ~(x < x)
    OBVIOUS
  <2> QED  BY Zenon, <1>1, <2>1, <2>2 DEF Precede
<1>6. /\ Ids(batch)' = Ids(rest) /\ Ids(queue)' = Ids(queue) /\ Ids(jobs)' = Ids(jobs)
      /\ Ids(handed)' = Ids(handed) /\ Ids(snap)' = Ids(snap)
  BY Zenon, <1>2, HomesFrame
<1>7. Sorted'
  BY Zenon, <1>1, <1>2 DEF Settling, Sorted
<1>8. CASE Write(n)
  <2>1. log' = Append(log, [dst |-> es[1].dst, events |-> es]) /\ lost' = lost
    BY Zenon, <1>8 DEF Write, es
  <2>2. WrittenIds \cap Ids(es) = {}
    BY Zenon, <1>1 DEF Settling, OneHome, Pending
  <2>3. WrittenIds' = WrittenIds \cup Ids(es)
    BY Zenon, <1>1, <1>4, <2>1, WrittenAppend DEF TypeOK
  <2>4. Distinct'
    BY Zenon, <1>1, <1>4, <2>1, <2>2, DistinctAppend DEF TypeOK, Settling
  <2>5. OneHome'
    BY ZenonT(40), <1>1, <1>5, <1>6, <2>1, <2>3 DEF Settling, OneHome, Pending
  <2> QED  BY Zenon, <1>7, <2>4, <2>5 DEF Settling
<1>9. CASE Refuse(n)
  <2>1. log' = log /\ lost' = lost \cup Ids(es)
    BY Zenon, <1>9 DEF Refuse, es
  <2>2. WrittenIds' = WrittenIds /\ Distinct'
    BY Zenon, <2>1, HomesFrame DEF Settling
  <2>3. OneHome'
    BY ZenonT(40), <1>1, <1>5, <1>6, <2>1, <2>2 DEF Settling, OneHome, Pending
  <2> QED  BY Zenon, <1>7, <2>2, <2>3 DEF Settling
<1>10. CASE Panic(n)
  <2>1. log' = log /\ lost' = lost
    BY Zenon, <1>10 DEF Panic
  <2>2. WrittenIds' = WrittenIds /\ Distinct'
    BY Zenon, <2>1, HomesFrame DEF Settling
  <2>3. OneHome'
    BY Zenon, <1>1, <1>6, <2>1, <2>2 DEF Settling, OneHome, Pending
  <2> QED  BY Zenon, <1>7, <2>2, <2>3 DEF Settling
<1> QED  BY Zenon, <1>8, <1>9, <1>10 DEF Process

\* Draining the front of the FIFO into the batch, with or without the event of
\* the fallback job that does it.
LEMMA DrainKeepsOnce ==
  ASSUME TypeOK, Settling, NEW n \in 0..Len(queue), main \notin Gone,
         UNCHANGED <<handed, log, lost, nextId, snap, main>>,
         queue' = SubSeq(queue, n + 1, Len(queue)),
         \/ /\ UNCHANGED jobs
            /\ batch' = SubSeq(queue, 1, n)
         \/ /\ jobs # <<>> /\ jobs' = Tail(jobs)
            /\ \A i \in 1..n : queue[i].id < Head(jobs).id
            /\ batch' = Append(SubSeq(queue, 1, n), Head(jobs))
  PROVE  Settling'
<1> DEFINE front == SubSeq(queue, 1, n)
           back  == SubSeq(queue, n + 1, Len(queue))
<1>1. /\ front \in Seq(Event) /\ back \in Seq(Event)
      /\ Ids(queue) = Ids(front) \cup Ids(back)
      /\ Increasing(front) /\ Increasing(back)
      /\ Precede(Ids(front), Ids(back))
  BY Zenon, IdsSplit DEF TypeOK, Settling, Sorted
<1>2. /\ Ids(handed)' = Ids(handed) /\ Ids(snap)' = Ids(snap)
      /\ WrittenIds' = WrittenIds /\ Distinct'
  BY Zenon, HomesFrame DEF Settling
<1>3. Ids(queue)' = Ids(back) /\ Increasing(queue)' /\ Increasing(handed)'
  BY Zenon, <1>1 DEF Settling, Sorted
<1>4. Ids(front) \cap Ids(back) = {}
  <2>1. Ids(front) \subseteq Nat
    BY Zenon, <1>1, IdsFacts
  <2>2. \A x \in Nat : ~(x < x)
    OBVIOUS
  <2> QED  BY Zenon, <1>1, <2>1, <2>2 DEF Precede
<1>5. CASE UNCHANGED jobs /\ batch' = front
  <2> HIDE DEF front, back
  <2>1. Ids(jobs)' = Ids(jobs) /\ Ids(batch)' = Ids(front) /\ Increasing(batch)'
    BY Zenon, <1>1, <1>5, HomesFrame
  <2>2. Sorted'
    BY Zenon, <1>3, <1>5, <2>1 DEF Settling, Sorted
  <2>3. OneHome'
    BY Zenon, <1>1, <1>2, <1>3, <1>4, <2>1 DEF Settling, OneHome, Pending
  <2> QED  BY Zenon, <1>2, <2>2, <2>3 DEF Settling
<1>6. CASE /\ jobs # <<>> /\ jobs' = Tail(jobs)
           /\ \A i \in 1..n : queue[i].id < Head(jobs).id
           /\ batch' = Append(front, Head(jobs))
  <2> DEFINE h == Head(jobs).id
  <2>1. /\ Head(jobs) \in Event /\ h \in Nat
        /\ Ids(jobs) = {h} \cup Ids(Tail(jobs))
        /\ Increasing(Tail(jobs)) /\ Precede({h}, Ids(Tail(jobs)))
    BY Zenon, <1>6, TailFacts, IdsTail DEF TypeOK, Settling, Sorted, Event
  <2>2. Precede(Ids(front), {h})
    <3>1. /\ DOMAIN front = 1..n
          /\ \A i \in 1..n : front[i] = queue[i]
      BY <1>1, SubSeqFacts DEF TypeOK
    <3> HIDE DEF front
    <3> QED  BY Zenon, <1>6, <3>1 DEF Ids, Precede
  <2>3. h \notin Ids(Tail(jobs))
    <3>1. ~(h < h)
      BY <2>1
    <3> QED  BY Zenon, <2>1, <3>1 DEF Precede
  <2>4. Ids(batch)' = Ids(front) \cup {h} /\ Increasing(batch)'
    BY Zenon, <1>1, <1>6, <2>1, <2>2, IdsAppend
  <2>5. Ids(jobs)' = Ids(Tail(jobs)) /\ Increasing(jobs)'
    BY Zenon, <1>6, <2>1
  <2> HIDE DEF front, back, h
  <2>6. Sorted'
    BY Zenon, <1>3, <2>4, <2>5 DEF Sorted
  <2>7. OneHome'
    BY ZenonT(60), <1>1, <1>2, <1>3, <1>4, <2>1, <2>3, <2>4, <2>5 DEF Settling, OneHome, Pending
  <2> QED  BY Zenon, <1>2, <2>6, <2>7 DEF Settling
<1> QED  BY Zenon, <1>5, <1>6

\* Every step leaves every id with one home.
LEMMA SettlingNext ==
  ASSUME OnceInv, [Next]_vars
  PROVE  Settling'
<1> USE ConstantsAssumption
<1> USE DEF Gone, shared, mainVars, workerVars, outcomes
<1>0. TypeOK /\ Ids(<<>>) = {} /\ Increasing(<<>>) /\ Settling /\ SnapshotInv
  BY DEF OnceInv, TypeInv, Ids, Increasing
<1>1. CASE EndUnit \/ EndJobs \/ Wake \/ StoreStop \/ UnloadSync
  BY Zenon, <1>0, <1>1, QuietKeepsOnce DEF EndUnit, EndJobs, Wake, StoreStop, UnloadSync
<1>2. CASE SpuriousWake \/ WorkerStart \/ WaitLock \/ WaitTimedOut \/ WaitCheck
  BY Zenon, <1>0, <1>2, QuietKeepsOnce
  DEF SpuriousWake, WorkerStart, WaitLock, WaitTimedOut, WaitCheck
<1>3. CASE WaitEval \/ WaitTimeout \/ WorkerAbort \/ StopCheck \/ TryLock
  BY Zenon, <1>0, <1>3, QuietKeepsOnce
  DEF WaitEval, WaitTimeout, WorkerAbort, StopCheck, TryLock
<1>4. CASE Release
  BY Zenon, <1>0, <1>4, QuietKeepsOnce DEF Release
<1>5. CASE Prepare
  <2>1. SmallerOf(Len(queue), BatchSize) \in 0..Len(queue)
    BY <1>0 DEF SmallerOf, TypeOK
  <2>2. snap' = <<>> \/ snap' = SubSeq(queue, 1, SmallerOf(Len(queue), BatchSize))
    BY ZenonT(40), <1>5 DEF Prepare
  <2>3. Ids(SubSeq(queue, 1, SmallerOf(Len(queue), BatchSize))) \subseteq Ids(queue)
    BY <1>0, <2>1, IdsSplit DEF TypeOK
  <2>4. Ids(snap)' \subseteq Ids(snap) \cup Ids(queue)
    BY Zenon, <1>0, <2>2, <2>3
  <2> QED  BY Zenon, <1>0, <1>5, <2>4, QuietKeepsOnce DEF Prepare
<1>6. ASSUME NEW d \in Dests, NotifySync(d) PROVE Settling'
  <2>1. /\ nextId' = nextId + 1 /\ UNCHANGED <<batch, handed, log, snap>>
        /\ main \notin Gone
    BY Zenon, <1>6 DEF NotifySync, InUnit
  <2> QED  BY Zenon, <1>0, <1>6, <2>1, NotifyKeepsOnce DEF NotifySync, Defer
<1>7. ASSUME NEW d \in Dests, NotifyPush(d) PROVE Settling'
  <2>1. /\ nextId' = nextId + 1 /\ UNCHANGED <<batch, handed, log, snap>>
        /\ main \notin Gone
    BY Zenon, <1>7 DEF NotifyPush, InUnit
  <2> QED  BY Zenon, <1>0, <1>7, <2>1, NotifyKeepsOnce DEF NotifyPush
<1>8. ASSUME NEW d \in Dests, NotifyFallback(d) PROVE Settling'
  <2>1. /\ nextId' = nextId + 1 /\ UNCHANGED <<batch, handed, log, snap>>
        /\ main \notin Gone
    BY Zenon, <1>8 DEF NotifyFallback, InUnit
  <2> QED  BY Zenon, <1>0, <1>8, <2>1, NotifyKeepsOnce DEF NotifyFallback, Defer
<1>9. CASE RunSyncJob
  <2>1. SubSeq(queue, 1, 0) = <<>> /\ SubSeq(queue, 0 + 1, Len(queue)) = queue
        /\ 0 \in 0..Len(queue) /\ (\A i \in 1..0 : queue[i].id < Head(jobs).id)
    BY <1>0 DEF TypeOK
  <2>2. Append(SubSeq(queue, 1, 0), Head(jobs)) = <<Head(jobs)>>
    <3>1. Head(jobs) \in Event
      BY Zenon, <1>0, <1>9, TailFacts DEF RunSyncJob, TypeOK
    <3>2. Append(<<>>, Head(jobs)) = <<Head(jobs)>>
      BY <3>1
    <3> QED  BY Zenon, <2>1, <3>2
  <2>3. /\ main \notin Gone /\ UNCHANGED <<handed, log, lost, nextId, snap, main, queue>>
        /\ jobs # <<>> /\ jobs' = Tail(jobs) /\ batch' = <<Head(jobs)>>
    BY Zenon, <1>9 DEF RunSyncJob
  <2> QED  BY Zenon, <1>0, <2>1, <2>2, <2>3, DrainKeepsOnce
<1>10. CASE RunFallbackJob
  <2>1. PICK n \in 0..Len(queue) :
          /\ \A i \in 1..n : queue[i].id < Head(jobs).id
          /\ batch' = Append(SubSeq(queue, 1, n), Head(jobs))
          /\ queue' = SubSeq(queue, n + 1, Len(queue))
    BY Zenon, <1>10 DEF RunFallbackJob, PrefixBefore
  <2>2. /\ main \notin Gone /\ UNCHANGED <<handed, log, lost, nextId, snap, main>>
        /\ jobs # <<>> /\ jobs' = Tail(jobs)
    BY Zenon, <1>10 DEF RunFallbackJob
  <2> QED  BY Zenon, <1>0, <2>1, <2>2, DrainKeepsOnce
<1>11. CASE Drain
  <2>1. main \notin Gone
    BY Zenon, <1>11 DEF Drain, OnceInv, TypeInv, Phases
  <2>2. UNCHANGED <<jobs, handed, log, lost, nextId, snap, main>>
    BY Zenon, <1>11 DEF Drain
  <2> QED  BY Zenon, <1>0, <1>11, <2>1, <2>2, DrainTakesFront, DrainKeepsOnce
<1>12. CASE ProcessJob \/ ProcessHanded \/ ProcessBatch
  <2>1. \E n \in 1..Len(batch) : Process(n) \/ Panic(n)
    <3>1. batch # <<>> => 1 \in 1..Len(batch) /\ Len(batch) \in 1..Len(batch)
      BY <1>0 DEF TypeOK
    <3> QED  BY Zenon, <1>12, <3>1 DEF ProcessJob, ProcessHanded, ProcessBatch
  <2>2. UNCHANGED <<queue, jobs, handed, nextId, snap, main>>
    BY Zenon, <1>12 DEF ProcessJob, ProcessHanded, ProcessBatch
  <2> QED  BY Zenon, <1>0, <2>1, <2>2, SettleKeepsOnce
<1>13. CASE JoinOk
  <2>1. /\ UNCHANGED <<queue, jobs, log, lost, nextId, snap>> /\ main' \in Gone
        /\ batch' = handed /\ handed' = <<>>
    BY Zenon, <1>13 DEF JoinOk
  <2>2. /\ Ids(queue)' = Ids(queue) /\ Ids(jobs)' = Ids(jobs) /\ Ids(handed)' = {}
        /\ Ids(batch)' = Ids(handed) /\ Ids(snap)' = Ids(snap)
        /\ WrittenIds' = WrittenIds /\ Distinct'
    BY Zenon, <1>0, <2>1, HomesFrame DEF Settling
  <2>3. Sorted'
    BY Zenon, <1>0, <2>1 DEF Settling, Sorted
  <2>4. OneHome'
    BY Zenon, <1>0, <2>1, <2>2 DEF Settling, OneHome, Pending
  <2> QED  BY Zenon, <2>2, <2>3, <2>4 DEF Settling
<1>14. CASE JoinErr
  <2>1. /\ UNCHANGED <<queue, jobs, batch, handed, log, nextId, snap>> /\ main' \in Gone
    BY Zenon, <1>14 DEF JoinErr
  <2>2. lost' = lost \cup Ids(queue)
    <3>1. depth = Len(queue) /\ DOMAIN queue = 1..Len(queue)
      <4>1. main = "join" /\ queue \in Seq(Event) /\ Gauge
        BY Zenon, <1>14, <1>0 DEF JoinErr, OnceInv, TypeInv, TypeOK
      <4>2. main \notin Gone
        BY <4>1 DEF Gone
      <4> QED  BY Zenon, <4>1, <4>2, ElementFacts DEF Gauge
    <3> QED  BY Zenon, <1>14, <3>1 DEF JoinErr, Ids
  <2>3. /\ Ids(queue)' = Ids(queue) /\ Ids(jobs)' = Ids(jobs) /\ Ids(handed)' = Ids(handed)
        /\ Ids(batch)' = Ids(batch) /\ Ids(snap)' = Ids(snap)
        /\ WrittenIds' = WrittenIds /\ Distinct'
    BY Zenon, <1>0, <2>1, HomesFrame DEF Settling
  <2>4. Sorted'
    BY Zenon, <1>0, <2>1 DEF Settling, Sorted
  <2>5. OneHome'
    BY Zenon, <1>0, <2>1, <2>2, <2>3 DEF Settling, OneHome, Pending
  <2> QED  BY Zenon, <2>3, <2>4, <2>5 DEF Settling
<1>15. CASE FinishUnload
  <2>1. /\ UNCHANGED <<jobs, batch, handed, log, lost, nextId, snap>> /\ main' \in Gone
        /\ queue' = <<>>
    BY Zenon, <1>15 DEF FinishUnload
  <2>2. /\ Ids(queue)' = {} /\ Ids(jobs)' = Ids(jobs) /\ Ids(handed)' = Ids(handed)
        /\ Ids(batch)' = Ids(batch) /\ Ids(snap)' = Ids(snap)
        /\ WrittenIds' = WrittenIds /\ Distinct'
    BY Zenon, <1>0, <2>1, HomesFrame DEF Settling
  <2>3. Sorted'
    BY Zenon, <1>0, <2>1 DEF Settling, Sorted
  <2>4. OneHome'
    BY Zenon, <1>0, <2>1, <2>2 DEF Settling, OneHome, Pending
  <2> QED  BY Zenon, <2>2, <2>3, <2>4 DEF Settling
<1>16. CASE DrainAll
  <2>1. /\ UNCHANGED <<jobs, batch, log, lost, nextId, main>>
        /\ handed' = queue /\ queue' = <<>> /\ snap' = <<>>
    BY Zenon, <1>16 DEF DrainAll
  <2>2. main \notin Gone
    BY Zenon, <1>16 DEF DrainAll, OnceInv, TypeInv, Phases
  <2>3. /\ Ids(queue)' = {} /\ Ids(jobs)' = Ids(jobs) /\ Ids(handed)' = Ids(queue)
        /\ Ids(batch)' = Ids(batch) /\ Ids(snap)' = {}
        /\ WrittenIds' = WrittenIds /\ Distinct'
    BY Zenon, <1>0, <2>1, HomesFrame DEF Settling
  <2>4. Sorted'
    BY Zenon, <1>0, <2>1 DEF Settling, Sorted
  <2>5. OneHome'
    BY Zenon, <1>0, <2>1, <2>2, <2>3 DEF Settling, OneHome, Pending
  <2> QED  BY Zenon, <2>3, <2>4, <2>5 DEF Settling
<1>17. CASE UNCHANGED vars
  BY Zenon, <1>0, <1>17, QuietKeepsOnce DEF vars
<1> QED
  BY Zenon, <1>1, <1>2, <1>3, <1>4, <1>5, <1>6, <1>7, <1>8, <1>9, <1>10, <1>11, <1>12,
     <1>13, <1>14, <1>15, <1>16, <1>17
  DEF Next, MainStep, WorkerStep, Environment, Terminated

\* An id always has one home, and the snapshot is the queue's front or out of date.
LEMMA OnceInvariant == Spec => []OnceInv
<1>1. Init => OnceInv
  <2> SUFFICES ASSUME Init PROVE OnceInv
    BY Zenon
  <2>1. OrderInv
    BY Zenon, OrderInvInit
  <2>2. /\ Ids(queue) = {} /\ Ids(jobs) = {} /\ Ids(batch) = {} /\ Ids(handed) = {}
        /\ Ids(snap) = {} /\ WrittenIds = {} /\ lost = {} /\ DOMAIN log = {}
    BY DEF Init, Ids, WrittenIds
  <2>3. Distinct /\ OneHome
    BY Zenon, <2>2 DEF Distinct, OneHome, Pending
  <2> QED  BY Zenon, <2>1, <2>3 DEF OnceInv, OrderInv, Core, Settling
<1>2. OnceInv /\ [Next]_vars => OnceInv'
  <2> SUFFICES ASSUME OnceInv, [Next]_vars PROVE OnceInv'
    BY Zenon
  <2>1. TypeInv'
    BY Zenon, TypeInvNext DEF OnceInv
  <2>2. Increasing(queue) /\ Ids(snap) \subseteq 0..(nextId - 1)
    BY Zenon DEF OnceInv, Settling, Sorted, OneHome
  <2>3. SnapshotInv'
    BY Zenon, <2>2, SnapshotNext DEF OnceInv
  <2> QED  BY Zenon, <2>1, <2>3, SettlingNext DEF OnceInv
<1> QED
  BY <1>1, <1>2, PTL DEF Spec

\* Whichever of the worker, a fallback job and the unload settles an event, it is
\* written at most once and never both written and counted in EVENTS_LOST, whatever
\* fails: also when the worker gets no context, or panics.
THEOREM OnceCorrect == Spec => []WrittenOnce
<1>1. OnceInv => WrittenOnce
  BY Zenon DEF OnceInv, Settling, Distinct, OneHome, WrittenOnce
<1> QED
  BY <1>1, OnceInvariant, PTL

\* drain_snapshot's comparison of two ids never accepts a stale encoding, whatever
\* fails.
THEOREM SnapshotCorrect == Spec => []SnapshotFresh
<1>1. OnceInv => SnapshotFresh
  BY Zenon, SnapshotIsFresh DEF OnceInv, TypeInv
<1> QED
  BY <1>1, OnceInvariant, PTL

=============================================================================
