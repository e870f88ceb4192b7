----------------------------- MODULE SinkProofs -----------------------------
(***************************************************************************)
(* Proofs about Sink, for any number of workers, streams, entries and      *)
(* faults, and every batch size and limit.                                 *)
(***************************************************************************)
EXTENDS Sink, FiniteSetTheorems, TLAPS

-----------------------------------------------------------------------------
(* The least and the greatest of a set of numbers. *)

LEMMA LeastOf ==
  ASSUME NEW T \in SUBSET Nat, T # {}
  PROVE  Min(T) \in T /\ \A y \in T : Min(T) <= y
<1>1. \E x \in T : \A y \in T : ~(<<y, x>> \in OpToRel(<, Nat))
  BY Zenon, NatLessThanWellFounded, WFMin
<1>2. \A x, y \in T : ~(<<y, x>> \in OpToRel(<, Nat)) => x <= y
  BY DEF OpToRel
<1>3. \E x \in T : \A y \in T : x <= y
  BY Zenon, <1>1, <1>2
<1> QED  BY Zenon, <1>3 DEF Min

LEMMA GreatestOf ==
  ASSUME NEW n \in Nat, NEW T \in SUBSET (0..n), T # {}
  PROVE  Max(T) \in T /\ \A y \in T : y <= Max(T)
<1> DEFINE U == {n - y : y \in T}
<1>1. U \in SUBSET Nat /\ U # {}
  <2>1. \A y \in T : n - y \in Nat
    OBVIOUS
  <2> QED  BY Zenon, <2>1
<1>2. PICK u \in U : \A v \in U : u <= v
  BY Zenon, <1>1, LeastOf
<1>3. PICK x \in T : u = n - x
  BY Zenon
<1>4. \A y \in T : x >= y
  <2>1. \A y \in T : u <= n - y
    BY Zenon, <1>2
  <2> QED  BY <1>3, <2>1
<1>5. Max(T) \in T /\ \A y \in T : Max(T) >= y
  BY Zenon, <1>4 DEF Max
<1> QED  BY <1>5

-----------------------------------------------------------------------------
(* Types. *)

\* Entries read and not yet acknowledged.
Ids(todo) == {todo[i].id : i \in DOMAIN todo}
HeldBy(c) == Ids(w[c].todo)

\* A worker's state.  It holds entries only while it forwards a batch, each at one
\* place of the batch.
Holding == {"forward", "post", "ack"}

Fit(x, N) ==
  /\ x \in Worker
  /\ Ids(x.todo) \subseteq N
  /\ \A i, j \in DOMAIN x.todo : x.todo[i].id = x.todo[j].id => i = j
  /\ x.todo # <<>> => x.at \in Holding
  /\ x.at \in {"post", "ack"} => x.todo # <<>>
  /\ x.back \notin {"post", "ack"}

TypeInv == TypeOK /\ \A c \in Consumers : Fit(w[c], DOMAIN log)

\* A set of entries is finite, and its first batch is a part of it.
LEMMA SomeEntries ==
  ASSUME TypeOK, NEW set \in SUBSET DOMAIN log
  PROVE  /\ IsFiniteSet(set) /\ Cardinality(set) \in Nat
         /\ FirstBatch(set) \subseteq set
         /\ DOMAIN log = 1..Len(log) /\ Len(log) \in Nat /\ DOMAIN log \subseteq Entries
<1>1. /\ DOMAIN log = 1..Len(log) /\ Len(log) \in Nat /\ DOMAIN log \subseteq Entries
  BY SinkAssumption DEF TypeOK, Entries
<1>2. IsFiniteSet(1..Len(log))
  BY <1>1, FS_Interval
<1> QED  BY Zenon, <1>1, <1>2, FS_Subset, FS_CardinalityType DEF FirstBatch

\* A reply holds entries of the set, each at one place.
LEMMA ReplyFacts ==
  ASSUME TypeOK, NEW set \in SUBSET DOMAIN log, NEW read \in Reply(set)
  PROVE  /\ read \in Seq(RedisEntry)
         /\ \A i \in DOMAIN read : read[i].id \in set
         /\ \A i, j \in DOMAIN read : read[i].id = read[j].id => i = j
<1> DEFINE n == Cardinality(set)
<1>1. n \in Nat /\ DOMAIN log \subseteq Entries /\ DOMAIN log = 1..Len(log) /\ Len(log) \in Nat
      /\ set \subseteq Nat
  BY SomeEntries
<1>2. PICK ids \in [1..n -> set] :
        /\ \A i, j \in 1..n : i < j =>
             \/ log[ids[i]] < log[ids[j]]
             \/ log[ids[i]] = log[ids[j]] /\ ids[i] < ids[j]
        /\ read = [i \in 1..n |-> [id |-> ids[i], decodes |-> ids[i] \in retained \ opaque]]
  BY ZenonT(40) DEF Reply, Orderings
<1> HIDE DEF n
<1>3. \A i \in 1..n : read[i] \in RedisEntry /\ read[i].id = ids[i] /\ ids[i] \in set
  <2>1. \A i \in 1..n : ids[i] \in Entries /\ ids[i] \in set
    BY Zenon, <1>1, <1>2
  <2> QED  BY <1>2, <2>1 DEF RedisEntry
<1>4. read \in Seq(RedisEntry) /\ DOMAIN read = 1..n
  <2>1. read \in [1..n -> RedisEntry]
    BY Zenon, <1>2, <1>3
  <2> QED  BY <1>1, <2>1
<1>5. \A i, j \in 1..n : i < j => ids[i] # ids[j]
  <2>1. \A i \in 1..n : ids[i] \in Nat /\ log[ids[i]] \in Nat
    <3>1. \A k \in 1..Len(log) : log[k] \in Streams
      BY DEF TypeOK
    <3> QED  BY Zenon, <1>1, <1>2, <3>1, SinkAssumption
  <2> QED  BY <1>2, <2>1
<1>6. \A i, j \in 1..n : i # j => i < j \/ j < i
  BY <1>1
<1> QED  BY Zenon, <1>3, <1>4, <1>5, <1>6

LEMMA DownFits == ASSUME NEW N PROVE Fit(Down, N)
<1>1. Down \in Worker
  BY SinkAssumption DEF Down, Worker, Places
<1> QED  BY <1>1 DEF Down, Fit, Ids

LEMMA TypeInit == Init => TypeInv
<1> SUFFICES ASSUME Init PROVE TypeInv
  BY Zenon
<1>1. \A c \in Consumers : w[c] = Down
  BY Zenon DEF Init
<1>2. \A c \in Consumers : Fit(w[c], DOMAIN log)
  BY Zenon, <1>1, DownFits
<1>3. w \in [Consumers -> Worker]
  BY Zenon, <1>1, <1>2 DEF Init, Fit
<1>4. owner = <<>> /\ Pending = {} /\ owner \in [{} -> Consumers]
  BY DEF Init, Pending
<1>5. cursor \in [Streams -> NoGroup .. MaxEntries]
  BY SinkAssumption DEF Init, NoGroup
<1>6. /\ log \in Seq(Streams) /\ Len(log) <= MaxEntries /\ faults \in 0..MaxFaults
      /\ retained \subseteq DOMAIN log /\ opaque \subseteq DOMAIN log /\ posted \subseteq DOMAIN log
      /\ again \subseteq DOMAIN log /\ idle \subseteq {}
  BY SinkAssumption DEF Init
<1> QED  BY Zenon, <1>2, <1>3, <1>4, <1>5, <1>6 DEF TypeInv, TypeOK

\* One worker takes a step, the others stay as they are.
LEMMA StepFacts ==
  ASSUME TypeInv, NEW c \in Consumers, NEW new, Step(c, new)
  PROVE  /\ w'[c] = new
         /\ \A d \in Consumers \ {c} : w'[d] = w[d]
         /\ Fit(new, DOMAIN log) => /\ w' \in [Consumers -> Worker]
                                    /\ \A d \in Consumers : Fit(w'[d], DOMAIN log)
<1>1. w \in [Consumers -> Worker] /\ w' = [w EXCEPT ![c] = new]
  BY Zenon DEF TypeInv, TypeOK, Step
<1>2. w'[c] = new /\ \A d \in Consumers \ {c} : w'[d] = w[d]
  BY Zenon, <1>1
<1>3. ASSUME Fit(new, DOMAIN log)
      PROVE  w' \in [Consumers -> Worker] /\ \A d \in Consumers : Fit(w'[d], DOMAIN log)
  <2>1. new \in Worker
    BY Zenon, <1>3 DEF Fit
  <2>2. w' \in [Consumers -> Worker]
    BY Zenon, <1>1, <2>1
  <2> QED  BY Zenon, <1>2, <1>3, <2>2 DEF TypeInv
<1> QED  BY Zenon, <1>2, <1>3

LEMMA ExitFacts ==
  ASSUME TypeInv, NEW c \in Consumers, Exit(c)
  PROVE  /\ w'[c] = Down /\ \A d \in Consumers \ {c} : w'[d] = w[d]
         /\ w' \in [Consumers -> Worker]
         /\ \A d \in Consumers : Fit(w'[d], DOMAIN log)
  BY Zenon, StepFacts, DownFits DEF Exit

\* A worker that has been given a batch.
Given(x, read, from, back) ==
  [x EXCEPT !.at = "forward", !.todo = read, !.from = from, !.back = back]

LEMMA ReadFits ==
  ASSUME TypeInv, NEW c \in Consumers, NEW set \in SUBSET DOMAIN log,
         NEW read \in Reply(set), NEW from \in 0..MaxEntries,
         NEW back \in Places \ {"post", "ack"}
  PROVE  LET new == Given(w[c], read, from, back) IN
         /\ Fit(new, DOMAIN log) /\ Ids(new.todo) \subseteq set
         /\ new.at = "forward" /\ new.todo = read
<1> DEFINE new == Given(w[c], read, from, back)
<1>1. w[c] \in Worker
  BY Zenon DEF TypeInv, Fit
<1>2. /\ read \in Seq(RedisEntry)
      /\ \A i \in DOMAIN read : read[i].id \in set
      /\ \A i, j \in DOMAIN read : read[i].id = read[j].id => i = j
  BY Zenon, ReplyFacts DEF TypeInv
<1>3. new \in Worker /\ new.todo = read /\ new.at = "forward" /\ new.back = back
  BY ZenonT(40), <1>1, <1>2 DEF Worker, Places, Given
<1> HIDE DEF new
<1>4. Ids(new.todo) \subseteq set
  <2>1. Ids(read) \subseteq set
    BY Zenon, <1>2 DEF Ids
  <2> QED  BY Zenon, <1>3, <2>1
<1>5. Fit(new, DOMAIN log)
  BY Zenon, <1>2, <1>3, <1>4 DEF Fit, Holding
<1> QED  BY Zenon, <1>3, <1>4, <1>5 DEF new

\* An entry is written.
LEMMA WriteTypes ==
  ASSUME TypeInv, NEW s \in Streams, Write(s)
  PROVE  TypeInv'
<1>1. /\ log \in Seq(Streams) /\ Len(log) \in Nat /\ Len(log) < MaxEntries
      /\ log' = Append(log, s) /\ DOMAIN log = 1..Len(log)
  BY DEF TypeInv, TypeOK, Write
<1>2. /\ log' \in Seq(Streams) /\ Len(log') <= MaxEntries
      /\ DOMAIN log \subseteq DOMAIN log' /\ Len(log) + 1 \in DOMAIN log'
  BY <1>1, SinkAssumption
<1>3. /\ retained' = retained \cup {Len(log) + 1}
      /\ opaque' \subseteq opaque \cup {Len(log) + 1}
      /\ UNCHANGED <<cursor, owner, idle, posted, again, faults, w>>
  BY Zenon DEF Write
<1>4. TypeOK'
  BY Zenon, <1>2, <1>3 DEF TypeInv, TypeOK, Pending
<1>5. \A c \in Consumers : Fit(w'[c], DOMAIN log')
  BY Zenon, <1>2, <1>3 DEF TypeInv, Fit
<1> QED  BY Zenon, <1>4, <1>5 DEF TypeInv

\* Redis changes without the workers.
LEMMA ServerTypes ==
  ASSUME TypeInv, \/ \E s \in Streams : Trim(s) \/ Delete(s)
                  \/ \E e \in Entries : Age(e)
  PROVE  TypeInv'
<1>1. CASE \E s \in Streams : Trim(s)
  BY Zenon, <1>1 DEF Trim, TypeInv, TypeOK, Pending
<1>2. ASSUME NEW s \in Streams, Delete(s) PROVE TypeInv'
  <2>1. /\ UNCHANGED <<log, opaque, posted, again, w>> /\ retained' \subseteq retained
        /\ cursor' = [cursor EXCEPT ![s] = NoGroup] /\ idle' = idle \ On(s)
        /\ owner' = [e \in Pending \ On(s) |-> owner[e]]
        /\ faults' = faults + 1 /\ faults < MaxFaults
    BY Zenon, <1>2 DEF Delete, Drop
  <2>2. faults' \in 0..MaxFaults
    BY <2>1, SinkAssumption DEF TypeInv, TypeOK
  <2>3. cursor' \in [Streams -> NoGroup .. MaxEntries]
    <3>1. NoGroup \in NoGroup .. MaxEntries
      BY SinkAssumption DEF NoGroup
    <3> QED  BY Zenon, <2>1, <3>1 DEF TypeInv, TypeOK
  <2>4. Pending' = Pending \ On(s) /\ owner' \in [Pending' -> Consumers]
    BY Zenon, <2>1 DEF TypeInv, TypeOK, Pending
  <2> QED  BY Zenon, <2>1, <2>2, <2>3, <2>4 DEF TypeInv, TypeOK
<1>3. ASSUME NEW e \in Entries, Age(e) PROVE TypeInv'
  BY Zenon, <1>3 DEF Age, TypeInv, TypeOK, Pending
<1> QED  BY Zenon, <1>1, <1>2, <1>3

\* What a worker does to the pending list and to itself, action by action.
LEMMA OwnReads ==
  ASSUME TypeInv, NEW c \in Consumers, ReadOwnPending(c)
  PROVE  /\ UNCHANGED <<log, opaque, retained, cursor, owner, posted, again, faults>>
         /\ idle' \subseteq idle /\ w[c].at = "own"
         /\ Fit(w'[c], DOMAIN log) /\ Step(c, w'[c])
         /\ w'[c].at # "ack"
         /\ \A e \in Ids(w'[c].todo) : e \in Pending /\ owner[e] = c
<1> DEFINE own == {e \in Pending : log[e] = w[c].stream /\ owner[e] = c}
           got == FirstBatch(own)
<1>1. own \subseteq DOMAIN log /\ own \subseteq Pending
  BY Zenon DEF TypeInv, TypeOK
<1>2. got \subseteq own
  BY Zenon, <1>1, SomeEntries DEF TypeInv
<1>3. \A e \in got : e \in Pending /\ owner[e] = c
  BY Zenon, <1>2
<1>4. /\ UNCHANGED <<log, opaque, retained, cursor, owner, posted, again, faults>>
      /\ idle' = idle \ (got \cap retained) /\ w[c].at = "own"
      /\ \/ Step(c, [w[c] EXCEPT !.at = "claim", !.from = 0])
         \/ \E read \in Reply(got) :
              Step(c, [w[c] EXCEPT !.at = "forward", !.todo = read, !.back = "own"])
  BY Zenon DEF ReadOwnPending
<1> HIDE DEF own, got
<1>5. w[c] \in Worker /\ w[c].todo = <<>> /\ w[c].back \notin {"post", "ack"}
  BY Zenon, <1>4 DEF TypeInv, Fit, Holding
<1>6. CASE Step(c, [w[c] EXCEPT !.at = "claim", !.from = 0])
  <2> DEFINE new == [w[c] EXCEPT !.at = "claim", !.from = 0]
  <2>1. new \in Worker /\ new.todo = <<>> /\ new.at = "claim"
        /\ new.back \notin {"post", "ack"}
    <3>1. 0 \in 0..MaxEntries
      BY SinkAssumption
    <3>2. new \in Worker
      BY Zenon, <1>5, <3>1 DEF Worker, Places
    <3>3. new.todo = w[c].todo /\ new.at = "claim" /\ new.back = w[c].back
      BY <1>5 DEF Worker
    <3> QED  BY Zenon, <1>5, <3>2, <3>3
  <2>2. w'[c] = new
    BY Zenon, <1>6, StepFacts
  <2> HIDE DEF new
  <2>3. Fit(new, DOMAIN log) /\ Ids(new.todo) = {}
    BY <2>1 DEF Fit, Ids
  <2> QED  BY Zenon, <1>4, <1>6, <2>1, <2>2, <2>3 DEF new
<1>7. ASSUME NEW read \in Reply(got),
             Step(c, [w[c] EXCEPT !.at = "forward", !.todo = read, !.back = "own"])
      PROVE  /\ Fit(w'[c], DOMAIN log) /\ Step(c, w'[c]) /\ w'[c].at # "ack"
             /\ Ids(w'[c].todo) \subseteq got
  <2> DEFINE new == [w[c] EXCEPT !.at = "forward", !.todo = read, !.back = "own"]
  <2>1. w[c].from \in 0..MaxEntries /\ "own" \in Places \ {"post", "ack"}
    BY <1>5 DEF Worker, Places
  <2>2. new = Given(w[c], read, w[c].from, "own")
    BY ZenonT(40), <1>5 DEF Worker, Given
  <2>3. w'[c] = new
    BY Zenon, <1>7, StepFacts
  <2>4. got \in SUBSET DOMAIN log
    BY Zenon, <1>1, <1>2
  <2> HIDE DEF new
  <2>5. Fit(new, DOMAIN log) /\ Ids(new.todo) \subseteq got /\ new.at = "forward"
    <3>1. \A f \in 0..MaxEntries, b \in Places \ {"post", "ack"} :
            LET x == Given(w[c], read, f, b) IN
            Fit(x, DOMAIN log) /\ Ids(x.todo) \subseteq got /\ x.at = "forward"
      BY <1>7, <2>4, ReadFits
    <3> QED  BY Zenon, <2>1, <2>2, <3>1
  <2> QED  BY <1>7, <2>3, <2>5 DEF new
<1> QED  BY Zenon, <1>3, <1>4, <1>6, <1>7

LEMMA ClaimReads ==
  ASSUME TypeInv, NEW c \in Consumers, ClaimAbandoned(c)
  PROVE  /\ UNCHANGED <<log, opaque, retained, cursor, posted, again, faults>>
         /\ w[c].at = "claim"
         /\ Fit(w'[c], DOMAIN log) /\ Step(c, w'[c]) /\ w'[c].at # "ack"
         /\ \E got \in SUBSET Pending :
              /\ got \cap retained \subseteq idle
              /\ owner' = [e \in Pending \ (got \ retained) |-> IF e \in got THEN c ELSE owner[e]]
              /\ idle' = idle \ got
              /\ Ids(w'[c].todo) \subseteq got \cap retained
<1> DEFINE scan == {e \in Pending : log[e] = w[c].stream /\ e >= w[c].from}
           some == {e \in scan : e \notin retained \/ e \in idle}
           got  == FirstBatch(some)
           rest == IF Cardinality(got) < Batch THEN {} ELSE {e \in scan : e > Max(got)}
           next == IF rest = {} THEN 0 ELSE Min(rest)
           back == IF next = 0 THEN "add" ELSE "claim"
<1>1. Pending \subseteq DOMAIN log /\ scan \subseteq Pending /\ rest \subseteq scan
      /\ some \subseteq Pending /\ \A e \in some : e \notin retained \/ e \in idle
  BY Zenon DEF TypeInv, TypeOK
<1>2. got \subseteq some
  <2> HIDE DEF some
  <2> QED  BY Zenon, <1>1, SomeEntries DEF TypeInv
<1>3. next \in 0..MaxEntries
  <2> HIDE DEF rest, scan
  <2>1. rest \in SUBSET Entries
    BY Zenon, <1>1, SomeEntries DEF TypeInv
  <2>2. rest # {} => Min(rest) \in rest
    <3>1. rest \in SUBSET Nat
      BY <2>1 DEF Entries
    <3> QED  BY Zenon, <3>1, LeastOf
  <2>3. 0 \in 0..MaxEntries /\ Entries \subseteq 0..MaxEntries
    BY SinkAssumption DEF Entries
  <2> QED  BY Zenon, <2>1, <2>2, <2>3
<1>4. back \in Places \ {"post", "ack"}
  BY DEF Places
<1>5. PICK read \in Reply(got \cap retained) :
        Step(c, [w[c] EXCEPT !.at = "forward", !.todo = read, !.from = next, !.back = back])
  BY Zenon DEF ClaimAbandoned
<1>6. /\ UNCHANGED <<log, opaque, retained, cursor, posted, again, faults>>
      /\ w[c].at = "claim"
      /\ owner' = [e \in Pending \ (got \ retained) |-> IF e \in got THEN c ELSE owner[e]]
      /\ idle' = idle \ got
  BY Zenon DEF ClaimAbandoned
<1> HIDE DEF some, got, rest, next, back
<1>7. Step(c, Given(w[c], read, next, back))
  BY Zenon, <1>5 DEF Given
<1>8. w'[c] = Given(w[c], read, next, back)
  BY Zenon, <1>7, StepFacts
<1>9. got \cap retained \in SUBSET DOMAIN log
  BY Zenon, <1>1, <1>2
<1>10. Fit(w'[c], DOMAIN log) /\ Ids(w'[c].todo) \subseteq got \cap retained
       /\ w'[c].at = "forward"
  BY <1>3, <1>4, <1>8, <1>9, ReadFits
<1>11. Step(c, w'[c]) /\ w'[c].at # "ack"
  BY <1>7, <1>8, <1>10
<1>12. got \in SUBSET Pending /\ got \cap retained \subseteq idle
  BY Zenon, <1>1, <1>2
<1> QED  BY Zenon, <1>6, <1>10, <1>11, <1>12

\* The first batch of a set has no holes.
LEMMA BatchClosed ==
  ASSUME TypeOK, NEW set \in SUBSET DOMAIN log, NEW g \in FirstBatch(set),
         NEW e \in set, e <= g
  PROVE  e \in FirstBatch(set)
<1> DEFINE A == {f \in set : f < e}
           B == {f \in set : f < g}
<1>1. DOMAIN log \subseteq Nat /\ g \in set /\ Cardinality(B) < Batch
  <2>1. DOMAIN log = 1..Len(log)
    BY Zenon, SomeEntries
  <2> QED  BY <2>1 DEF FirstBatch
<1>2. A \subseteq B /\ B \in SUBSET DOMAIN log
  BY <1>1
<1>3. IsFiniteSet(B)
  BY Zenon, <1>2, SomeEntries
<1> HIDE DEF A, B
<1>4. Cardinality(A) \in Nat /\ Cardinality(B) \in Nat /\ Cardinality(A) <= Cardinality(B)
  BY Zenon, <1>2, <1>3, FS_Subset, FS_CardinalityType
<1>5. Cardinality(A) < Batch
  BY <1>1, <1>4, SinkAssumption
<1> QED  BY Zenon, <1>5 DEF FirstBatch, A

\* XREADGROUP > gives out exactly what lies between the old and the new cursors.
LEMMA NewReads ==
  ASSUME TypeInv, \A s \in Streams : cursor[s] <= Len(log), NEW c \in Consumers, ReadNew(c)
  PROVE  /\ UNCHANGED <<log, opaque, retained, idle, posted, again, faults>>
         /\ w[c].at \in {"loop", "read"}
         /\ Fit(w'[c], DOMAIN log) /\ Step(c, w'[c]) /\ w'[c].at # "ack"
         /\ cursor' \in [Streams -> NoGroup .. MaxEntries]
         /\ \A s \in Streams : cursor'[s] <= Len(log) /\ cursor[s] <= cursor'[s]
         /\ \E got \in SUBSET retained :
              /\ owner' = Assign(got, c)
              /\ Ids(w'[c].todo) \subseteq got
              /\ \A e \in retained :
                   e \in got <=> cursor[log[e]] < e /\ e <= cursor'[log[e]]
<1> DEFINE fresh(s) == {e \in On(s) \cap retained : e > cursor[s]}
           new(s)   == FirstBatch(fresh(s))
           got      == UNION {new(s) : s \in w[c].known}
<1>1. /\ w[c] \in Worker /\ w[c].known \subseteq Streams /\ w[c].from \in 0..MaxEntries
      /\ TypeOK /\ "loop" \in Places \ {"post", "ack"}
  BY DEF TypeInv, Fit, Worker, Places
<1>2. /\ DOMAIN log = 1..Len(log) /\ Len(log) \in Nat /\ Len(log) <= MaxEntries
      /\ MaxEntries \in Nat
      /\ cursor \in [Streams -> NoGroup .. MaxEntries] /\ retained \subseteq DOMAIN log
      /\ \A e \in retained : log[e] \in Streams
  BY <1>1, SinkAssumption DEF TypeOK
<1>3. \A s : /\ fresh(s) \in SUBSET DOMAIN log /\ new(s) \subseteq fresh(s)
             /\ \A e \in fresh(s) : e \in retained /\ log[e] = s /\ e > cursor[s]
  <2> TAKE s
  <2>1. fresh(s) \in SUBSET DOMAIN log
    BY Zenon, <1>2
  <2>2. \A e \in fresh(s) : e \in retained /\ log[e] = s /\ e > cursor[s]
    BY Zenon DEF On
  <2> HIDE DEF fresh
  <2> QED  BY Zenon, <1>1, <2>1, <2>2, SomeEntries
<1>4. /\ UNCHANGED <<log, opaque, retained, idle, posted, again, faults>>
      /\ w[c].at \in {"loop", "read"} /\ owner' = Assign(got, c)
      /\ cursor' = [s \in Streams |-> IF s \in w[c].known /\ new(s) # {}
                                        THEN Max(new(s)) ELSE cursor[s]]
      /\ \A s \in w[c].known : cursor[s] # NoGroup
  BY Zenon DEF ReadNew
<1>5. PICK read \in Reply(got) :
        Step(c, [w[c] EXCEPT !.at = "forward", !.todo = read, !.back = "loop"])
  BY Zenon DEF ReadNew
<1>6. \A s : new(s) # {} => Max(new(s)) \in new(s) /\ \A e \in new(s) : e <= Max(new(s))
  <2> TAKE s
  <2>1. new(s) \in SUBSET (0..Len(log))
    BY <1>2, <1>3
  <2> HIDE DEF new
  <2> QED  BY Zenon, <1>2, <2>1, GreatestOf
<1>7. \A s : \A g \in new(s), e \in fresh(s) : e <= g => e \in new(s)
  <2> HIDE DEF fresh
  <2> QED  BY Zenon, <1>1, <1>3, BatchClosed
<1>8. \A e : e \in fresh(log[e]) <=> e \in retained /\ e > cursor[log[e]]
  BY Zenon, <1>2 DEF On
<1> HIDE DEF fresh, new
<1>9. got \in SUBSET retained /\ got \in SUBSET DOMAIN log
  <2>1. \A s : new(s) \subseteq retained
    BY Zenon, <1>3
  <2> QED  BY Zenon, <1>2, <2>1
<1>10. ASSUME NEW s \in Streams
       PROVE  /\ cursor'[s] <= Len(log) /\ cursor[s] <= cursor'[s]
              /\ cursor'[s] \in NoGroup .. MaxEntries
  <2>1. cursor[s] \in Int /\ cursor[s] <= Len(log) /\ cursor[s] \in NoGroup .. MaxEntries
    BY <1>2 DEF NoGroup
  <2>2. CASE s \in w[c].known /\ new(s) # {}
    <3>1. cursor'[s] \in DOMAIN log /\ cursor'[s] > cursor[s]
      BY Zenon, <1>3, <1>4, <1>6, <2>2
    <3> QED  BY <1>2, <2>1, <3>1 DEF NoGroup
  <2>3. CASE ~(s \in w[c].known /\ new(s) # {})
    <3>1. cursor'[s] = cursor[s]
      BY Zenon, <1>4, <2>3
    <3> QED  BY <2>1, <3>1
  <2> QED  BY Zenon, <2>2, <2>3
<1>11. cursor' \in [Streams -> NoGroup .. MaxEntries]
  BY Zenon, <1>4, <1>10
<1>12. ASSUME NEW e \in retained
       PROVE  e \in got <=> cursor[log[e]] < e /\ e <= cursor'[log[e]]
  <2> DEFINE s == log[e]
  <2>1. s \in Streams /\ e \in Nat /\ cursor[s] \in Int /\ cursor'[s] \in Int
        /\ (e > cursor[s] <=> cursor[s] < e)
    BY <1>2, <1>11 DEF NoGroup
  <2>2. ASSUME e \in got PROVE cursor[s] < e /\ e <= cursor'[s]
    <3>1. PICK t \in w[c].known : e \in new(t)
      BY Zenon, <2>2
    <3>2. t = s /\ e \in fresh(s) /\ new(s) # {}
      BY Zenon, <1>3, <3>1
    <3>3. cursor'[s] = Max(new(s))
      BY Zenon, <1>4, <2>1, <3>1, <3>2
    <3>4. cursor[s] < e
      BY Zenon, <1>3, <2>1, <3>2
    <3>5. e <= Max(new(s))
      BY Zenon, <1>6, <3>1, <3>2
    <3> QED  BY Zenon, <3>3, <3>4, <3>5
  <2>3. ASSUME cursor[s] < e, e <= cursor'[s] PROVE e \in got
    <3>1. e \in fresh(s)
      BY Zenon, <1>8, <2>1, <2>3
    <3>2. s \in w[c].known /\ new(s) # {}
      <4>1. cursor'[s] # cursor[s]
        BY <2>1, <2>3
      <4> QED  BY Zenon, <1>4, <2>1, <4>1
    <3>3. cursor'[s] = Max(new(s))
      BY Zenon, <1>4, <2>1, <3>2
    <3>4. e \in new(s)
      BY Zenon, <1>6, <1>7, <2>3, <3>1, <3>2, <3>3
    <3> QED  BY Zenon, <3>2, <3>4
  <2> QED  BY Zenon, <2>2, <2>3
<1>13. Step(c, Given(w[c], read, w[c].from, "loop"))
  <2>1. [w[c] EXCEPT !.at = "forward", !.todo = read, !.back = "loop"]
          = Given(w[c], read, w[c].from, "loop")
    BY ZenonT(40), <1>1 DEF Worker, Given
  <2> QED  BY Zenon, <1>5, <2>1
<1>14. w'[c] = Given(w[c], read, w[c].from, "loop")
  BY Zenon, <1>13, StepFacts
<1> HIDE DEF got
<1>15. Fit(w'[c], DOMAIN log) /\ Ids(w'[c].todo) \subseteq got /\ w'[c].at = "forward"
  BY <1>1, <1>9, <1>14, ReadFits
<1>16. Step(c, w'[c]) /\ w'[c].at # "ack"
  BY <1>13, <1>14, <1>15
<1>17. \E S \in SUBSET retained :
         /\ owner' = Assign(S, c)
         /\ Ids(w'[c].todo) \subseteq S
         /\ \A e \in retained : e \in S <=> cursor[log[e]] < e /\ e <= cursor'[log[e]]
  BY Zenon, <1>4, <1>9, <1>12, <1>15
<1> QED  BY Zenon, <1>4, <1>10, <1>11, <1>15, <1>16, <1>17

\* Steps of a worker that only concern itself, but for a group it creates.
Alone(c) == Start(c) \/ Refresh(c) \/ AddStream(c) \/ Added(c) \/ GroupGone(c) \/ Decode(c)
            \/ Forwarded(c)

LEMMA AloneFacts ==
  ASSUME TypeInv, NEW c \in Consumers, Alone(c)
  PROVE  /\ UNCHANGED <<log, opaque, retained, owner, idle, posted, again, faults>>
         /\ cursor' \in [Streams -> NoGroup .. MaxEntries]
         /\ \A s \in Streams : cursor'[s] = cursor[s] \/ (cursor[s] = NoGroup /\ cursor'[s] = 0)
         /\ Fit(w'[c], DOMAIN log) /\ Step(c, w'[c])
         /\ w[c].at # "ack" /\ w'[c].at # "ack" /\ Ids(w'[c].todo) \subseteq HeldBy(c)
<1> DEFINE x == w[c]
<1>1. /\ x \in Worker /\ Fit(x, DOMAIN log) /\ TypeOK
      /\ cursor \in [Streams -> NoGroup .. MaxEntries] /\ Control \in Streams
      /\ (x.todo # <<>> => x.at \in Holding) /\ x.back \notin {"post", "ack"}
  BY Zenon, SinkAssumption DEF TypeInv, TypeOK, Fit
<1>2. Discovered \subseteq Streams
  <2>1. \A e \in DOMAIN log : log[e] \in Streams
    BY <1>1 DEF TypeOK
  <2> QED  BY Zenon, <1>1, <2>1 DEF Discovered
<1>3. Fit(Down, DOMAIN log) /\ Ids(Down.todo) = {} /\ Down.at # "ack" /\ Down \in Worker
  <2>1. Down.todo = <<>> /\ Down.at = "down"
    BY Zenon DEF Down
  <2>2. Ids(Down.todo) = {} /\ Down.at # "ack"
    BY <2>1 DEF Ids
  <2> QED  BY Zenon, <2>2, DownFits DEF Fit
\* The new state y follows w[c], which is not at the XACK and keeps what it holds.
<1>4. ASSUME NEW y, Step(c, y), y \in Worker, y.todo = x.todo, y.at # "ack", x.at # "ack",
             x.todo # <<>> => y.at \in Holding, y.at = "post" => x.todo # <<>>,
             y.back \notin {"post", "ack"}
      PROVE  /\ Fit(w'[c], DOMAIN log) /\ Step(c, w'[c])
             /\ w'[c].at # "ack" /\ Ids(w'[c].todo) \subseteq HeldBy(c)
  <2>1. w'[c] = y
    BY Zenon, <1>4, StepFacts
  <2>2. Fit(y, DOMAIN log)
    BY ONLY <1>1, <1>4 DEF Fit
  <2> QED  BY Zenon, <1>4, <2>1, <2>2 DEF HeldBy
<1>5. ASSUME NEW y, Step(c, y), y = Down
      PROVE  /\ Fit(w'[c], DOMAIN log) /\ Step(c, w'[c])
             /\ w'[c].at # "ack" /\ Ids(w'[c].todo) \subseteq HeldBy(c)
  <2>1. w'[c] = Down
    BY Zenon, <1>5, StepFacts
  <2> QED  BY Zenon, <1>3, <1>5, <2>1
<1> HIDE DEF x
<1>6. ASSUME NEW y, Step(c, y), x.at \in {"down", "loop"}, y \in Worker, y.todo = <<>>,
             y.at = "add", y.back \notin {"post", "ack"}
      PROVE  /\ Fit(w'[c], DOMAIN log) /\ Step(c, w'[c])
             /\ w'[c].at # "ack" /\ Ids(w'[c].todo) \subseteq HeldBy(c)
  <2>1. x.todo = <<>>
    BY <1>1, <1>6 DEF Holding
  <2> QED  BY <1>4, <1>6, <2>1
<1>7. CASE Start(c)
  <2> DEFINE y == [Down EXCEPT !.at = "add", !.found = Discovered]
  <2>1. y \in Worker /\ y.todo = <<>> /\ y.at = "add" /\ y.back \notin {"post", "ack"}
    <3>1. y \in Worker
      BY Zenon, <1>2, <1>3 DEF Worker, Places
    <3>2. y.todo = <<>> /\ y.at = "add" /\ y.back = "down"
      BY DEF Down
    <3> QED  BY <3>1, <3>2
  <2>2. Step(c, y) /\ UNCHANGED <<redis, posted, again, faults>> /\ x.at = "down"
    BY Zenon, <1>7 DEF Start, x
  <2> HIDE DEF y
  <2>3. x.at \in {"down", "loop"} /\ x.at # "ack"
    BY <2>2
  <2> QED  BY Zenon, <1>1, <1>6, <2>1, <2>2, <2>3 DEF redis, x
<1>8. CASE Refresh(c)
  <2> DEFINE y == [x EXCEPT !.at = "add", !.found = Discovered]
  <2>1. Step(c, y) /\ UNCHANGED <<redis, posted, again, faults>> /\ x.at = "loop"
    BY Zenon, <1>8 DEF Refresh, x
  <2>2. x.at \in {"down", "loop"} /\ x.at # "ack" /\ x.todo = <<>>
    BY <1>1, <2>1 DEF Holding
  <2>3. y \in Worker
    BY Zenon, <1>1, <1>2 DEF Worker, Places
  <2>4. y.todo = <<>> /\ y.at = "add" /\ y.back \notin {"post", "ack"}
    BY <1>1, <2>2 DEF Worker
  <2> HIDE DEF y
  <2> QED  BY Zenon, <1>1, <1>6, <2>1, <2>2, <2>3, <2>4 DEF redis, x
<1>9. CASE AddStream(c)
  <2> DEFINE s == Min(x.found \ x.known)
             y == [x EXCEPT !.at = "own", !.known = @ \cup {s}, !.stream = s]
  <2>1. /\ Step(c, y) /\ UNCHANGED <<log, opaque, retained, owner, idle, posted, again, faults>>
        /\ x.at = "add" /\ x.found \ x.known # {}
        /\ cursor' = IF cursor[s] = NoGroup THEN [cursor EXCEPT ![s] = 0] ELSE cursor
    BY Zenon, <1>9 DEF AddStream, x
  <2>2. s \in Streams
    <3>1. x.found \ x.known \subseteq Streams
      BY <1>1 DEF Worker
    <3>2. x.found \ x.known \in SUBSET Nat
      BY Zenon, <3>1, SinkAssumption
    <3> QED  BY Zenon, <2>1, <3>1, <3>2, LeastOf
  <2> HIDE DEF s
  <2>3. y \in Worker
    <3>1. x.known \cup {s} \subseteq Streams
      BY <1>1, <2>2 DEF Worker
    <3>2. y = [x EXCEPT !.at = "own", !.known = x.known \cup {s}, !.stream = s]
      BY Zenon
    <3> QED  BY Zenon, <1>1, <2>2, <3>1, <3>2 DEF Worker, Places
  <2>4. /\ y.todo = x.todo /\ y.at = "own" /\ x.todo = <<>> /\ x.at # "ack"
        /\ y.back \notin {"post", "ack"}
    BY <1>1, <2>1 DEF Worker, Holding
  <2>5. cursor' \in [Streams -> NoGroup .. MaxEntries]
        /\ \A t \in Streams : cursor'[t] = cursor[t] \/ (cursor[t] = NoGroup /\ cursor'[t] = 0)
    <3>1. 0 \in NoGroup .. MaxEntries
      BY SinkAssumption DEF NoGroup
    <3> QED  BY Zenon, <1>1, <2>1, <2>2, <3>1
  <2> HIDE DEF y
  <2>6. Fit(w'[c], DOMAIN log) /\ Step(c, w'[c]) /\ w'[c].at # "ack"
        /\ Ids(w'[c].todo) \subseteq HeldBy(c)
    BY <1>4, <2>1, <2>3, <2>4
  <2> QED  BY Zenon, <2>1, <2>4, <2>5, <2>6 DEF x
<1>10. CASE Added(c)
  <2> DEFINE y == [x EXCEPT !.at = "read", !.found = {}, !.stream = Control]
  <2>1. Step(c, y) /\ UNCHANGED <<redis, posted, again, faults>> /\ x.at = "add"
    BY Zenon, <1>10 DEF Added, x
  <2>2. y \in Worker
    BY Zenon, <1>1 DEF Worker, Places
  <2>3. /\ y.todo = x.todo /\ y.at = "read" /\ x.todo = <<>> /\ x.at # "ack"
        /\ y.back \notin {"post", "ack"}
    BY <1>1, <2>1 DEF Worker, Holding
  <2> HIDE DEF y
  <2>4. Fit(w'[c], DOMAIN log) /\ Step(c, w'[c]) /\ w'[c].at # "ack"
        /\ Ids(w'[c].todo) \subseteq HeldBy(c)
    BY <1>4, <2>1, <2>2, <2>3
  <2> QED  BY Zenon, <1>1, <2>1, <2>3, <2>4 DEF redis, x
<1>11. CASE GroupGone(c)
  <2>1. Step(c, Down) /\ UNCHANGED <<redis, posted, again, faults>>
        /\ x.at \in {"own", "claim", "loop", "read"}
    BY Zenon, <1>11 DEF GroupGone, Exit, x
  <2>2. x.at # "ack"
    BY <2>1
  <2> QED  BY Zenon, <1>1, <1>5, <2>1, <2>2 DEF redis, x
<1>12. CASE Decode(c)
  <2> DEFINE y == [x EXCEPT !.at = "post", !.attempt = 0]
  <2>1. /\ Step(c, y) \/ Step(c, Down)
        /\ UNCHANGED <<redis, posted, again, faults>> /\ x.at = "forward" /\ x.todo # <<>>
    BY Zenon, <1>12 DEF Decode, Exit, x
  <2>2. y \in Worker
    BY Zenon, <1>1 DEF Worker, Places
  <2>3. y.todo = x.todo /\ y.at = "post" /\ x.at # "ack" /\ y.back \notin {"post", "ack"}
    BY <1>1, <2>1 DEF Worker
  <2> HIDE DEF y
  <2>4. ASSUME Step(c, y)
        PROVE  /\ Fit(w'[c], DOMAIN log) /\ Step(c, w'[c]) /\ w'[c].at # "ack"
               /\ Ids(w'[c].todo) \subseteq HeldBy(c)
    BY <1>4, <2>1, <2>2, <2>3, <2>4 DEF Holding
  <2> QED  BY Zenon, <1>1, <1>5, <2>1, <2>3, <2>4 DEF redis, x
<1>13. CASE Forwarded(c)
  <2> DEFINE y == [x EXCEPT !.at = x.back, !.back = "down"]
  <2>1. /\ Step(c, y) /\ UNCHANGED <<redis, posted, again, faults>>
        /\ x.at = "forward" /\ x.todo = <<>>
    BY Zenon, <1>13 DEF Forwarded, x
  <2>2. y \in Worker /\ x.back \in Places
    BY Zenon, <1>1 DEF Worker, Places
  <2>3. /\ y.todo = x.todo /\ y.at \notin {"post", "ack"} /\ x.at # "ack"
        /\ y.back \notin {"post", "ack"}
    BY <1>1, <2>1 DEF Worker
  <2> HIDE DEF y
  <2>4. Fit(w'[c], DOMAIN log) /\ Step(c, w'[c]) /\ w'[c].at # "ack"
        /\ Ids(w'[c].todo) \subseteq HeldBy(c)
    BY <1>4, <2>1, <2>2, <2>3
  <2> QED  BY Zenon, <1>1, <2>1, <2>3, <2>4 DEF redis, x
<1> QED  BY Zenon, <1>7, <1>8, <1>9, <1>10, <1>11, <1>12, <1>13 DEF Alone

\* Posting and acknowledging the first entry of the batch.
LEMMA PostFacts ==
  ASSUME TypeInv, NEW c \in Consumers, w[c].at \in {"post", "ack"}
  PROVE  /\ w[c] \in Worker /\ w[c].todo # <<>>
         /\ Head(w[c].todo) = w[c].todo[1] /\ 1 \in DOMAIN w[c].todo
         /\ Head(w[c].todo).id \in HeldBy(c) /\ HeldBy(c) \subseteq DOMAIN log
<1>1. w[c] \in Worker /\ w[c].todo # <<>> /\ HeldBy(c) \subseteq DOMAIN log
  BY Zenon DEF TypeInv, Fit, HeldBy
<1>2. w[c].todo \in Seq(RedisEntry)
  BY Zenon, <1>1 DEF Worker
<1>3. Head(w[c].todo) = w[c].todo[1] /\ 1 \in DOMAIN w[c].todo
  BY <1>1, <1>2
<1> QED  BY Zenon, <1>1, <1>3 DEF HeldBy, Ids

LEMMA DeliverFacts ==
  ASSUME TypeInv, NEW c \in Consumers, Deliver(c)
  PROVE  /\ UNCHANGED <<redis, again, faults>> /\ w[c].at = "post"
         /\ posted' = posted \cup {Head(w[c].todo).id} /\ Head(w[c].todo).id \in HeldBy(c)
         /\ Fit(w'[c], DOMAIN log) /\ Step(c, w'[c])
         /\ w'[c].at = "ack" /\ w'[c].todo = w[c].todo
<1> DEFINE y == [w[c] EXCEPT !.at = "ack"]
<1>1. /\ UNCHANGED <<redis, again, faults>> /\ w[c].at = "post" /\ Step(c, y)
      /\ posted' = posted \cup {Head(w[c].todo).id}
  BY Zenon DEF Deliver
<1>2. w[c].at \in {"post", "ack"} /\ Fit(w[c], DOMAIN log)
  BY Zenon, <1>1 DEF TypeInv
<1>3. w[c] \in Worker /\ w[c].todo # <<>> /\ Head(w[c].todo).id \in HeldBy(c)
  BY Zenon, <1>2, PostFacts
<1>4. y \in Worker
  BY Zenon, <1>3 DEF Worker, Places
<1>5. y.todo = w[c].todo /\ y.at = "ack" /\ y.back = w[c].back
  BY <1>3 DEF Worker
<1>6. w'[c] = y
  BY Zenon, <1>1, StepFacts
<1> HIDE DEF y
<1>7. Fit(y, DOMAIN log)
  BY <1>2, <1>3, <1>4, <1>5 DEF Fit, Holding
<1> QED  BY Zenon, <1>1, <1>3, <1>5, <1>6, <1>7

LEMMA FailFacts ==
  ASSUME TypeInv, NEW c \in Consumers, DeliverFails(c)
  PROVE  /\ UNCHANGED redis /\ faults' \in 0..MaxFaults /\ w[c].at = "post"
         /\ \/ UNCHANGED <<posted, again>>
            \/ /\ posted' = posted \cup {Head(w[c].todo).id}
               /\ again' = again \cup {Head(w[c].todo).id}
         /\ Head(w[c].todo).id \in HeldBy(c)
         /\ Fit(w'[c], DOMAIN log) /\ Step(c, w'[c])
         /\ w'[c].at # "ack" /\ Ids(w'[c].todo) \subseteq HeldBy(c)
<1> DEFINE a == IF MaxAttempts = 0 THEN 0 ELSE w[c].attempt + 1
           y == [w[c] EXCEPT !.attempt = a]
<1>1. /\ UNCHANGED redis /\ w[c].at = "post" /\ faults < MaxFaults /\ faults' = faults + 1
      /\ \/ UNCHANGED <<posted, again>>
         \/ /\ posted' = posted \cup {Head(w[c].todo).id}
            /\ again' = again \cup {Head(w[c].todo).id}
      /\ \/ Exit(c)
         \/ Step(c, y) /\ ~(MaxAttempts > 0 /\ w[c].attempt + 1 >= MaxAttempts)
  BY Zenon DEF DeliverFails
<1>2. faults' \in 0..MaxFaults
  BY <1>1, SinkAssumption DEF TypeInv, TypeOK
<1>3. w[c].at \in {"post", "ack"} /\ Fit(w[c], DOMAIN log)
  BY Zenon, <1>1 DEF TypeInv
<1>4. w[c] \in Worker /\ w[c].todo # <<>> /\ Head(w[c].todo).id \in HeldBy(c)
  BY Zenon, <1>3, PostFacts
<1>5. CASE Exit(c)
  <2>1. w'[c] = Down /\ Fit(w'[c], DOMAIN log) /\ Step(c, Down)
    BY Zenon, <1>5, ExitFacts DEF Exit
  <2>2. Down.todo = <<>> /\ Down.at = "down"
    BY Zenon DEF Down
  <2>3. Ids(Down.todo) = {} /\ Down.at # "ack"
    BY <2>2 DEF Ids
  <2> QED  BY Zenon, <1>1, <1>2, <1>4, <2>1, <2>3
<1>6. CASE Step(c, y) /\ ~(MaxAttempts > 0 /\ w[c].attempt + 1 >= MaxAttempts)
  <2>1. a \in {0} \cup (0 .. MaxAttempts - 1)
    <3>1. w[c].attempt \in {0} \cup (0 .. MaxAttempts - 1)
      BY Zenon, <1>4 DEF Worker
    <3> QED  BY <1>6, <3>1, SinkAssumption
  <2> HIDE DEF a
  <2>2. y \in Worker
    BY Zenon, <1>4, <2>1 DEF Worker
  <2>3. y.todo = w[c].todo /\ y.at = w[c].at /\ y.back = w[c].back
    BY <1>4 DEF Worker
  <2>4. w'[c] = y
    BY Zenon, <1>6, StepFacts
  <2> HIDE DEF y
  <2>5. Fit(y, DOMAIN log) /\ y.at # "ack"
    BY <1>1, <1>3, <2>2, <2>3 DEF Fit
  <2> QED  BY Zenon, <1>1, <1>2, <1>4, <1>6, <2>3, <2>4, <2>5 DEF HeldBy
<1> QED  BY Zenon, <1>1, <1>5, <1>6

LEMMA AckFacts ==
  ASSUME TypeInv, NEW c \in Consumers, Acknowledge(c)
  PROVE  /\ UNCHANGED <<log, opaque, retained, cursor, posted, again, faults>> /\ w[c].at = "ack"
         /\ owner' = Drop({Head(w[c].todo).id}) /\ idle' = idle \ {Head(w[c].todo).id}
         /\ Fit(w'[c], DOMAIN log) /\ Step(c, w'[c])
         /\ w'[c].at # "ack" /\ Ids(w'[c].todo) \subseteq HeldBy(c) \ {Head(w[c].todo).id}
<1> DEFINE done == IF MaxRecords = 0 THEN 0 ELSE w[c].forwarded + 1
           y    == [w[c] EXCEPT !.at = "forward", !.todo = Tail(w[c].todo), !.attempt = 0,
                                !.forwarded = done]
           e    == Head(w[c].todo).id
<1>1. /\ UNCHANGED <<log, opaque, retained, cursor, posted, again, faults>> /\ w[c].at = "ack"
      /\ owner' = Drop({e}) /\ idle' = idle \ {e}
      /\ \/ Exit(c)
         \/ Step(c, y) /\ ~(MaxRecords > 0 /\ done >= MaxRecords)
  BY Zenon DEF Acknowledge
<1>2. w[c].at \in {"post", "ack"} /\ Fit(w[c], DOMAIN log)
  BY Zenon, <1>1 DEF TypeInv
<1>3. w[c] \in Worker /\ w[c].todo # <<>> /\ e = w[c].todo[1].id
  BY Zenon, <1>2, PostFacts
<1>4. CASE Exit(c)
  <2>1. w'[c] = Down /\ Fit(w'[c], DOMAIN log) /\ Step(c, Down)
    BY Zenon, <1>4, ExitFacts DEF Exit
  <2>2. Down.todo = <<>> /\ Down.at = "down"
    BY Zenon DEF Down
  <2>3. Ids(Down.todo) = {} /\ Down.at # "ack"
    BY <2>2 DEF Ids
  <2> QED  BY Zenon, <1>1, <2>1, <2>3
<1>5. CASE Step(c, y) /\ ~(MaxRecords > 0 /\ done >= MaxRecords)
  <2> DEFINE t == w[c].todo
             u == Tail(t)
  <2>1. done \in {0} \cup (0 .. MaxRecords - 1)
    <3>1. w[c].forwarded \in {0} \cup (0 .. MaxRecords - 1)
      BY Zenon, <1>3 DEF Worker
    <3> QED  BY <1>5, <3>1, SinkAssumption
  <2>2. t \in Seq(RedisEntry)
    BY Zenon, <1>3 DEF Worker
  <2>3. /\ u \in Seq(RedisEntry) /\ DOMAIN t = 1..Len(t) /\ DOMAIN u = 1..(Len(t) - 1)
        /\ Len(t) \in Nat /\ \A i \in 1..(Len(t) - 1) : u[i] = t[i + 1]
    <3> HIDE DEF t
    <3>1. t # <<>>
      BY Zenon, <1>3 DEF t
    <3> QED  BY <2>2, <3>1
  <2>4. \A i, j \in DOMAIN t : t[i].id = t[j].id => i = j
    BY Zenon, <1>2 DEF Fit
  <2>5. Ids(t) = HeldBy(c) /\ e = t[1].id /\ Ids(t) \subseteq DOMAIN log
    BY Zenon, <1>2, <1>3 DEF HeldBy, Fit
  <2> HIDE DEF t, u, done, e
  <2>6. \A i \in DOMAIN u : i + 1 \in DOMAIN t /\ u[i] = t[i + 1] /\ i + 1 # 1 /\ 1 \in DOMAIN t
    BY <2>3
  <2>7. Ids(u) \subseteq Ids(t) \ {e}
    <3> SUFFICES ASSUME NEW i \in DOMAIN u PROVE u[i].id \in Ids(t) /\ u[i].id # e
      BY Zenon DEF Ids
    <3>1. i + 1 \in DOMAIN t /\ u[i] = t[i + 1] /\ i + 1 # 1 /\ 1 \in DOMAIN t
      BY Zenon, <2>6
    <3>2. t[i + 1].id # t[1].id
      BY Zenon, <2>4, <3>1
    <3> QED  BY Zenon, <2>5, <3>1, <3>2 DEF Ids
  <2>8. \A i, j \in DOMAIN u : u[i].id = u[j].id => i = j
    <3> TAKE i \in DOMAIN u, j \in DOMAIN u
    <3>1. u[i].id = u[j].id => i + 1 = j + 1
      <4>1. /\ i + 1 \in DOMAIN t /\ u[i] = t[i + 1]
            /\ j + 1 \in DOMAIN t /\ u[j] = t[j + 1]
        BY Zenon, <2>6
      <4> QED  BY Zenon, <2>4, <4>1
    <3> QED  BY <2>3, <3>1
  <2>9. y \in Worker
    BY Zenon, <1>3, <2>1, <2>3 DEF Worker, Places, t, u
  <2>10. y.todo = u /\ y.at = "forward" /\ y.back = w[c].back
    BY <1>3 DEF Worker, t, u
  <2>11. w'[c] = y
    BY Zenon, <1>5, StepFacts
  <2> HIDE DEF y
  <2>12. Fit(y, DOMAIN log) /\ y.at # "ack"
    BY <1>2, <2>5, <2>7, <2>8, <2>9, <2>10 DEF Fit, Holding
  <2> QED  BY Zenon, <1>1, <1>5, <2>5, <2>7, <2>10, <2>11, <2>12 DEF e
<1> QED  BY Zenon, <1>1, <1>4, <1>5

LEMMA CrashFacts ==
  ASSUME TypeInv, NEW c \in Consumers, Crash(c)
  PROVE  /\ UNCHANGED <<redis, posted>> /\ faults' \in 0..MaxFaults
         /\ again' = IF w[c].at = "ack" THEN again \cup {Head(w[c].todo).id} ELSE again
         /\ Fit(w'[c], DOMAIN log) /\ Step(c, w'[c])
         /\ w'[c].at # "ack" /\ Ids(w'[c].todo) = {}
<1>1. /\ UNCHANGED <<redis, posted>> /\ faults < MaxFaults /\ faults' = faults + 1
      /\ again' = IF w[c].at = "ack" THEN again \cup {Head(w[c].todo).id} ELSE again
      /\ Exit(c)
  BY Zenon DEF Crash
<1>2. faults' \in 0..MaxFaults
  BY <1>1, SinkAssumption DEF TypeInv, TypeOK
<1>3. w'[c] = Down /\ Fit(w'[c], DOMAIN log) /\ Step(c, Down)
  BY Zenon, <1>1, ExitFacts DEF Exit
<1>4. Down.todo = <<>> /\ Down.at = "down"
  BY Zenon DEF Down
<1>5. Ids(Down.todo) = {} /\ Down.at # "ack"
  BY <1>4 DEF Ids
<1> QED  BY Zenon, <1>1, <1>2, <1>3, <1>5

LEMMA WorkerMoves ==
  ASSUME TypeInv, NEW c \in Consumers, Step(c, w'[c]), Fit(w'[c], DOMAIN log)
  PROVE  /\ w' \in [Consumers -> Worker] /\ \A d \in Consumers : Fit(w'[d], DOMAIN log)
         /\ \A d \in Consumers \ {c} : w'[d] = w[d] /\ HeldBy(d)' = HeldBy(d)
<1>1. /\ \A d \in Consumers \ {c} : w'[d] = w[d]
      /\ w' \in [Consumers -> Worker] /\ \A d \in Consumers : Fit(w'[d], DOMAIN log)
  BY Zenon, StepFacts
<1>2. \A d \in Consumers \ {c} : HeldBy(d)' = HeldBy(d)
  BY Zenon, <1>1 DEF HeldBy
<1> QED  BY Zenon, <1>1, <1>2

\* The group's cursors stay within the streams.
CursorInv == \A s \in Streams : cursor[s] <= Len(log)

BaseInv == TypeInv /\ CursorInv

\* The steps of the system, one worker's steps grouped by what they touch.
LEMMA Steps ==
  ASSUME [Next]_vars
  PROVE  \/ \E s \in Streams : Write(s) \/ Trim(s) \/ Delete(s)
         \/ \E e \in Entries : Age(e)
         \/ \E c \in Consumers : Alone(c) \/ ReadOwnPending(c) \/ ClaimAbandoned(c) \/ ReadNew(c)
                                 \/ Deliver(c) \/ DeliverFails(c) \/ Acknowledge(c) \/ Crash(c)
         \/ UNCHANGED vars
  BY Zenon DEF Next, WorkerStep, Alone

LEMMA DropFacts ==
  ASSUME TypeInv, NEW set, owner' = Drop(set)
  PROVE  /\ Pending' = Pending \ set /\ owner' \in [Pending' -> Consumers]
         /\ \A e \in Pending' : owner'[e] = owner[e]
<1>1. owner' = [e \in Pending \ set |-> owner[e]]
  BY Zenon DEF Drop
<1> QED  BY Zenon, <1>1 DEF TypeInv, TypeOK, Pending

LEMMA AssignFacts ==
  ASSUME TypeInv, NEW c \in Consumers, NEW set \in SUBSET DOMAIN log, owner' = Assign(set, c)
  PROVE  /\ Pending' = Pending \cup set /\ owner' \in [Pending' -> Consumers]
         /\ \A e \in set : owner'[e] = c
         /\ \A e \in Pending \ set : owner'[e] = owner[e]
<1>1. owner' = [e \in Pending \cup set |-> IF e \in set THEN c ELSE owner[e]]
  BY Zenon DEF Assign
<1> QED  BY Zenon, <1>1 DEF TypeInv, TypeOK, Pending

LEMMA ClaimOwners ==
  ASSUME TypeInv, NEW c \in Consumers, NEW got \in SUBSET Pending,
         owner' = [e \in Pending \ (got \ retained) |-> IF e \in got THEN c ELSE owner[e]]
  PROVE  /\ Pending' = Pending \ (got \ retained) /\ owner' \in [Pending' -> Consumers]
         /\ \A e \in Pending' \ got : owner'[e] = owner[e]
  BY Zenon DEF TypeInv, TypeOK, Pending

\* Every step keeps the types and the cursors within the streams.
LEMMA BaseNext ==
  ASSUME BaseInv, [Next]_vars
  PROVE  BaseInv'
<1>0. TypeInv /\ TypeOK /\ CursorInv
  BY Zenon DEF BaseInv, TypeInv
<1>1. ASSUME NEW s \in Streams, Write(s) PROVE BaseInv'
  <2>1. TypeInv'
    BY Zenon, <1>0, <1>1, WriteTypes
  <2>2. CursorInv'
    <3>1. cursor' = cursor /\ log' = Append(log, s) /\ Len(log') = Len(log) + 1 /\ Len(log) \in Nat
      BY <1>0, <1>1 DEF Write, TypeOK
    <3>2. \A t \in Streams : cursor[t] \in Int /\ cursor[t] <= Len(log)
      BY <1>0 DEF TypeOK, CursorInv, NoGroup
    <3>3. \A t \in Streams : cursor[t] <= Len(log')
      BY <3>1, <3>2
    <3> QED  BY Zenon, <3>1, <3>3 DEF CursorInv
  <2> QED  BY Zenon, <2>1, <2>2 DEF BaseInv
<1>2. CASE \/ \E s \in Streams : Trim(s) \/ Delete(s)
           \/ \E e \in Entries : Age(e)
  <2>1. TypeInv'
    BY Zenon, <1>0, <1>2, ServerTypes
  <2>2. log' = log /\ (cursor' = cursor \/ \E s \in Streams : cursor' = [cursor EXCEPT ![s] = NoGroup])
    BY Zenon, <1>2 DEF Trim, Delete, Age
  <2>3. NoGroup <= Len(log)
    BY <1>0 DEF TypeOK, NoGroup
  <2>4. CursorInv'
    BY Zenon, <1>0, <2>2, <2>3 DEF CursorInv, TypeOK
  <2> QED  BY Zenon, <2>1, <2>4 DEF BaseInv
<1>3. ASSUME NEW c \in Consumers, Step(c, w'[c]), Fit(w'[c], DOMAIN log), log' = log,
             UNCHANGED <<retained, opaque>>, posted' \subseteq DOMAIN log, again' \subseteq DOMAIN log,
             cursor' \in [Streams -> NoGroup .. MaxEntries],
             \A s \in Streams : cursor'[s] <= Len(log),
             Pending' \subseteq DOMAIN log, owner' \in [Pending' -> Consumers],
             idle' \subseteq Pending', faults' \in 0..MaxFaults
      PROVE  BaseInv'
  <2>1. w' \in [Consumers -> Worker] /\ \A d \in Consumers : Fit(w'[d], DOMAIN log)
    BY Zenon, <1>0, <1>3, WorkerMoves
  <2>2. TypeOK'
    BY Zenon, <1>0, <1>3, <2>1 DEF TypeOK
  <2>3. TypeInv' /\ CursorInv'
    BY Zenon, <1>3, <2>1, <2>2 DEF TypeInv, CursorInv
  <2> QED  BY Zenon, <2>3 DEF BaseInv
<1>4. /\ posted \subseteq DOMAIN log /\ again \subseteq DOMAIN log
      /\ cursor \in [Streams -> NoGroup .. MaxEntries] /\ \A s \in Streams : cursor[s] <= Len(log)
      /\ Pending \subseteq DOMAIN log /\ owner \in [Pending -> Consumers]
      /\ idle \subseteq Pending /\ faults \in 0..MaxFaults /\ retained \subseteq DOMAIN log
  BY Zenon, <1>0 DEF TypeOK, CursorInv
<1>5. (owner' = owner) => (Pending' = Pending)
  BY Zenon DEF Pending
<1>6. ASSUME NEW c \in Consumers, Alone(c) PROVE BaseInv'
  <2>1. /\ UNCHANGED <<log, opaque, retained, owner, idle, posted, again, faults>>
        /\ cursor' \in [Streams -> NoGroup .. MaxEntries]
        /\ \A s \in Streams : cursor'[s] = cursor[s] \/ cursor'[s] = 0
        /\ Fit(w'[c], DOMAIN log) /\ Step(c, w'[c])
    BY Zenon, <1>0, <1>6, AloneFacts
  <2>2. 0 <= Len(log)
    BY <1>0 DEF TypeOK
  <2>3. \A s \in Streams : cursor'[s] <= Len(log)
    BY Zenon, <1>4, <2>1, <2>2
  <2> QED  BY Zenon, <1>3, <1>4, <1>5, <2>1, <2>3
<1>7. ASSUME NEW c \in Consumers, ReadOwnPending(c) PROVE BaseInv'
  BY Zenon, <1>0, <1>3, <1>4, <1>5, <1>7, OwnReads
<1>8. ASSUME NEW c \in Consumers, ClaimAbandoned(c) PROVE BaseInv'
  <2>1. /\ UNCHANGED <<log, opaque, retained, cursor, posted, again, faults>>
        /\ Fit(w'[c], DOMAIN log) /\ Step(c, w'[c])
    BY Zenon, <1>0, <1>8, ClaimReads
  <2>2. PICK got \in SUBSET Pending :
          /\ owner' = [e \in Pending \ (got \ retained) |-> IF e \in got THEN c ELSE owner[e]]
          /\ idle' = idle \ got
    BY Zenon, <1>0, <1>8, ClaimReads
  <2>3. Pending' = Pending \ (got \ retained) /\ owner' \in [Pending' -> Consumers]
    BY Zenon, <1>0, <2>2, ClaimOwners
  <2> QED  BY Zenon, <1>3, <1>4, <2>1, <2>2, <2>3
<1>9. ASSUME NEW c \in Consumers, ReadNew(c) PROVE BaseInv'
  <2>1. /\ UNCHANGED <<log, opaque, retained, idle, posted, again, faults>>
        /\ Fit(w'[c], DOMAIN log) /\ Step(c, w'[c])
        /\ cursor' \in [Streams -> NoGroup .. MaxEntries]
        /\ \A s \in Streams : cursor'[s] <= Len(log)
    BY Zenon, <1>0, <1>4, <1>9, NewReads
  <2>2. PICK got \in SUBSET retained : owner' = Assign(got, c)
    BY Zenon, <1>0, <1>4, <1>9, NewReads
  <2>3. got \in SUBSET DOMAIN log
    BY Zenon, <1>4
  <2>4. Pending' = Pending \cup got /\ owner' \in [Pending' -> Consumers]
    BY Zenon, <1>0, <2>2, <2>3, AssignFacts
  <2> QED  BY Zenon, <1>3, <1>4, <2>1, <2>3, <2>4
<1>10. ASSUME NEW c \in Consumers, Deliver(c) \/ DeliverFails(c) PROVE BaseInv'
  <2>1. UNCHANGED redis /\ w[c].at = "post" /\ Fit(w'[c], DOMAIN log) /\ Step(c, w'[c])
    BY Zenon, <1>0, <1>10, DeliverFacts, FailFacts DEF redis
  <2>2. Head(w[c].todo).id \in DOMAIN log
    BY Zenon, <1>0, <2>1, PostFacts
  <2>3. posted' \subseteq DOMAIN log /\ again' \subseteq DOMAIN log /\ faults' \in 0..MaxFaults
    BY Zenon, <1>0, <1>4, <1>10, <2>2, DeliverFacts, FailFacts
  <2> QED  BY Zenon, <1>3, <1>4, <1>5, <2>1, <2>3 DEF redis
<1>11. ASSUME NEW c \in Consumers, Acknowledge(c) PROVE BaseInv'
  <2>1. /\ UNCHANGED <<log, opaque, retained, cursor, posted, again, faults>>
        /\ Fit(w'[c], DOMAIN log) /\ Step(c, w'[c])
        /\ owner' = Drop({Head(w[c].todo).id}) /\ idle' = idle \ {Head(w[c].todo).id}
    BY Zenon, <1>0, <1>11, AckFacts
  <2>2. Pending' = Pending \ {Head(w[c].todo).id} /\ owner' \in [Pending' -> Consumers]
    BY Zenon, <1>0, <2>1, DropFacts
  <2> QED  BY Zenon, <1>3, <1>4, <2>1, <2>2
<1>12. ASSUME NEW c \in Consumers, Crash(c) PROVE BaseInv'
  <2>1. /\ UNCHANGED <<redis, posted>> /\ faults' \in 0..MaxFaults
        /\ again' = IF w[c].at = "ack" THEN again \cup {Head(w[c].todo).id} ELSE again
        /\ Fit(w'[c], DOMAIN log) /\ Step(c, w'[c])
    BY Zenon, <1>0, <1>12, CrashFacts
  <2>2. again' \subseteq DOMAIN log
    BY Zenon, <1>0, <1>4, <2>1, PostFacts
  <2> QED  BY Zenon, <1>3, <1>4, <1>5, <2>1, <2>2 DEF redis
<1>13. CASE UNCHANGED vars
  BY Zenon, <1>13 DEF vars, redis, BaseInv, TypeInv, TypeOK, CursorInv, Pending
<1> QED
  BY Zenon, <1>1, <1>2, <1>6, <1>7, <1>8, <1>9, <1>10, <1>11, <1>12, <1>13, Steps

-----------------------------------------------------------------------------
(* Nothing is skipped. *)

\* The endpoint has accepted what is about to be acknowledged.
AckInv == \A c \in Consumers : w[c].at = "ack" => Head(w[c].todo).id \in posted

\* What lies beyond the group's cursor has been given to nobody.
Untouched(e) == e \notin posted /\ e \notin Pending /\ \A c \in Consumers : e \notin HeldBy(c)

FreshInv == \A e \in retained : cursor[log[e]] < e => Untouched(e)

SkipInv == BaseInv /\ AckInv /\ FreshInv /\ NothingSkipped

LEMMA AckNext ==
  ASSUME BaseInv, AckInv, [Next]_vars
  PROVE  AckInv'
<1>0. TypeInv /\ \A s \in Streams : cursor[s] <= Len(log)
  BY Zenon DEF BaseInv, CursorInv
<1>1. ASSUME NEW c \in Consumers, Step(c, w'[c]), Fit(w'[c], DOMAIN log), posted \subseteq posted',
             w'[c].at = "ack" => Head(w'[c].todo).id \in posted'
      PROVE  AckInv'
  <2>1. \A d \in Consumers \ {c} : w'[d] = w[d]
    BY Zenon, <1>0, <1>1, WorkerMoves
  <2> QED  BY Zenon, <1>1, <2>1 DEF AckInv
<1>2. CASE w' = w /\ posted' = posted
  BY Zenon, <1>2 DEF AckInv
<1>3. ASSUME NEW c \in Consumers, Deliver(c) PROVE AckInv'
  <2>1. /\ posted' = posted \cup {Head(w[c].todo).id} /\ w'[c].todo = w[c].todo
        /\ Step(c, w'[c]) /\ Fit(w'[c], DOMAIN log)
    BY Zenon, <1>0, <1>3, DeliverFacts
  <2>2. posted \subseteq posted' /\ Head(w'[c].todo).id \in posted'
    BY Zenon, <2>1
  <2> QED  BY Zenon, <1>1, <2>1, <2>2
<1>4. ASSUME NEW c \in Consumers, Alone(c) PROVE AckInv'
  BY Zenon, <1>0, <1>1, <1>4, AloneFacts
<1>5. ASSUME NEW c \in Consumers, ReadOwnPending(c) PROVE AckInv'
  BY Zenon, <1>0, <1>1, <1>5, OwnReads
<1>6. ASSUME NEW c \in Consumers, ClaimAbandoned(c) PROVE AckInv'
  BY Zenon, <1>0, <1>1, <1>6, ClaimReads
<1>7. ASSUME NEW c \in Consumers, ReadNew(c) PROVE AckInv'
  BY Zenon, <1>0, <1>1, <1>7, NewReads
<1>8. ASSUME NEW c \in Consumers, DeliverFails(c) PROVE AckInv'
  BY Zenon, <1>0, <1>1, <1>8, FailFacts
<1>9. ASSUME NEW c \in Consumers, Acknowledge(c) PROVE AckInv'
  BY Zenon, <1>0, <1>1, <1>9, AckFacts
<1>10. ASSUME NEW c \in Consumers, Crash(c) PROVE AckInv'
  BY Zenon, <1>0, <1>1, <1>10, CrashFacts
<1>11. CASE \/ \E s \in Streams : Write(s) \/ Trim(s) \/ Delete(s)
            \/ \E e \in Entries : Age(e)
            \/ UNCHANGED vars
  BY Zenon, <1>2, <1>11 DEF Write, Trim, Delete, Age, vars
<1> QED
  BY Zenon, <1>3, <1>4, <1>5, <1>6, <1>7, <1>8, <1>9, <1>10, <1>11, Steps

\* A step that gives out nothing new: the cursors stay or a group starts at 0, and
\* what leaves the pending list was accepted or is no longer retained.
LEMMA QuietKeeps ==
  ASSUME BaseInv, FreshInv, NothingSkipped, log' = log, retained' \subseteq retained,
         \A e \in retained' : \/ cursor'[log[e]] = cursor[log[e]]
                              \/ cursor[log[e]] = NoGroup /\ cursor'[log[e]] = 0,
         posted \subseteq posted', Pending' \subseteq Pending,
         \A e \in retained' : e \in Pending => e \in Pending' \/ e \in posted',
         \A e \in posted' : e \in posted \/ \E c \in Consumers : e \in HeldBy(c),
         \A c \in Consumers, e \in retained' :
           e \in HeldBy(c)' => e \in Pending \/ e \in HeldBy(c)
  PROVE  FreshInv' /\ NothingSkipped'
<1>1. TypeOK /\ DOMAIN log = 1..Len(log) /\ retained \subseteq DOMAIN log
  <2>1. TypeOK /\ retained \subseteq DOMAIN log
    BY Zenon DEF BaseInv, TypeInv, TypeOK
  <2> QED  BY Zenon, <2>1, SomeEntries
<1>2. ASSUME NEW e \in retained', cursor'[log[e]] < e
      PROVE  Untouched(e)'
  <2>1. cursor[log[e]] < e
    BY <1>1, <1>2 DEF NoGroup
  <2>2. Untouched(e)
    BY Zenon, <2>1 DEF FreshInv
  <2> QED  BY Zenon, <1>2, <2>2 DEF Untouched
<1>3. ASSUME NEW e \in retained', e <= cursor'[log[e]]
      PROVE  e \in posted' \cup Pending'
  <2>1. e <= cursor[log[e]]
    BY <1>1, <1>3
  <2>2. e \in posted \cup Pending
    BY Zenon, <2>1 DEF NothingSkipped
  <2> QED  BY Zenon, <1>3, <2>2
<1> QED  BY Zenon, <1>2, <1>3 DEF FreshInv, NothingSkipped

LEMMA WriteKeeps ==
  ASSUME SkipInv, NEW s \in Streams, Write(s)
  PROVE  FreshInv' /\ NothingSkipped'
<1> DEFINE n == Len(log) + 1
<1>1. /\ TypeInv /\ TypeOK /\ CursorInv /\ FreshInv /\ NothingSkipped
      /\ posted \subseteq DOMAIN log /\ Pending \subseteq DOMAIN log /\ retained \subseteq DOMAIN log
      /\ \A c \in Consumers : HeldBy(c) \subseteq DOMAIN log
  BY Zenon DEF SkipInv, BaseInv, TypeInv, TypeOK, Fit, HeldBy
<1>2. /\ log' = Append(log, s) /\ retained' = retained \cup {n}
      /\ UNCHANGED <<cursor, owner, posted, w>>
  BY Zenon DEF Write
<1>3. /\ log'[n] = s /\ n \notin DOMAIN log /\ \A e \in DOMAIN log : log'[e] = log[e]
      /\ cursor[s] < n /\ ~(n <= cursor[s])
  BY <1>1, <1>2 DEF TypeOK, CursorInv, NoGroup
<1>4. Pending' = Pending /\ \A c \in Consumers : HeldBy(c)' = HeldBy(c)
  BY Zenon, <1>2 DEF Pending, HeldBy
<1>5. ASSUME NEW e \in retained PROVE log'[e] = log[e]
  BY Zenon, <1>1, <1>3
<1> HIDE DEF n
<1>6. Untouched(n)
  BY Zenon, <1>1, <1>3 DEF Untouched
<1>7. FreshInv'
  BY Zenon, <1>1, <1>2, <1>4, <1>5, <1>6 DEF FreshInv, Untouched
<1>8. NothingSkipped'
  BY Zenon, <1>1, <1>2, <1>3, <1>4, <1>5 DEF NothingSkipped
<1> QED  BY Zenon, <1>7, <1>8

\* A read of new entries gives out exactly what its move of the cursors passes.
LEMMA NewKeeps ==
  ASSUME SkipInv, NEW c \in Consumers, ReadNew(c)
  PROVE  FreshInv' /\ NothingSkipped'
<1>1. /\ TypeInv /\ TypeOK /\ FreshInv /\ NothingSkipped
      /\ \A s \in Streams : cursor[s] <= Len(log)
      /\ retained \subseteq DOMAIN log /\ cursor \in [Streams -> NoGroup .. MaxEntries]
  BY Zenon DEF SkipInv, BaseInv, CursorInv, TypeInv, TypeOK
<1>2. /\ log' = log /\ retained' = retained /\ posted' = posted
      /\ Fit(w'[c], DOMAIN log) /\ Step(c, w'[c])
      /\ cursor' \in [Streams -> NoGroup .. MaxEntries]
      /\ \A s \in Streams : cursor[s] <= cursor'[s]
  BY Zenon, <1>1, NewReads
<1>3. PICK got \in SUBSET retained :
        /\ owner' = Assign(got, c) /\ Ids(w'[c].todo) \subseteq got
        /\ \A e \in retained : e \in got <=> cursor[log[e]] < e /\ e <= cursor'[log[e]]
  BY Zenon, <1>1, NewReads
<1>4. Pending' = Pending \cup got
  BY Zenon, <1>1, <1>3, AssignFacts
<1>5. HeldBy(c)' \subseteq got /\ \A d \in Consumers \ {c} : HeldBy(d)' = HeldBy(d)
  BY Zenon, <1>1, <1>2, <1>3, WorkerMoves DEF HeldBy
<1>6. ASSUME NEW e \in retained
      PROVE  /\ cursor'[log[e]] < e => cursor[log[e]] < e /\ e \notin got
             /\ e <= cursor'[log[e]] => e <= cursor[log[e]] \/ e \in got
  <2>1. log[e] \in Streams /\ e \in Int
    BY <1>1 DEF TypeOK
  <2>2. cursor[log[e]] \in Int /\ cursor'[log[e]] \in Int /\ cursor[log[e]] <= cursor'[log[e]]
    BY <1>1, <1>2, <2>1 DEF NoGroup
  <2> QED  BY <1>3, <2>1, <2>2
<1>7. FreshInv'
  BY Zenon, <1>1, <1>2, <1>4, <1>5, <1>6 DEF FreshInv, Untouched
<1>8. NothingSkipped'
  BY Zenon, <1>1, <1>2, <1>4, <1>6 DEF NothingSkipped
<1> QED  BY Zenon, <1>7, <1>8

LEMMA SkipNext ==
  ASSUME SkipInv, [Next]_vars
  PROVE  SkipInv'
<1>0. /\ BaseInv /\ TypeInv /\ AckInv /\ FreshInv /\ NothingSkipped
      /\ \A e \in retained : log[e] \in Streams
  <2>1. TypeInv
    BY Zenon DEF SkipInv, BaseInv
  <2>2. \A e \in retained : log[e] \in Streams
    BY <2>1 DEF TypeInv, TypeOK
  <2> QED  BY Zenon, <2>1, <2>2 DEF SkipInv, BaseInv
<1>1. BaseInv' /\ AckInv'
  BY Zenon, <1>0, BaseNext, AckNext
<1>2. (owner' = owner) => (Pending' = Pending)
  BY Zenon DEF Pending
<1>3. (w' = w) => \A c \in Consumers : HeldBy(c)' = HeldBy(c)
  BY Zenon DEF HeldBy
<1>4. ASSUME NEW s \in Streams, Trim(s) PROVE FreshInv' /\ NothingSkipped'
  <2>1. /\ retained' \subseteq retained /\ UNCHANGED <<log, cursor, owner, posted, w>>
    BY Zenon, <1>4 DEF Trim
  <2> QED  BY Zenon, <1>0, <1>2, <1>3, <2>1, QuietKeeps
<1>5. ASSUME NEW s \in Streams, Delete(s) PROVE FreshInv' /\ NothingSkipped'
  <2>1. /\ retained' = retained \ On(s) /\ UNCHANGED <<log, posted, w>>
        /\ cursor' = [cursor EXCEPT ![s] = NoGroup] /\ owner' = Drop(On(s))
        /\ cursor \in [Streams -> NoGroup .. MaxEntries] /\ retained \subseteq DOMAIN log
    BY Zenon, <1>0, <1>5 DEF Delete, TypeInv, TypeOK
  <2>2. Pending' = Pending \ On(s)
    BY Zenon, <1>0, <2>1, DropFacts
  <2>3. \A e \in retained' : log[e] # s /\ e \notin On(s) /\ e \in retained
    BY Zenon, <2>1 DEF On
  <2>4. \A e \in retained' : cursor'[log[e]] = cursor[log[e]]
    BY Zenon, <1>0, <2>1, <2>3
  <2> QED  BY Zenon, <1>0, <1>3, <2>1, <2>2, <2>3, <2>4, QuietKeeps
<1>6. ASSUME (\E e \in Entries : Age(e)) \/ UNCHANGED vars PROVE FreshInv' /\ NothingSkipped'
  <2>1. UNCHANGED <<log, retained, cursor, owner, posted, w>>
    BY Zenon, <1>6 DEF Age, vars, redis
  <2>2. Pending' = Pending /\ \A c \in Consumers : HeldBy(c)' = HeldBy(c)
    BY Zenon, <1>2, <1>3, <2>1
  <2> QED  BY Zenon, <1>0, <2>1, <2>2, QuietKeeps
<1>7. ASSUME NEW c \in Consumers, Step(c, w'[c]), Fit(w'[c], DOMAIN log), UNCHANGED <<log, retained>>,
             \/ UNCHANGED cursor
             \/ \A s \in Streams : \/ cursor'[s] = cursor[s]
                                   \/ cursor[s] = NoGroup /\ cursor'[s] = 0,
             Pending' \subseteq Pending, posted \subseteq posted',
             \A e \in retained : e \in Pending => e \in Pending' \/ e \in posted',
             \A e \in posted' : e \in posted \/ e \in HeldBy(c),
             Ids(w'[c].todo) \subseteq Pending \cup HeldBy(c)
      PROVE  FreshInv' /\ NothingSkipped'
  <2>1. \A d \in Consumers \ {c} : HeldBy(d)' = HeldBy(d)
    BY Zenon, <1>0, <1>7, WorkerMoves
  <2>2. \A d \in Consumers, e \in retained' : e \in HeldBy(d)' => e \in Pending \/ e \in HeldBy(d)
    <3>1. HeldBy(c)' \subseteq Pending \cup HeldBy(c)
      BY Zenon, <1>7 DEF HeldBy
    <3>2. TAKE d \in Consumers, e \in retained'
    <3>3. CASE d = c
      BY Zenon, <3>1, <3>3
    <3>4. CASE d # c
      BY Zenon, <2>1, <3>4
    <3> QED  BY Zenon, <3>3, <3>4
  <2>3. \A e \in retained' : \/ cursor'[log[e]] = cursor[log[e]]
                             \/ cursor[log[e]] = NoGroup /\ cursor'[log[e]] = 0
    BY Zenon, <1>0, <1>7
  <2> QED  BY Zenon, <1>0, <1>7, <2>2, <2>3, QuietKeeps
<1>8. ASSUME NEW c \in Consumers, Alone(c) PROVE FreshInv' /\ NothingSkipped'
  <2>1. /\ UNCHANGED <<log, retained, owner, posted>> /\ Step(c, w'[c]) /\ Fit(w'[c], DOMAIN log)
        /\ \A s \in Streams : cursor'[s] = cursor[s] \/ (cursor[s] = NoGroup /\ cursor'[s] = 0)
        /\ Ids(w'[c].todo) \subseteq HeldBy(c)
    BY Zenon, <1>0, <1>8, AloneFacts
  <2> QED  BY Zenon, <1>2, <1>7, <2>1
<1>9. ASSUME NEW c \in Consumers, ReadOwnPending(c) PROVE FreshInv' /\ NothingSkipped'
  <2>1. /\ UNCHANGED <<log, retained, cursor, owner, posted>>
        /\ Step(c, w'[c]) /\ Fit(w'[c], DOMAIN log) /\ Ids(w'[c].todo) \subseteq Pending
    BY Zenon, <1>0, <1>9, OwnReads
  <2> QED  BY Zenon, <1>2, <1>7, <2>1
<1>10. ASSUME NEW c \in Consumers, ClaimAbandoned(c) PROVE FreshInv' /\ NothingSkipped'
  <2>1. /\ UNCHANGED <<log, retained, cursor, posted>>
        /\ Step(c, w'[c]) /\ Fit(w'[c], DOMAIN log)
    BY Zenon, <1>0, <1>10, ClaimReads
  <2>2. PICK got \in SUBSET Pending :
          /\ owner' = [e \in Pending \ (got \ retained) |-> IF e \in got THEN c ELSE owner[e]]
          /\ Ids(w'[c].todo) \subseteq got
    BY Zenon, <1>0, <1>10, ClaimReads
  <2>3. Pending' = Pending \ (got \ retained)
    BY Zenon, <1>0, <2>2, ClaimOwners
  <2> QED  BY Zenon, <1>7, <2>1, <2>2, <2>3
<1>11. ASSUME NEW c \in Consumers, Deliver(c) \/ DeliverFails(c) PROVE FreshInv' /\ NothingSkipped'
  <2>1. /\ UNCHANGED <<log, retained, cursor, owner>> /\ w[c].at = "post"
        /\ posted' = posted \/ posted' = posted \cup {Head(w[c].todo).id}
        /\ Head(w[c].todo).id \in HeldBy(c) /\ Step(c, w'[c]) /\ Fit(w'[c], DOMAIN log)
        /\ Ids(w'[c].todo) \subseteq HeldBy(c)
    BY Zenon, <1>0, <1>11, DeliverFacts, FailFacts DEF redis, HeldBy
  <2>2. posted \subseteq posted' /\ \A e \in posted' : e \in posted \/ e \in HeldBy(c)
    BY Zenon, <2>1
  <2> QED  BY Zenon, <1>2, <1>7, <2>1, <2>2
<1>12. ASSUME NEW c \in Consumers, Acknowledge(c) PROVE FreshInv' /\ NothingSkipped'
  <2>1. /\ UNCHANGED <<log, retained, cursor, posted>> /\ w[c].at = "ack"
        /\ owner' = Drop({Head(w[c].todo).id}) /\ Step(c, w'[c]) /\ Fit(w'[c], DOMAIN log)
        /\ Ids(w'[c].todo) \subseteq HeldBy(c)
    BY Zenon, <1>0, <1>12, AckFacts
  <2>2. Pending' = Pending \ {Head(w[c].todo).id}
    BY Zenon, <1>0, <2>1, DropFacts
  <2>3. Head(w[c].todo).id \in posted
    BY Zenon, <1>0, <2>1 DEF AckInv
  <2> QED  BY Zenon, <1>7, <2>1, <2>2, <2>3
<1>13. ASSUME NEW c \in Consumers, Crash(c) PROVE FreshInv' /\ NothingSkipped'
  <2>1. /\ UNCHANGED <<log, retained, cursor, owner, posted>>
        /\ Step(c, w'[c]) /\ Fit(w'[c], DOMAIN log) /\ Ids(w'[c].todo) = {}
    BY Zenon, <1>0, <1>13, CrashFacts DEF redis
  <2> QED  BY Zenon, <1>2, <1>7, <2>1
<1>14. FreshInv' /\ NothingSkipped'
  <2>1. ASSUME NEW s \in Streams, Write(s) PROVE FreshInv' /\ NothingSkipped'
    BY Zenon, <2>1, WriteKeeps
  <2>2. ASSUME NEW c \in Consumers, ReadNew(c) PROVE FreshInv' /\ NothingSkipped'
    BY Zenon, <2>2, NewKeeps
  <2> QED  BY Zenon, <1>4, <1>5, <1>6, <1>8, <1>9, <1>10, <1>11, <1>12, <1>13, <2>1, <2>2, Steps
<1> QED  BY Zenon, <1>1, <1>14 DEF SkipInv

LEMMA SkipInit ==
  ASSUME Init
  PROVE  SkipInv
<1>1. TypeInv
  BY Zenon, TypeInit
<1>2. /\ log = <<>> /\ retained = {} /\ cursor = [s \in Streams |-> NoGroup]
      /\ w = [c \in Consumers |-> Down]
  BY Zenon DEF Init
<1>3. CursorInv
  BY <1>2 DEF CursorInv, NoGroup
<1>4. AckInv
  <2>1. Down.at # "ack"
    BY DEF Down
  <2> QED  BY Zenon, <1>2, <2>1 DEF AckInv
<1> QED  BY Zenon, <1>1, <1>2, <1>3, <1>4 DEF SkipInv, BaseInv, FreshInv, NothingSkipped

\* The sink's state keeps its types: the group's cursors and its pending list name
\* entries that were written, and so does every batch a worker holds.
THEOREM TypeCorrect == Spec => []TypeOK
<1>1. Init => SkipInv
  BY Zenon, SkipInit
<1>2. SkipInv /\ [Next]_vars => SkipInv'
  BY Zenon, SkipNext
<1>3. SkipInv => TypeOK
  BY Zenon DEF SkipInv, BaseInv, TypeInv
<1> QED  BY <1>1, <1>2, <1>3, PTL DEF Spec

\* Whatever crashes, claims, refusals, lost answers, trims and deletions happen,
\* an entry the group has moved past and that Redis still holds was accepted by the
\* endpoint or is pending, so that some worker can recover it.
THEOREM SkipCorrect == Spec => []NothingSkipped
<1>1. Init => SkipInv
  BY Zenon, SkipInit
<1>2. SkipInv /\ [Next]_vars => SkipInv'
  BY Zenon, SkipNext
<1>3. SkipInv => NothingSkipped
  BY Zenon DEF SkipInv
<1> QED  BY <1>1, <1>2, <1>3, PTL DEF Spec

-----------------------------------------------------------------------------
(* A duplicate has a cause. *)

\* An entry with no reason to be POSTed again is in one worker's hands at most, the
\* one it is pending under, and once accepted it is in hand only for its XACK.
InHand(e, c) == e \in HeldBy(c) \/ (e \in Pending /\ owner[e] = c)

Sole(e) ==
  /\ \A c, d \in Consumers : e \in HeldBy(c) /\ e \in HeldBy(d) => c = d
  /\ \A c \in Consumers : e \in HeldBy(c) /\ e \in Pending => owner[e] = c
  /\ e \in posted =>
       \A c \in Consumers : InHand(e, c) => w[c].at = "ack" /\ Head(w[c].todo).id = e

CauseInv == SkipInv /\ idle \subseteq again /\ \A e \in DOMAIN log \ again : Sole(e)

\* A step of worker c after which an entry is in its hands only if it was before.
LEMMA SoleKept ==
  ASSUME TypeInv, NEW c \in Consumers, Step(c, w'[c]), Fit(w'[c], DOMAIN log),
         NEW e, Sole(e), e \in posted' => e \in posted,
         e \in Pending' => e \in Pending /\ owner'[e] = owner[e],
         e \in HeldBy(c)' => InHand(e, c),
         e \in posted => ~InHand(e, c)'
  PROVE  Sole(e)'
<1>1. \A d \in Consumers \ {c} : w'[d] = w[d] /\ HeldBy(d)' = HeldBy(d)
  BY Zenon, WorkerMoves
<1>2. \A d \in Consumers : e \in HeldBy(d)' => InHand(e, d)
  BY Zenon, <1>1 DEF InHand
<1>3. \A d \in Consumers : InHand(e, d)' => InHand(e, d)
  BY Zenon, <1>2 DEF InHand
<1>4. \A d, b \in Consumers : InHand(e, d) /\ InHand(e, b) => d = b
  BY Zenon DEF InHand, Sole
<1>5. \A d, b \in Consumers : e \in HeldBy(d)' /\ e \in HeldBy(b)' => d = b
  BY Zenon, <1>2, <1>4
<1>6. \A d \in Consumers : e \in HeldBy(d)' /\ e \in Pending' => owner'[e] = d
  BY Zenon, <1>2 DEF InHand, Sole
<1>7. ASSUME e \in posted', NEW d \in Consumers, InHand(e, d)'
      PROVE  w'[d].at = "ack" /\ Head(w'[d].todo).id = e
  <2>1. d # c
    BY Zenon, <1>7
  <2>2. InHand(e, d) /\ w'[d] = w[d]
    BY Zenon, <1>1, <1>3, <1>7, <2>1
  <2> QED  BY Zenon, <1>7, <2>2 DEF Sole
<1> QED  BY Zenon, <1>5, <1>6, <1>7 DEF Sole

\* An entry nobody has had is read by c, or the one c is POSTing is accepted.
LEMMA SoleGained ==
  ASSUME TypeInv, NEW c \in Consumers, Step(c, w'[c]), Fit(w'[c], DOMAIN log),
         NEW e, \A d \in Consumers \ {c} : e \notin HeldBy(d),
         e \in Pending' => owner'[e] = c,
         e \in posted' => w'[c].at = "ack" /\ Head(w'[c].todo).id = e
  PROVE  Sole(e)'
<1>1. \A d \in Consumers \ {c} : HeldBy(d)' = HeldBy(d)
  BY Zenon, WorkerMoves
<1>2. \A d \in Consumers : e \in HeldBy(d)' => d = c
  BY Zenon, <1>1
<1>3. \A d \in Consumers : InHand(e, d)' => d = c
  BY Zenon, <1>2 DEF InHand
<1> QED  BY Zenon, <1>2, <1>3 DEF Sole

LEMMA CauseNext ==
  ASSUME CauseInv, [Next]_vars
  PROVE  CauseInv'
<1>0. /\ SkipInv /\ TypeInv /\ FreshInv /\ \A s \in Streams : cursor[s] <= Len(log)
      /\ idle \subseteq again /\ \A e \in DOMAIN log \ again : Sole(e)
      /\ retained \subseteq DOMAIN log /\ posted \subseteq DOMAIN log /\ Pending \subseteq DOMAIN log
      /\ \A c \in Consumers : HeldBy(c) \subseteq DOMAIN log
  BY Zenon DEF CauseInv, SkipInv, BaseInv, CursorInv, TypeInv, TypeOK, Fit, HeldBy
<1>1. SkipInv'
  BY Zenon, <1>0, SkipNext
<1>2. (owner' = owner) => (Pending' = Pending)
  BY Zenon DEF Pending
<1>3. ASSUME NEW e, Sole(e), w' = w, posted' = posted, Pending' \subseteq Pending,
             \A f \in Pending' : owner'[f] = owner[f]
      PROVE  Sole(e)'
  BY Zenon, <1>3 DEF Sole, InHand, HeldBy
<1>4. ASSUME NEW s \in Streams, Write(s) PROVE CauseInv'
  <2>1. log' = Append(log, s) /\ UNCHANGED <<owner, idle, posted, again, w>>
    BY Zenon, <1>4 DEF Write
  <2>2. DOMAIN log' = DOMAIN log \cup {Len(log) + 1} /\ Len(log) + 1 \notin DOMAIN log
    BY <1>0, <2>1 DEF TypeInv, TypeOK
  <2>3. Sole(Len(log) + 1)
    BY Zenon, <1>0, <2>2 DEF Sole, InHand
  <2>4. \A e \in DOMAIN log' \ again' : Sole(e)'
    <3>1. \A e \in DOMAIN log' \ again' : Sole(e)
      BY Zenon, <1>0, <2>1, <2>2, <2>3
    <3> QED  BY Zenon, <1>2, <1>3, <2>1, <3>1
  <2> QED  BY Zenon, <1>0, <1>1, <2>1, <2>4 DEF CauseInv
<1>5. CASE (\E s \in Streams : Trim(s)) \/ (\E e \in Entries : Age(e)) \/ UNCHANGED vars
  <2>1. /\ UNCHANGED <<log, owner, posted, w>> /\ again \subseteq again'
        /\ idle' \subseteq idle \cup again'
    BY Zenon, <1>5 DEF Trim, Age, vars, redis
  <2>2. \A e \in DOMAIN log' \ again' : Sole(e)'
    BY Zenon, <1>0, <1>2, <1>3, <2>1
  <2> QED  BY Zenon, <1>0, <1>1, <2>1, <2>2 DEF CauseInv
<1>6. ASSUME NEW s \in Streams, Delete(s) PROVE CauseInv'
  <2>1. /\ UNCHANGED <<log, posted, again, w>> /\ owner' = Drop(On(s)) /\ idle' \subseteq idle
    BY Zenon, <1>6 DEF Delete
  <2>2. Pending' \subseteq Pending /\ \A f \in Pending' : owner'[f] = owner[f]
    BY Zenon, <1>0, <2>1, DropFacts
  <2>3. \A e \in DOMAIN log' \ again' : Sole(e)'
    BY Zenon, <1>0, <1>3, <2>1, <2>2
  <2> QED  BY Zenon, <1>0, <1>1, <2>1, <2>3 DEF CauseInv
<1>7. ASSUME log' = log, idle' \subseteq idle, again \subseteq again',
             \A e \in DOMAIN log \ again' : Sole(e) => Sole(e)'
      PROVE  CauseInv'
  BY Zenon, <1>0, <1>1, <1>7 DEF CauseInv
<1>8. ASSUME NEW c \in Consumers, Alone(c) PROVE CauseInv'
  <2>1. /\ UNCHANGED <<log, owner, idle, posted, again>>
        /\ Fit(w'[c], DOMAIN log) /\ Step(c, w'[c])
        /\ w[c].at # "ack" /\ HeldBy(c)' \subseteq HeldBy(c)
    BY Zenon, <1>0, <1>8, AloneFacts DEF HeldBy
  <2>2. ASSUME NEW e, Sole(e) PROVE Sole(e)'
    <3>1. InHand(e, c)' => InHand(e, c)
      BY Zenon, <1>2, <2>1 DEF InHand
    <3>2. (e \in HeldBy(c)' => InHand(e, c)) /\ (e \in posted => ~InHand(e, c)')
      BY Zenon, <2>1, <2>2, <3>1 DEF Sole, InHand
    <3> QED  BY Zenon, <1>0, <1>2, <2>1, <2>2, <3>2, SoleKept
  <2> QED  BY Zenon, <1>7, <2>1, <2>2
<1>9. ASSUME NEW c \in Consumers, ReadOwnPending(c) PROVE CauseInv'
  <2>1. /\ UNCHANGED <<log, owner, posted, again>> /\ idle' \subseteq idle
        /\ Fit(w'[c], DOMAIN log) /\ Step(c, w'[c]) /\ w[c].at = "own"
        /\ \A e \in HeldBy(c)' : e \in Pending /\ owner[e] = c
    BY Zenon, <1>0, <1>9, OwnReads DEF HeldBy
  <2>2. w[c].at # "ack"
    BY <2>1
  <2>3. ASSUME NEW e, Sole(e) PROVE Sole(e)'
    <3>1. InHand(e, c)' => InHand(e, c)
      BY Zenon, <1>2, <2>1 DEF InHand
    <3>2. (e \in HeldBy(c)' => InHand(e, c)) /\ (e \in posted => ~InHand(e, c)')
      BY Zenon, <2>1, <2>2, <2>3, <3>1 DEF Sole, InHand
    <3> QED  BY Zenon, <1>0, <1>2, <2>1, <2>3, <3>2, SoleKept
  <2> QED  BY Zenon, <1>7, <2>1, <2>3
<1>10. ASSUME NEW c \in Consumers, ClaimAbandoned(c) PROVE CauseInv'
  <2>1. /\ UNCHANGED <<log, posted, again>> /\ w[c].at = "claim"
        /\ Fit(w'[c], DOMAIN log) /\ Step(c, w'[c])
    BY Zenon, <1>0, <1>10, ClaimReads
  <2>2. w[c].at # "ack"
    BY <2>1
  <2>3. PICK got \in SUBSET Pending :
          /\ got \cap retained \subseteq idle
          /\ owner' = [e \in Pending \ (got \ retained) |-> IF e \in got THEN c ELSE owner[e]]
          /\ idle' = idle \ got
          /\ Ids(w'[c].todo) \subseteq got \cap retained
    BY Zenon, <1>0, <1>10, ClaimReads
  <2>4. /\ Pending' = Pending \ (got \ retained) /\ \A e \in Pending' \ got : owner'[e] = owner[e]
        /\ HeldBy(c)' \subseteq got \cap retained
    BY Zenon, <1>0, <2>3, ClaimOwners DEF HeldBy
  <2>5. ASSUME NEW e \in DOMAIN log \ again', Sole(e) PROVE Sole(e)'
    <3>1. e \notin got \cap retained
      BY Zenon, <1>0, <2>1, <2>3, <2>5
    <3>2. e \notin HeldBy(c)' /\ (e \in Pending' => e \in Pending /\ owner'[e] = owner[e])
      BY Zenon, <2>4, <3>1
    <3>3. e \in posted => ~InHand(e, c)'
      BY Zenon, <2>2, <2>5, <3>2 DEF Sole, InHand
    <3> QED  BY Zenon, <1>0, <2>1, <2>5, <3>2, <3>3, SoleKept
  <2> QED  BY Zenon, <1>7, <2>1, <2>3, <2>5
<1>11. ASSUME NEW c \in Consumers, ReadNew(c) PROVE CauseInv'
  <2>1. /\ UNCHANGED <<log, idle, posted, again>> /\ w[c].at \in {"loop", "read"}
        /\ Fit(w'[c], DOMAIN log) /\ Step(c, w'[c])
    BY Zenon, <1>0, <1>11, NewReads
  <2>2. w[c].at # "ack"
    BY <2>1
  <2>3. PICK got \in SUBSET retained :
          /\ owner' = Assign(got, c) /\ Ids(w'[c].todo) \subseteq got
          /\ \A e \in retained : e \in got <=> cursor[log[e]] < e /\ e <= cursor'[log[e]]
    BY Zenon, <1>0, <1>11, NewReads
  <2>4. /\ Pending' = Pending \cup got /\ HeldBy(c)' \subseteq got
        /\ \A e \in got : owner'[e] = c
        /\ \A e \in Pending \ got : owner'[e] = owner[e]
    BY ZenonT(40), <1>0, <2>3, AssignFacts DEF HeldBy
  <2>5. ASSUME NEW e, Sole(e) PROVE Sole(e)'
    <3>1. CASE e \in got
      <4>1. Untouched(e)
        BY Zenon, <1>0, <2>3, <3>1 DEF FreshInv
      <4>2. e \notin posted' /\ owner'[e] = c /\ \A d \in Consumers : e \notin HeldBy(d)
        BY Zenon, <2>1, <2>4, <3>1, <4>1 DEF Untouched
      <4> QED  BY Zenon, <1>0, <2>1, <4>2, SoleGained
    <3>2. CASE e \notin got
      <4>1. e \notin HeldBy(c)' /\ (e \in Pending' => e \in Pending /\ owner'[e] = owner[e])
        BY Zenon, <2>4, <3>2
      <4>2. e \in posted => ~InHand(e, c)'
        BY Zenon, <2>2, <2>5, <4>1 DEF Sole, InHand
      <4> QED  BY Zenon, <1>0, <2>1, <2>5, <4>1, <4>2, SoleKept
    <3> QED  BY Zenon, <3>1, <3>2
  <2> QED  BY Zenon, <1>7, <2>1, <2>5
<1>12. ASSUME NEW c \in Consumers, Deliver(c) PROVE CauseInv'
  <2> DEFINE h == Head(w[c].todo).id
  <2>1. /\ UNCHANGED <<log, owner, idle, again>> /\ w[c].at = "post"
        /\ posted' = posted \cup {h} /\ h \in HeldBy(c)
        /\ Fit(w'[c], DOMAIN log) /\ Step(c, w'[c])
        /\ w'[c].at = "ack" /\ Head(w'[c].todo).id = h /\ HeldBy(c)' = HeldBy(c)
    BY Zenon, <1>0, <1>12, DeliverFacts DEF redis, HeldBy
  <2>2. w[c].at # "ack"
    BY <2>1
  <2> HIDE DEF h
  <2>3. ASSUME NEW e, Sole(e) PROVE Sole(e)'
    <3>1. CASE e = h
      <4>1. e \in HeldBy(c) /\ \A d \in Consumers \ {c} : e \notin HeldBy(d)
        BY Zenon, <2>1, <2>3, <3>1 DEF Sole
      <4>2. e \in Pending' => owner'[e] = c
        BY Zenon, <1>2, <2>1, <2>3, <4>1 DEF Sole
      <4> QED  BY Zenon, <1>0, <2>1, <3>1, <4>1, <4>2, SoleGained
    <3>2. CASE e # h
      <4>1. (e \in posted' => e \in posted) /\ (InHand(e, c)' => InHand(e, c))
        BY Zenon, <1>2, <2>1, <3>2 DEF InHand
      <4>2. (e \in HeldBy(c)' => InHand(e, c)) /\ (e \in posted => ~InHand(e, c)')
        BY Zenon, <2>1, <2>2, <2>3, <4>1 DEF Sole, InHand
      <4> QED  BY Zenon, <1>0, <1>2, <2>1, <2>3, <4>1, <4>2, SoleKept
    <3> QED  BY Zenon, <3>1, <3>2
  <2> QED  BY Zenon, <1>7, <2>1, <2>3
<1>13. ASSUME NEW c \in Consumers, DeliverFails(c) PROVE CauseInv'
  <2> DEFINE h == Head(w[c].todo).id
  <2>1. /\ UNCHANGED <<log, owner, idle>> /\ w[c].at = "post"
        /\ UNCHANGED <<posted, again>> \/ (posted' = posted \cup {h} /\ again' = again \cup {h})
        /\ Fit(w'[c], DOMAIN log) /\ Step(c, w'[c]) /\ HeldBy(c)' \subseteq HeldBy(c)
    BY Zenon, <1>0, <1>13, FailFacts DEF redis, HeldBy
  <2>2. w[c].at # "ack" /\ again \subseteq again'
    BY <2>1
  <2> HIDE DEF h
  <2>3. ASSUME NEW e \in DOMAIN log \ again', Sole(e) PROVE Sole(e)'
    <3>1. (e \in posted' => e \in posted) /\ (InHand(e, c)' => InHand(e, c))
      BY Zenon, <1>2, <2>1, <2>3 DEF InHand
    <3>2. (e \in HeldBy(c)' => InHand(e, c)) /\ (e \in posted => ~InHand(e, c)')
      BY Zenon, <2>1, <2>2, <2>3, <3>1 DEF Sole, InHand
    <3> QED  BY Zenon, <1>0, <1>2, <2>1, <2>3, <3>1, <3>2, SoleKept
  <2> QED  BY Zenon, <1>7, <2>1, <2>2, <2>3
<1>14. ASSUME NEW c \in Consumers, Acknowledge(c) PROVE CauseInv'
  <2> DEFINE h == Head(w[c].todo).id
  <2>1. /\ UNCHANGED <<log, posted, again>> /\ idle' \subseteq idle /\ owner' = Drop({h})
        /\ Fit(w'[c], DOMAIN log) /\ Step(c, w'[c]) /\ HeldBy(c)' \subseteq HeldBy(c) \ {h}
    BY Zenon, <1>0, <1>14, AckFacts DEF HeldBy
  <2> HIDE DEF h
  <2>2. Pending' = Pending \ {h} /\ \A e \in Pending' : owner'[e] = owner[e]
    BY Zenon, <1>0, <2>1, DropFacts
  <2>3. ASSUME NEW e, Sole(e) PROVE Sole(e)'
    <3>1. InHand(e, c)' => InHand(e, c) /\ e # h
      BY Zenon, <2>1, <2>2 DEF InHand
    <3>2. e \in posted => ~InHand(e, c)'
      BY Zenon, <2>3, <3>1 DEF Sole, h
    <3>3. /\ e \in HeldBy(c)' => InHand(e, c)
          /\ e \in Pending' => e \in Pending /\ owner'[e] = owner[e]
      BY Zenon, <2>1, <2>2 DEF InHand
    <3> QED  BY Zenon, <1>0, <2>1, <2>3, <3>2, <3>3, SoleKept
  <2> QED  BY Zenon, <1>7, <2>1, <2>3
<1>15. ASSUME NEW c \in Consumers, Crash(c) PROVE CauseInv'
  <2> DEFINE h == Head(w[c].todo).id
  <2>1. /\ UNCHANGED <<log, owner, idle, posted>>
        /\ again' = IF w[c].at = "ack" THEN again \cup {h} ELSE again
        /\ Fit(w'[c], DOMAIN log) /\ Step(c, w'[c]) /\ HeldBy(c)' = {}
    BY Zenon, <1>0, <1>15, CrashFacts DEF redis, HeldBy
  <2> HIDE DEF h
  <2>2. again \subseteq again'
    BY Zenon, <2>1
  <2>3. ASSUME NEW e \in DOMAIN log \ again', Sole(e) PROVE Sole(e)'
    <3>1. ~(w[c].at = "ack" /\ h = e)
      BY Zenon, <2>1, <2>3
    <3>2. InHand(e, c)' => InHand(e, c)
      BY Zenon, <1>2, <2>1 DEF InHand
    <3>3. e \in posted => ~InHand(e, c)'
      BY Zenon, <2>3, <3>1, <3>2 DEF Sole, h
    <3> QED  BY Zenon, <1>0, <1>2, <2>1, <2>3, <3>3, SoleKept
  <2> QED  BY Zenon, <1>7, <2>1, <2>2, <2>3
<1> QED
  BY Zenon, <1>4, <1>5, <1>6, <1>8, <1>9, <1>10, <1>11, <1>12, <1>13, <1>14, <1>15, Steps

\* An entry the endpoint accepted is POSTed again only if its answer was lost, its
\* worker died before the XACK or it was pending for --min-idle-ms, so that another
\* worker could claim it: stopping at --max-records, giving up at --max-attempts and
\* restarting with entries pending cause no duplicate.
THEOREM CauseCorrect == Spec => DuplicateHasCause
<1>1. Init => CauseInv
  <2>1. Init => idle = {} /\ log = <<>>
    BY Zenon DEF Init
  <2>2. log = <<>> => DOMAIN log = {}
    OBVIOUS
  <2> QED  BY Zenon, <2>1, <2>2, SkipInit DEF CauseInv
<1>2. CauseInv /\ [Next]_vars => CauseInv'
  BY Zenon, CauseNext
<1>3. ASSUME CauseInv, NEW c \in Consumers, w[c].at = "post"
      PROVE  Head(w[c].todo).id \notin posted \ again
  <2>1. TypeInv
    BY Zenon, <1>3 DEF CauseInv, SkipInv, BaseInv
  <2>2. w[c].at \in {"post", "ack"} /\ w[c].at # "ack"
    BY <1>3
  <2>3. Head(w[c].todo).id \in HeldBy(c) /\ HeldBy(c) \subseteq DOMAIN log
    BY Zenon, <2>1, <2>2, PostFacts
  <2> QED  BY Zenon, <1>3, <2>2, <2>3 DEF CauseInv, Sole, InHand
<1>4. CauseInv => [\A c \in Consumers : (w[c].at = "post" /\ w'[c].at = "ack")
                      => Head(w[c].todo).id \notin posted \ again]_vars
  BY Zenon, <1>3
<1> QED  BY <1>1, <1>2, <1>4, PTL DEF Spec, DuplicateHasCause

=============================================================================
