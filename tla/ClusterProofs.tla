---------------------------- MODULE ClusterProofs ----------------------------
(***************************************************************************)
(* Proofs about Cluster, for every set of slots and streams, every cap and *)
(* any number of events, reshards and reloads.                             *)
(***************************************************************************)
EXTENDS Cluster, FiniteSetTheorems, TLAPS

-----------------------------------------------------------------------------
(* What one event does, whichever way through process_pending_event it     *)
(* takes.                                                                  *)

Tags == Slots \cup {None}

\* The slot t the event ends in, and how the node came to it: the tag it had or a first
\* selection, no slot at all, a re-pin with its marker, or a re-pin whose marker failed.
Path(t, recs) ==
  \/ t \in Slots /\ t \in Segments /\ recs = <<>> /\ unmarked' = unmarked
  \/ t = None /\ t \in Selectable /\ recs = Dropped /\ unmarked' = unmarked
  \/ t \in Slots /\ t \in Selectable /\ recs = <<Add(t, "repinned")>> /\ unmarked' = unmarked
  \/ t \in Slots /\ recs = <<>> /\ unmarked' = unmarked + 1

\* Every re-pin counts, and one the probe asked for counts as such.
Pins ==
  \/ repins' = repins /\ probed' = probed
  \/ repins' = repins + 1 /\ probed' \in {probed, probed + 1}

\* Why the event is lost in slot t.
Cause(t, k) ==
  \/ oom
  \/ t = None /\ t \in Selectable
  \/ t \in Slots /\ Capped(t, k)
  \/ t \in Slots /\ flaky /\ Outcome(t, k) = "written"
  \/ t \in Slots /\ "reworded" \in Ops /\ verified = t

Ending(t, k, recs) ==
  \/ t \in Slots /\ ~Capped(t, k) /\ Written(t, k, recs)
  \/ /\ \E v \in Tags, n \in {0, 1} : Lose(t, v, n, recs)
     /\ Cause(t, k)

\* A selected tag is a slot that accepts writes, or there is none.
LEMMA SelectableFacts ==
  /\ Selectable \subseteq Tags
  /\ \A t \in Selectable : t \in Slots => Accepts(t)
  /\ None \in Selectable => \A s \in Slots : ~Accepts(s)
  BY Zenon, ClusterAssumption DEF Selectable, Tags

LEMMA DroppedFacts == Dropped \in Seq(Records) /\ Dropped = <<Add(None, "dropped")>>
<1>1. Add(None, "dropped") \in Records
  BY Zenon DEF Add, Records
<1> QED  BY <1>1 DEF Dropped

LEMMA SegmentFacts ==
  ASSUME TypeOK
  PROVE  Segments \subseteq Tags /\ (tag # None => Segments = {tag})
  BY Zenon, SelectableFacts DEF Segments, Tags, TypeOK

\* Where a slot accepts the probe a write is refused at the cap or by an unrelated fault.
LEMMA AcceptedCause ==
  ASSUME NEW t \in Slots, Accepts(t), NEW k \in Streams,
         NEW o \in Mirrored(t, k), o # "written"
  PROVE  Cause(t, k)
<1>1. CASE Capped(t, k)
  BY Zenon, <1>1 DEF Cause
<1>2. CASE ~Capped(t, k)
  <2>1. Outcome(t, k) = "written"
    BY Zenon DEF Accepts, Outcome
  <2> QED  BY Zenon, <2>1, <1>2 DEF Mirrored, Outcomes, Fails, Cause
<1> QED  BY Zenon, <1>1, <1>2

\* What an answer other than a success says of the slot.
LEMMA OutcomeFacts ==
  ASSUME NEW t, NEW k, NEW o \in Mirrored(t, k)
  PROVE  /\ o = "capped" => Capped(t, k)
         /\ o = "oom" => oom
         /\ o = "failed" => \/ flaky /\ Outcome(t, k) = "written"
                            \/ "reworded" \in Ops /\ Outcome(t, k) = "migrated"
<1>1. Outcome(t, k) \in {"oom", "migrated", "migrating", "written"}
      /\ (Outcome(t, k) = "oom" => oom)
  BY Zenon DEF Outcome
<1>2. CASE Capped(t, k)
  BY Zenon, <1>2 DEF Mirrored
<1>3. CASE ~Capped(t, k)
  <2>1. o = Outcome(t, k) \/ (o = "failed" /\ Fails(Outcome(t, k)))
    BY Zenon, <1>3 DEF Mirrored, Outcomes
  <2> QED  BY Zenon, <1>1, <2>1 DEF Fails
<1> QED  BY Zenon, <1>2, <1>3

LEMMA NotCapped ==
  ASSUME NEW t, NEW k, "written" \in Mirrored(t, k)
  PROVE  ~Capped(t, k)
  BY Zenon DEF Mirrored

\* repin_and_retry.
LEMMA RepinEnding ==
  ASSUME TypeOK, NEW k \in Streams, Repin(k)
  PROVE  /\ repins' = repins + 1
         /\ \E t \in Tags, recs \in Seq(Records) : Path(t, recs) /\ Ending(t, k, recs)
<1>1. repins' = repins + 1
  BY Zenon DEF Repin
<1>2. PICK t \in Selectable :
        \/ t = None /\ Lose(None, None, 1, Dropped) /\ UNCHANGED unmarked
        \/ /\ t # None
           /\ \E o \in Mirrored(t, k), recs \in {<<Add(t, "repinned")>>} \cup Unwritten :
                /\ unmarked' = IF recs = <<>> THEN unmarked + 1 ELSE unmarked
                /\ IF o = "written" THEN Written(t, k, recs) ELSE Lose(t, None, 0, recs)
  BY Zenon DEF Repin
<1>3. t \in Tags
  BY Zenon, SelectableFacts
<1>4. CASE t = None
  <2>1. Path(t, Dropped)
    BY Zenon, <1>2, <1>4, ClusterAssumption DEF Path
  <2>2. Ending(t, k, Dropped)
    BY Zenon, <1>2, <1>4 DEF Ending, Cause, Tags
  <2> QED  BY Zenon, <1>1, <1>3, <2>1, <2>2, DroppedFacts
<1>5. CASE t # None
  <2>1. t \in Slots /\ Accepts(t)
    BY Zenon, <1>3, <1>5, SelectableFacts DEF Tags
  <2>2. PICK o \in Mirrored(t, k), recs \in {<<Add(t, "repinned")>>} \cup Unwritten :
           /\ unmarked' = IF recs = <<>> THEN unmarked + 1 ELSE unmarked
           /\ IF o = "written" THEN Written(t, k, recs) ELSE Lose(t, None, 0, recs)
    BY Zenon, <1>2, <1>5
  <2>3. Add(t, "repinned") \in Records
    BY Zenon, <2>1 DEF Add, Records
  <2>4. <<Add(t, "repinned")>> \in Seq(Records) /\ <<Add(t, "repinned")>> # <<>>
    BY <2>3
  <2>5. recs = <<>> \/ recs = <<Add(t, "repinned")>>
    BY Zenon, <2>2 DEF Unwritten
  <2>6. Path(t, recs)
    BY Zenon, <2>1, <2>2, <2>4, <2>5 DEF Path
  <2>7. recs \in Seq(Records)
    <3>1. <<>> \in Seq(Records)
      OBVIOUS
    <3> QED  BY Zenon, <2>4, <2>5, <3>1
  <2>8. CASE o = "written"
    <3>1. Ending(t, k, recs)
      BY Zenon, <2>1, <2>2, <2>8, NotCapped DEF Ending
    <3> QED  BY Zenon, <1>1, <1>3, <2>6, <2>7, <3>1
  <2>9. CASE o # "written"
    <3>1. Lose(t, None, 0, recs) /\ Cause(t, k)
      BY Zenon, <2>1, <2>2, <2>9, AcceptedCause
    <3>2. Ending(t, k, recs)
      BY Zenon, <3>1 DEF Ending, Tags
    <3> QED  BY Zenon, <1>1, <1>3, <2>6, <2>7, <3>2
  <2> QED  BY Zenon, <2>8, <2>9
<1> QED  BY Zenon, <1>4, <1>5

\* An event ends in one slot, or in none, written or lost for a cause.
LEMMA EventEnding ==
  ASSUME TypeOK, NEW k \in Streams, Event(k)
  PROVE  /\ Pins
         /\ \E t \in Tags, recs \in Seq(Records) : Path(t, recs) /\ Ending(t, k, recs)
<1>0. verified \in Tags
  BY Zenon DEF TypeOK, Tags
<1>1. PICK t \in Segments :
        \/ /\ t = None
           /\ Lose(None, verified, 1, Dropped)
           /\ UNCHANGED <<repins, probed, unmarked>>
        \/ /\ t # None
           /\ \E o \in Mirrored(t, k) :
                \/ /\ o = "written"
                   /\ Written(t, k, <<>>)
                   /\ UNCHANGED <<repins, probed, unmarked>>
                \/ /\ o \in {"oom", "capped"}
                   /\ Lose(t, verified, 0, <<>>)
                   /\ UNCHANGED <<repins, probed, unmarked>>
                \/ /\ o \in {"migrated", "migrating"}
                   /\ Repin(k)
                   /\ UNCHANGED probed
                \/ /\ o = "failed" /\ LostByProbe(t)
                   /\ Repin(k)
                   /\ probed' = probed + 1
                \/ /\ o = "failed" /\ ~LostByProbe(t)
                   /\ Lose(t, IF Accepts(t) THEN t ELSE verified, 0, <<>>)
                   /\ UNCHANGED <<repins, probed, unmarked>>
  BY Zenon DEF Event
<1>2. t \in Tags /\ <<>> \in Seq(Records)
  BY SegmentFacts
<1>3. CASE t = None
  <2>1. Lose(None, verified, 1, Dropped) /\ UNCHANGED <<repins, probed, unmarked>>
    BY Zenon, <1>1, <1>3
  <2>2. t \in Selectable
    BY Zenon, <1>3 DEF Segments
  <2>3. Path(t, Dropped) /\ Pins
    BY Zenon, <1>3, <2>1, <2>2 DEF Path, Pins
  <2>4. Ending(t, k, Dropped)
    BY Zenon, <1>0, <1>3, <2>1, <2>2 DEF Ending, Cause
  <2> QED  BY Zenon, <1>2, <2>3, <2>4, DroppedFacts
<1>4. CASE t # None
  <2>1. t \in Slots
    BY Zenon, <1>2, <1>4 DEF Tags
  <2>2. PICK o \in Mirrored(t, k) :
                \/ /\ o = "written"
                   /\ Written(t, k, <<>>)
                   /\ UNCHANGED <<repins, probed, unmarked>>
                \/ /\ o \in {"oom", "capped"}
                   /\ Lose(t, verified, 0, <<>>)
                   /\ UNCHANGED <<repins, probed, unmarked>>
                \/ /\ o \in {"migrated", "migrating"}
                   /\ Repin(k)
                   /\ UNCHANGED probed
                \/ /\ o = "failed" /\ LostByProbe(t)
                   /\ Repin(k)
                   /\ probed' = probed + 1
                \/ /\ o = "failed" /\ ~LostByProbe(t)
                   /\ Lose(t, IF Accepts(t) THEN t ELSE verified, 0, <<>>)
                   /\ UNCHANGED <<repins, probed, unmarked>>
    BY Zenon, <1>1, <1>4
  <2>3. CASE o = "written"
    <3>1. Written(t, k, <<>>) /\ UNCHANGED <<repins, probed, unmarked>>
      BY Zenon, <2>2, <2>3
    <3>2. Path(t, <<>>) /\ Pins
      BY Zenon, <2>1, <3>1 DEF Path, Pins
    <3>3. Ending(t, k, <<>>)
      BY Zenon, <2>1, <2>3, <3>1, NotCapped DEF Ending
    <3> QED  BY Zenon, <1>2, <3>2, <3>3
  <2>4. CASE o \in {"oom", "capped"}
    <3>1. Lose(t, verified, 0, <<>>) /\ UNCHANGED <<repins, probed, unmarked>>
      BY Zenon, <2>2, <2>4
    <3>2. Path(t, <<>>) /\ Pins
      BY Zenon, <2>1, <3>1 DEF Path, Pins
    <3>3. Cause(t, k)
      BY Zenon, <2>1, <2>4, OutcomeFacts DEF Cause
    <3>4. Ending(t, k, <<>>)
      BY Zenon, <1>0, <3>1, <3>3 DEF Ending
    <3> QED  BY Zenon, <1>2, <3>2, <3>4
  <2>5. CASE o \in {"migrated", "migrating"} \/ (o = "failed" /\ LostByProbe(t))
    <3>1. Repin(k) /\ probed' \in {probed, probed + 1}
      BY Zenon, <2>2, <2>5
    <3>2. repins' = repins + 1
      BY Zenon, <3>1 DEF Repin
    <3>3. Pins
      BY Zenon, <3>1, <3>2 DEF Pins
    <3> QED  BY Zenon, <3>1, <3>3, RepinEnding
  <2>6. CASE o = "failed" /\ ~LostByProbe(t)
    <3> DEFINE v == IF Accepts(t) THEN t ELSE verified
    <3>1. Lose(t, v, 0, <<>>) /\ UNCHANGED <<repins, probed, unmarked>>
      BY Zenon, <2>2, <2>6
    <3>2. Path(t, <<>>) /\ Pins
      BY Zenon, <2>1, <3>1 DEF Path, Pins
    <3>3. Cause(t, k)
      <4>1. CASE Outcome(t, k) = "written"
        BY Zenon, <2>1, <2>6, <4>1, OutcomeFacts DEF Cause
      <4>2. CASE Outcome(t, k) # "written"
        <5>1. Outcome(t, k) = "migrated" /\ "reworded" \in Ops
          BY Zenon, <2>6, <4>2, OutcomeFacts
        <5>2. ~Accepts(t)
          BY Zenon, <2>1, <5>1 DEF Outcome, Accepts
        <5> QED  BY Zenon, <2>1, <2>6, <5>1, <5>2 DEF LostByProbe, Cause
      <4> QED  BY Zenon, <4>1, <4>2
    <3>4. v \in Tags
      BY Zenon, <1>0, <2>1 DEF Tags
    <3> HIDE DEF v
    <3>5. Ending(t, k, <<>>)
      BY Zenon, <3>1, <3>3, <3>4 DEF Ending
    <3> QED  BY Zenon, <1>2, <3>2, <3>5
  <2> QED  BY Zenon, <2>2, <2>3, <2>4, <2>5, <2>6
<1> QED  BY Zenon, <1>3, <1>4
-----------------------------------------------------------------------------
(* Types, and the bound the cap puts on the names counted.                 *)

\* The names of event-derived streams among them: the firehose asks for no place.
Derived == counted \cap (Slots \X Streams)

CapInv ==
  /\ IsFiniteSet(counted)
  /\ cap > 0 => Cardinality(Derived) <= cap

TypeInv == TypeOK /\ CapInv

LEMMA TypeInvInit == Init => TypeInv
<1> SUFFICES ASSUME Init PROVE TypeInv
  BY Zenon
<1>1. log \in Seq(Records)
  BY DEF Init
<1>2. slot \in [Slots -> Views]
  BY Zenon DEF Init, Views
<1>3. cap \in Nat
  BY Zenon, ClusterAssumption DEF Init
<1>4. /\ {forwarded, lost, noSlot, copyLost, unmarked, repins, probed, cap} \subseteq Nat
      /\ probed <= repins /\ noSlot <= lost
  BY <1>3 DEF Init
<1>5. TypeOK
  BY Zenon, <1>1, <1>2, <1>4 DEF Init, TypeOK
<1>6. CapInv
  BY <1>3, FS_EmptySet DEF Init, CapInv, Derived
<1> QED  BY Zenon, <1>5, <1>6 DEF TypeInv

LEMMA EventTypes ==
  ASSUME TypeInv, NEW k \in Streams, Event(k)
  PROVE  TypeInv'
<1> USE DEF TypeInv
<1>1. Pins /\ \E t \in Tags, recs \in Seq(Records) : Path(t, recs) /\ Ending(t, k, recs)
  BY Zenon, EventEnding
<1>2. PICK t \in Tags, recs \in Seq(Records) : Path(t, recs) /\ Ending(t, k, recs)
  BY Zenon, <1>1
<1>3. /\ at' \in {"idle", "copy"}
      /\ UNCHANGED <<slot, oom, flaky, copyLost, cap>>
  BY Zenon DEF Event
<1>4. /\ unmarked' \in Nat /\ repins' \in Nat /\ probed' \in Nat /\ probed' <= repins'
  <2>1. unmarked \in Nat /\ repins \in Nat /\ probed \in Nat /\ probed <= repins
    BY Zenon DEF TypeOK
  <2>2. unmarked' \in {unmarked, unmarked + 1}
    BY Zenon, <1>2 DEF Path
  <2>3. \/ repins' = repins /\ probed' = probed
        \/ repins' = repins + 1 /\ probed' \in {probed, probed + 1}
    BY Zenon, <1>1 DEF Pins
  <2> HIDE DEF TypeInv
  <2> QED  BY <2>1, <2>2, <2>3
<1>5. CASE t \in Slots /\ ~Capped(t, k) /\ Written(t, k, recs)
  <2>1. Add(t, "entry") \in Records
    BY Zenon, <1>5 DEF Add, Records
  <2>2. log' \in Seq(Records)
    BY <1>5, <2>1 DEF Written, TypeOK
  <2>3. <<t, k>> \in Slots \X Streams /\ <<t, k>> \in Slots \X Keys
    BY Zenon, <1>5 DEF Keys
  <2>4. here' \subseteq Slots \X Keys /\ counted' \subseteq Slots \X Keys
    BY Zenon, <1>5, <2>3 DEF Written, TypeOK
  <2>5. TypeOK'
    <3>1. forwarded \in Nat /\ lost \in Nat /\ noSlot \in Nat /\ noSlot <= lost
      BY Zenon DEF TypeOK
    <3>2. /\ forwarded' \in Nat /\ lost' \in Nat /\ noSlot' \in Nat /\ noSlot' <= lost'
          /\ tag' = t /\ verified' = None
      BY <1>5, <3>1 DEF Written
    <3> QED  BY Zenon, <1>3, <1>4, <1>5, <2>2, <2>4, <3>2 DEF TypeOK, Tags
  <2>6. /\ IsFiniteSet(counted) /\ IsFiniteSet(Derived) /\ Derived \subseteq counted
        /\ Cardinality(counted) \in Nat /\ Cardinality(Derived) \in Nat
        /\ Cardinality(Derived) <= Cardinality(counted)
    BY Zenon, FS_Subset, FS_CardinalityType DEF CapInv, Derived
  <2>7. /\ IsFiniteSet(counted')
        /\ Derived' = Derived \cup {<<t, k>>}
    BY Zenon, <1>5, <2>3, <2>6, FS_AddElement DEF Written, Derived
  <2>8. CapInv'
    <3>1. cap' = cap /\ cap \in Nat
      BY Zenon, <1>3 DEF TypeOK
    <3>2. CASE <<t, k>> \in Derived
      <4>1. Derived' = Derived
        BY Zenon, <2>7, <3>2
      <4> QED  BY Zenon, <2>7, <3>1, <4>1 DEF CapInv
    <3>3. CASE <<t, k>> \notin Derived
      <4>1. <<t, k>> \notin counted
        BY Zenon, <2>3, <3>3 DEF Derived
      <4>2. Cardinality(Derived') = Cardinality(Derived) + 1
        BY Zenon, <2>6, <2>7, <3>3, FS_AddElement
      <4>3. cap > 0 => ~(Cardinality(counted) >= cap)
        BY Zenon, <1>5, <4>1 DEF Capped
      <4>4. cap' > 0 => Cardinality(Derived') <= cap'
        BY SMT, <2>6, <3>1, <4>2, <4>3
      <4> QED  BY Zenon, <2>7, <4>4 DEF CapInv
    <3> QED  BY Zenon, <3>2, <3>3
  <2> QED  BY Zenon, <2>5, <2>8
<1>6. CASE \E v \in Tags, n \in {0, 1} : Lose(t, v, n, recs)
  <2>1. PICK v \in Tags, n \in {0, 1} : Lose(t, v, n, recs)
    BY Zenon, <1>6
  <2>2. log' \in Seq(Records)
    BY <2>1 DEF Lose, TypeOK
  <2>3. lost' \in Nat /\ noSlot' \in Nat /\ noSlot' <= lost'
    <3>1. lost \in Nat /\ noSlot \in Nat /\ noSlot <= lost
      BY Zenon DEF TypeOK
    <3> QED  BY <2>1, <3>1 DEF Lose
  <2>4. TypeOK'
    BY Zenon, <1>3, <1>4, <2>1, <2>2, <2>3 DEF Lose, TypeOK, Tags
  <2>5. CapInv'
    BY Zenon, <1>3, <2>1 DEF Lose, CapInv, Derived
  <2> QED  BY Zenon, <2>4, <2>5
<1> QED  BY Zenon, <1>2, <1>5, <1>6 DEF Ending

LEMMA CopyTypes ==
  ASSUME TypeInv, Copy
  PROVE  TypeInv'
<1> USE DEF TypeInv
<1>1. PICK t \in Segments :
       /\ tag' = t
       /\ \/ t = None /\ UNCHANGED <<verified, here, counted, copyLost>>
          \/ /\ t # None
             /\ verified' \in {verified, None}
             /\ here' \in {here, here \cup {<<t, Firehose>>}}
             /\ counted' \in {counted, counted \cup {<<t, Firehose>>}}
             /\ copyLost' \in {copyLost, copyLost + 1}
  BY Zenon DEF Copy
<1>2. /\ at' = "idle"
      /\ UNCHANGED <<slot, oom, flaky, forwarded, lost, noSlot, unmarked, repins, probed, cap,
                     log>>
  BY Zenon DEF Copy
<1>3. t \in Tags
  BY Zenon, SegmentFacts
<1>4. t # None => <<t, Firehose>> \in Slots \X Keys
  BY Zenon, <1>3 DEF Tags, Keys
<1>5. here' \subseteq Slots \X Keys /\ counted' \subseteq Slots \X Keys
  BY Zenon, <1>1, <1>4 DEF TypeOK
<1>6. TypeOK'
  <2>1. copyLost \in Nat
    BY Zenon DEF TypeOK
  <2>2. copyLost' \in Nat
    BY SMT, <1>1, <2>1
  <2>3. tag' \in Tags /\ verified' \in Tags
    BY Zenon, <1>1, <1>3 DEF TypeOK, Tags
  <2> QED  BY Zenon, <1>2, <1>5, <2>2, <2>3 DEF TypeOK, Tags
<1>7. CapInv'
  <2>1. <<t, Firehose>> \notin Slots \X Streams
    BY Zenon, ClusterAssumption
  <2>2. Derived' = Derived
    BY Zenon, <1>1, <2>1 DEF Derived
  <2>3. IsFiniteSet(counted')
    <3>1. IsFiniteSet(counted) /\ IsFiniteSet(counted \cup {<<t, Firehose>>})
      BY Zenon, FS_AddElement DEF CapInv
    <3> QED  BY Zenon, <1>1, <3>1
  <2> QED  BY Zenon, <1>2, <2>2, <2>3 DEF CapInv
<1> QED  BY Zenon, <1>6, <1>7

\* The steps of the cluster around the node, and those that write nothing.
LEMMA OtherTypes ==
  ASSUME TypeInv,
         \/ Resolve \/ Reload \/ MemoryPressure \/ Disturb \/ UNCHANGED vars
         \/ \E s \in Slots : MoveSlot(s) \/ \E k \in Keys : MoveKey(s, k)
  PROVE  TypeInv'
<1> USE DEF TypeInv
<1>1. CASE Resolve
  <2>1. tag' \in Tags
    BY Zenon, <1>1, SelectableFacts DEF Resolve
  <2> QED  BY Zenon, <1>1, <2>1 DEF Resolve, TypeOK, CapInv, Derived, topology, counters, limit, Tags
<1>2. CASE Reload
  <2>1. <<>> \in Seq(Records)
    OBVIOUS
  <2>2. CapInv'
    BY <1>2, FS_EmptySet DEF Reload, CapInv, Derived, TypeOK
  <2>3. log' \in Seq(Records) /\ counted' \subseteq Slots \X Keys
    BY Zenon, <1>2, <2>1 DEF Reload
  <2>4. TypeOK'
    BY <1>2, <2>3 DEF Reload, TypeOK, topology
  <2> QED  BY Zenon, <2>2, <2>4
<1>3. CASE MemoryPressure \/ Disturb
  BY Zenon, <1>3 DEF MemoryPressure, Disturb, TypeOK, CapInv, Derived, pin, counters, limit
<1>4. CASE UNCHANGED vars
  BY Zenon, <1>4 DEF TypeOK, CapInv, Derived, vars, topology, pin, counters, limit
<1>5. ASSUME NEW s \in Slots, MoveSlot(s) PROVE TypeInv'
  <2>1. PICK v \in Views \ {slot[s]} :
       /\ slot' = [slot EXCEPT ![s] = v]
       /\ \/ here' = {p \in here : p[1] # s}
          \/ here' = here
          \/ here' = here \cup ({s} \X Keys)
    BY <1>5, Zenon DEF MoveSlot
  <2>2. slot' \in [Slots -> Views]
    BY Zenon, <2>1 DEF TypeOK
  <2>3. here' \subseteq Slots \X Keys
    BY Zenon, <2>1 DEF TypeOK
  <2> QED
    BY Zenon, <1>5, <2>2, <2>3 DEF MoveSlot, TypeOK, CapInv, Derived, pin, counters, limit
<1>6. ASSUME NEW s \in Slots, NEW k \in Keys, MoveKey(s, k) PROVE TypeInv'
  BY Zenon, <1>6 DEF MoveKey, TypeOK, CapInv, Derived, pin, counters, limit
<1> QED  BY Zenon, <1>1, <1>2, <1>3, <1>4, <1>5, <1>6

LEMMA TypeInvNext == TypeInv /\ [Next]_vars => TypeInv'
  BY Zenon, EventTypes, CopyTypes, OtherTypes DEF Next

\* The node's view of the cluster, its counters and its log have their types, the
\* probe-detected re-pins are re-pins, the events dropped for want of a slot are lost
\* ones, and the event-derived names written since the load never exceed a cap that is
\* set, whatever the firehose takes of it.
THEOREM TypeCorrect == Spec => []TypeInv
  BY TypeInvInit, TypeInvNext, PTL DEF Spec

-----------------------------------------------------------------------------
(* One event, one outcome. *)

LEMMA EventCounts ==
  ASSUME TypeOK, NEW k \in Streams, Event(k)
  PROVE  forwarded' + lost' = forwarded + lost + 1
<1>1. PICK t \in Tags, recs \in Seq(Records) : Ending(t, k, recs)
  BY Zenon, EventEnding
<1>2. \/ forwarded' = forwarded + 1 /\ lost' = lost
      \/ forwarded' = forwarded /\ lost' = lost + 1
  BY Zenon, <1>1 DEF Ending, Written, Lose
<1>3. forwarded \in Nat /\ lost \in Nat
  BY Zenon DEF TypeOK
<1> QED  BY SMT, <1>2, <1>3

\* Every event is counted once: forwarded + events_lost grows by one, on each of the paths
\* through refusal, probe, re-pin and retry, whatever the slots, the memory and the cap.
THEOREM CountCorrect == Spec => CountedOnce
<1>1. TypeInv /\ [Next]_vars =>
        [(\E k \in Streams : Event(k)) => forwarded' + lost' = forwarded + lost + 1]_vars
  BY Zenon, EventCounts DEF TypeInv
<1> QED  BY <1>1, TypeCorrect, PTL DEF Spec, CountedOnce
-----------------------------------------------------------------------------
(* What a reshard may cost. *)

LossExplained(k) ==
  \/ oom
  \/ \A s \in Slots : slot[s] # "owned"
  \/ flaky /\ tag' # None /\ slot[tag'] # "elsewhere"
  \/ "reworded" \in Ops /\ tag' # None /\ verified = tag'
  \/ /\ cap > 0 /\ Cardinality(counted) >= cap
     /\ <<tag', k>> \notin counted

LEMMA EventLoss ==
  ASSUME TypeInv, NEW k \in Streams, Event(k), lost' > lost
  PROVE  LossExplained(k)
<1>1. PICK t \in Tags, recs \in Seq(Records) : Ending(t, k, recs)
  BY Zenon, EventEnding DEF TypeInv
<1>2. lost \in Nat
  BY Zenon DEF TypeInv, TypeOK
<1>3. ~Written(t, k, recs)
  BY <1>2 DEF Written
<1>4. Cause(t, k) /\ tag' = t
  BY Zenon, <1>1, <1>3 DEF Ending, Lose
<1>5. CASE t = None /\ t \in Selectable
  BY Zenon, <1>5, SelectableFacts DEF Accepts, LossExplained
<1>6. CASE t \in Slots /\ Capped(t, k)
  BY Zenon, <1>4, <1>6 DEF Capped, LossExplained
<1>7. CASE t \in Slots /\ flaky /\ Outcome(t, k) = "written"
  BY Zenon, <1>4, <1>7, ClusterAssumption DEF Outcome, LossExplained
<1>8. CASE t \in Slots /\ "reworded" \in Ops /\ verified = t
  BY Zenon, <1>4, <1>8, ClusterAssumption DEF LossExplained
<1> QED  BY Zenon, <1>4, <1>5, <1>6, <1>7, <1>8 DEF Cause, LossExplained

\* Only an event can be lost: no other step counts one.
LEMMA OnlyEventsLost ==
  ASSUME TypeInv, [Next]_vars, lost' > lost
  PROVE  \E k \in Streams : Event(k)
<1>1. lost \in Nat
  BY Zenon DEF TypeInv, TypeOK
<1>2. Copy \/ Resolve \/ MemoryPressure \/ Disturb \/ UNCHANGED vars => lost' = lost
  BY Zenon DEF Copy, Resolve, MemoryPressure, Disturb, vars, counters
<1>3. \A s \in Slots : MoveSlot(s) => lost' = lost
  BY Zenon DEF MoveSlot, counters
<1>4. \A s \in Slots, k \in Keys : MoveKey(s, k) => lost' = lost
  BY Zenon DEF MoveKey, counters
<1>5. Reload => lost' = 0
  BY Zenon DEF Reload
<1> QED  BY <1>1, <1>2, <1>3, <1>4, <1>5 DEF Next

\* A reshard loses no event: one is lost under memory pressure, if no slot of the node
\* accepts writes, for an unrelated failure on a slot the node still has, at the cap for
\* want of a place, or when a refusal in unknown words comes from a slot whose probe is
\* remembered, for any slots, streams, caps and server.
THEOREM ReshardCorrect == Spec => ReshardLosesNothing
<1>1. TypeInv /\ [Next]_vars =>
        [lost' > lost => \E k \in Streams :
           /\ Event(k)
           /\ \/ oom
              \/ \A s \in Slots : slot[s] # "owned"
              \/ flaky /\ tag' # None /\ slot[tag'] # "elsewhere"
              \/ "reworded" \in Ops /\ tag' # None /\ verified = tag'
              \/ /\ cap > 0 /\ Cardinality(counted) >= cap
                 /\ <<tag', k>> \notin counted]_vars
  BY Zenon, EventLoss, OnlyEventsLost DEF LossExplained
<1> QED  BY <1>1, TypeCorrect, PTL DEF Spec, ReshardLosesNothing

-----------------------------------------------------------------------------
(* Changes of stream names are marked. *)

Drop == Add(None, "dropped")

\* After position i the log tells of the move to g: by its marker, or by an event that
\* was dropped because the node had no slot.
Told(l, i, g) ==
  \E m \in i..Len(l) : l[m] = Drop \/ (g # None /\ l[m] = Add(g, "repinned"))

\* The log of a node pinned to g tells of every change of slots so far.
Followed(l, g) ==
  /\ \A i \in DOMAIN l : l[i].what = "entry" =>
       (g # None /\ l[i].slot = g) \/ Told(l, i, g)
  /\ \A i, j \in DOMAIN l :
       (i < j /\ l[i].what = "entry" /\ l[j].what = "entry" /\ l[i].slot # l[j].slot)
         => \E m \in i..j : l[m] \in {Add(l[j].slot, "repinned"), Drop}

PinInv == unmarked = 0 => Followed(log, tag)

LEMMA PinChange ==
  ASSUME PinInv
  PROVE  ChangeMarked
  BY Zenon DEF PinInv, Followed, ChangeMarked, Drop

\* A node that gave up its slot may take any other: the drop is told of already.
LEMMA FollowedNone ==
  ASSUME NEW l, Followed(l, None), NEW g
  PROVE  Followed(l, g)
<1>1. ASSUME NEW i \in DOMAIN l, l[i].what = "entry" PROVE Told(l, i, g)
  BY Zenon, <1>1 DEF Followed, Told
<1> QED  BY Zenon, <1>1 DEF Followed

\* A marker of the move to g makes the log one of a node pinned to g, and a drop that of
\* a node without a slot.
LEMMA FollowedMarker ==
  ASSUME NEW l \in Seq(Records), NEW g \in Tags, NEW h, Followed(l, h), NEW r \in Records,
         \/ g # None /\ r = Add(g, "repinned")
         \/ g = None /\ r = Drop
  PROVE  Followed(Append(l, r), g)
<1> DEFINE n == Append(l, r)
<1>1. r.what # "entry"
  BY SMT DEF Add, Drop
<1>2. /\ n \in Seq(Records) /\ DOMAIN n = 1..(Len(l) + 1) /\ Len(n) = Len(l) + 1
      /\ \A i \in 1..Len(l) : n[i] = l[i]
      /\ n[Len(l) + 1] = r
      /\ DOMAIN l = 1..Len(l) /\ Len(l) \in Nat
  OBVIOUS
<1> HIDE DEF n
<1>3. \A i \in DOMAIN n : Len(n) \in i..Len(n)
  BY <1>2
<1>4. \A i \in DOMAIN n : n[i].what = "entry" => i \in DOMAIN l
  BY <1>1, <1>2
<1>5. ASSUME NEW i \in DOMAIN l, NEW j \in DOMAIN l, NEW m \in i..j
      PROVE  n[m] = l[m]
  BY <1>2
<1>6. ASSUME NEW i \in DOMAIN n, NEW j \in DOMAIN n, i < j,
             n[i].what = "entry", n[j].what = "entry", n[i].slot # n[j].slot
      PROVE  \E m \in i..j : n[m] \in {Add(n[j].slot, "repinned"), Drop}
  <2>1. i \in DOMAIN l /\ j \in DOMAIN l /\ n[i] = l[i] /\ n[j] = l[j]
    BY Zenon, <1>2, <1>4, <1>6
  <2>2. PICK m \in i..j : l[m] \in {Add(l[j].slot, "repinned"), Drop}
    BY Zenon, <1>6, <2>1 DEF Followed
  <2>3. n[m] = l[m]
    BY Zenon, <1>5, <2>1, <2>2
  <2> QED  BY Zenon, <2>1, <2>2, <2>3
<1>7. \A i \in DOMAIN n : Told(n, i, g)
  BY Zenon, <1>2, <1>3 DEF Told
<1> QED  BY Zenon, <1>6, <1>7 DEF Followed, n

\* An entry in the slot the node is pinned to changes nothing.
LEMMA FollowedEntry ==
  ASSUME NEW l \in Seq(Records), NEW g \in Slots, Followed(l, g)
  PROVE  Followed(Append(l, Add(g, "entry")), g)
<1> DEFINE n == Append(l, Add(g, "entry"))
<1>0. g # None
  BY Zenon, ClusterAssumption
<1>1. Add(g, "entry") \in Records /\ Add(g, "entry").slot = g
  BY Zenon DEF Add, Records
<1>2. /\ n \in Seq(Records) /\ DOMAIN n = 1..(Len(l) + 1) /\ Len(n) = Len(l) + 1
      /\ \A i \in 1..Len(l) : n[i] = l[i]
      /\ n[Len(l) + 1] = Add(g, "entry")
      /\ DOMAIN l = 1..Len(l) /\ Len(l) \in Nat
  BY <1>1
<1> HIDE DEF n
<1>3. ASSUME NEW i \in DOMAIN n, n[i].what = "entry", n[i].slot # g
      PROVE  \E m \in i..Len(l) : n[m] \in {Add(g, "repinned"), Drop}
  <2>1. i \in DOMAIN l /\ n[i] = l[i]
    BY <1>1, <1>2, <1>3
  <2>2. PICK m \in i..Len(l) : l[m] \in {Add(g, "repinned"), Drop}
    BY Zenon, <1>3, <2>1 DEF Followed, Told
  <2>3. n[m] = l[m]
    BY <1>2, <2>1, <2>2
  <2> QED  BY Zenon, <2>2, <2>3
<1>4. ASSUME NEW i \in DOMAIN n, NEW m \in i..Len(l)
      PROVE  m \in i..Len(n)
  BY <1>2
<1>5. ASSUME NEW i \in DOMAIN n, NEW j \in DOMAIN n, i < j,
             n[i].what = "entry", n[j].what = "entry", n[i].slot # n[j].slot
      PROVE  \E m \in i..j : n[m] \in {Add(n[j].slot, "repinned"), Drop}
  <2>1. CASE j = Len(l) + 1
    <3>1. n[j].slot = g
      BY Zenon, <1>1, <1>2, <2>1
    <3>2. PICK m \in i..Len(l) : n[m] \in {Add(g, "repinned"), Drop}
      BY Zenon, <1>3, <1>5, <3>1
    <3>3. m \in i..j
      BY <1>2, <1>5, <2>1, <3>2
    <3> QED  BY Zenon, <3>1, <3>2, <3>3
  <2>2. CASE j # Len(l) + 1
    <3>1. i \in DOMAIN l /\ j \in DOMAIN l /\ n[i] = l[i] /\ n[j] = l[j]
      BY <1>2, <1>5, <2>2
    <3>2. PICK m \in i..j : l[m] \in {Add(l[j].slot, "repinned"), Drop}
      BY Zenon, <1>5, <3>1 DEF Followed
    <3>3. n[m] = l[m]
      BY <1>2, <3>1, <3>2
    <3> QED  BY Zenon, <3>1, <3>2, <3>3
  <2> QED  BY Zenon, <2>1, <2>2
<1>6. ASSUME NEW i \in DOMAIN n, n[i].what = "entry"
      PROVE  (g # None /\ n[i].slot = g) \/ Told(n, i, g)
  BY Zenon, <1>0, <1>3, <1>4, <1>6 DEF Told
<1> QED  BY Zenon, <1>5, <1>6 DEF Followed, n

LEMMA EventPin ==
  ASSUME TypeOK, PinInv, NEW k \in Streams, Event(k)
  PROVE  PinInv'
<1>1. PICK t \in Tags, recs \in Seq(Records) : Path(t, recs) /\ Ending(t, k, recs)
  BY Zenon, EventEnding
<1>2. log \in Seq(Records) /\ unmarked \in Nat
  BY Zenon DEF TypeOK
<1>3. tag' = t
  BY Zenon, <1>1 DEF Ending, Written, Lose
<1>4. \/ t \in Slots /\ log' = log \o recs \o <<Add(t, "entry")>>
      \/ log' = log \o recs
  BY Zenon, <1>1 DEF Ending, Written, Lose
<1> SUFFICES ASSUME unmarked' = 0 PROVE Followed(log', t)
  BY Zenon, <1>3 DEF PinInv
<1>5. /\ unmarked' = unmarked
      /\ \/ t = tag /\ recs = <<>>
         \/ tag = None /\ recs = <<>>
         \/ t = None /\ recs = Dropped
         \/ t \in Slots /\ recs = <<Add(t, "repinned")>>
  <2>1. unmarked' # unmarked + 1
    BY SMT, <1>2
  <2>2. tag # None => \A u \in Segments : u = tag
    BY Zenon, SegmentFacts
  <2> QED  BY Zenon, <1>1, <2>1, <2>2 DEF Path
<1>6. Followed(log, tag)
  BY Zenon, <1>5 DEF PinInv
<1>7. Followed(log \o recs, t)
  <2>1. CASE t = tag /\ recs = <<>>
    <3>1. log \o recs = log
      BY <1>2, <2>1
    <3> QED  BY Zenon, <1>6, <2>1, <3>1
  <2>2. CASE tag = None /\ recs = <<>>
    <3>1. log \o recs = log
      BY <1>2, <2>2
    <3> QED  BY Zenon, <1>6, <2>2, <3>1, FollowedNone
  <2>3. CASE t = None /\ recs = Dropped
    <3>1. Drop \in Records
      BY Zenon DEF Drop, Add, Records
    <3>2. recs = <<Drop>>
      BY Zenon, <2>3, DroppedFacts DEF Drop
    <3>3. log \o recs = Append(log, Drop)
      BY <1>2, <3>1, <3>2
    <3> QED  BY Zenon, <1>2, <1>6, <2>3, <3>1, <3>3, FollowedMarker
  <2>4. CASE t \in Slots /\ recs = <<Add(t, "repinned")>>
    <3>1. Add(t, "repinned") \in Records /\ t # None
      BY Zenon, <2>4, ClusterAssumption DEF Add, Records
    <3>2. log \o recs = Append(log, Add(t, "repinned"))
      BY <1>2, <2>4, <3>1
    <3> QED  BY Zenon, <1>2, <1>6, <3>1, <3>2, FollowedMarker
  <2> QED  BY Zenon, <1>5, <2>1, <2>2, <2>3, <2>4
<1>8. CASE log' = log \o recs
  BY Zenon, <1>7, <1>8
<1>9. CASE t \in Slots /\ log' = log \o recs \o <<Add(t, "entry")>>
  <2>1. Add(t, "entry") \in Records
    BY Zenon, <1>9 DEF Add, Records
  <2>2. log \o recs \in Seq(Records)
    BY <1>2
  <2>3. log' = Append(log \o recs, Add(t, "entry"))
    BY <1>9, <2>1, <2>2
  <2> QED  BY Zenon, <1>7, <1>9, <2>2, <2>3, FollowedEntry
<1> QED  BY Zenon, <1>4, <1>8, <1>9

\* The other steps leave the log alone or clear it, and a tag is first selected or kept.
LEMMA OtherPin ==
  ASSUME PinInv,
         \/ Copy \/ Resolve \/ Reload \/ MemoryPressure \/ Disturb \/ UNCHANGED vars
         \/ \E s \in Slots : MoveSlot(s) \/ \E k \in Keys : MoveKey(s, k)
  PROVE  PinInv'
<1>1. CASE Reload
  BY <1>1 DEF Reload, PinInv, Followed
<1>2. CASE Copy \/ Resolve
  <2>1. UNCHANGED <<log, unmarked>>
    BY Zenon, <1>2 DEF Copy, Resolve, counters
  <2>2. tag' = tag \/ tag = None
    BY Zenon, <1>2 DEF Copy, Resolve, Segments
  <2> QED  BY Zenon, <2>1, <2>2, FollowedNone DEF PinInv
<1>3. CASE MemoryPressure \/ Disturb \/ UNCHANGED vars
  BY Zenon, <1>3 DEF MemoryPressure, Disturb, vars, pin, counters, PinInv
<1>4. ASSUME NEW s \in Slots, MoveSlot(s) PROVE PinInv'
  BY Zenon, <1>4 DEF MoveSlot, pin, counters, PinInv
<1>5. ASSUME NEW s \in Slots, NEW k \in Keys, MoveKey(s, k) PROVE PinInv'
  BY Zenon, <1>5 DEF MoveKey, pin, counters, PinInv
<1> QED  BY Zenon, <1>1, <1>2, <1>3, <1>4, <1>5

\* A consumer sees every change of stream names: the `repinned` marker of the new slot
\* lies between the entries, unless its write failed or the node had no slot meanwhile
\* and dropped an event.
THEOREM ChangeCorrect == Spec => []ChangeMarked
<1>1. Init => PinInv
  BY DEF Init, PinInv, Followed
<1>2. TypeInv /\ PinInv /\ [Next]_vars => PinInv'
  BY Zenon, EventPin, OtherPin DEF Next, TypeInv
<1>3. PinInv => ChangeMarked
  BY Zenon, PinChange
<1> QED  BY <1>1, <1>2, <1>3, TypeCorrect, PTL DEF Spec
=============================================================================
