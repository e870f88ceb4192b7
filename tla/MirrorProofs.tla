---------------------------- MODULE MirrorProofs ----------------------------
(***************************************************************************)
(* Proofs about Mirror, for every set of streams, groups and cap values    *)
(* and every combination of operations and failures:                       *)
(*   - the state keeps its type;                                           *)
(*   - CURRENT_STREAMS counts the counted bits;                            *)
(*   - every selected event is counted once;                               *)
(*   - the cap bounds the streams created and spares existing ones;        *)
(*   - created streams stay discoverable and keep their auto-group, but for*)
(*     what was deleted, renamed or replayed behind the module's bits.     *)
(***************************************************************************)
EXTENDS Mirror, FiniteSetTheorems, TLAPS

USE DEF cache, config, counts, job, vars

(***************************************************************************)
(* What each operation does to a database keeps it one.                    *)
(***************************************************************************)
LEMMA DatabaseFacts ==
  ASSUME NEW d \in Database, NEW S \in SUBSET All, NEW g \in SUBSET (All \X Groups)
  PROVE  /\ [d EXCEPT !.streams = @ \cup S] \in Database
         /\ [d EXCEPT !.registry = @ \cup S] \in Database
         /\ [d EXCEPT !.registry = @ \ S] \in Database
         /\ [d EXCEPT !.groups = @ \cup g] \in Database
         /\ [d EXCEPT !.foreign = @ \cup S] \in Database
         /\ Without(d, S) \in Database
         /\ Empty \in Database
  BY Zenon DEF Database, Without, Empty

LEMMA TypeInit == Init => TypeOK
  <1> SUFFICES ASSUME Init PROVE TypeOK
    BY Zenon
  <1>1. Empty \in Database
    BY Zenon DEF Database, Empty
  <1> QED
    BY <1>1 DEF Init, TypeOK, All, Steps

(***************************************************************************)
(* The steps of one write keep the type.                                   *)
(***************************************************************************)
LEMMA WriteTypes ==
  ASSUME TypeOK, Write
  PROVE  TypeOK'
  <1> USE MirrorAssumption
  <1>1. /\ {dest} \in SUBSET All
        /\ db[0] \in Database /\ db[1] \in Database
        /\ Len(batch) \in Nat
    BY DEF TypeOK
  <1>2. AfterWrite \in Steps
    BY Zenon DEF AfterWrite, Steps
  <1>3. CASE CapRefusal
    BY <1>1, <1>2, <1>3 DEF CapRefusal, TypeOK
  <1>4. CASE EarlyFailure
    BY <1>1, <1>4 DEF EarlyFailure, TypeOK, Steps
  <1>5. CASE XaddRefused
    BY <1>1, <1>2, <1>5 DEF XaddRefused, TypeOK
  <1>6. CASE XaddOk
    <2>1. [db[0] EXCEPT !.streams = @ \cup {dest}] \in Database
      BY Zenon, <1>1, DatabaseFacts
    <2>2. db' \in [{0, 1} -> Database]
      BY Zenon, <1>6, <2>1 DEF XaddOk, TypeOK
    <2>3. /\ counted' \subseteq All /\ live' \subseteq All /\ at' \in Steps
      BY Zenon, <1>1, <1>6 DEF XaddOk, TypeOK, Steps
    <2>4. /\ current \in Nat /\ forwarded \in Nat
          /\ current' = current \/ current' = current + 1
          /\ forwarded' = forwarded \/ forwarded' = forwarded + Len(batch)
      BY Zenon, <1>6 DEF XaddOk, TypeOK
    <2>5. current' \in Nat /\ forwarded' \in Nat
      BY SMT, <1>1, <2>4
    <2> QED
      BY Zenon, <1>6, <2>2, <2>3, <2>5 DEF XaddOk, TypeOK
  <1>7. CASE SaddOk
    <2>1. [db[0] EXCEPT !.registry = @ \cup {dest}] \in Database
      BY Zenon, <1>1, DatabaseFacts
    <2>2. db' \in [{0, 1} -> Database]
      BY Zenon, <1>7, <2>1 DEF SaddOk, TypeOK
    <2> QED
      BY Zenon, <1>1, <1>7, <2>2 DEF SaddOk, TypeOK, Steps
  <1>8. CASE SaddRefused
    BY Zenon, <1>1, <1>8 DEF SaddRefused, TypeOK, Steps
  <1>9. CASE SaddSkipped
    BY Zenon, <1>9 DEF SaddSkipped, TypeOK, Steps
  <1>10. CASE XgroupOk
    <2>1. {<<dest, group>>} \in SUBSET (All \X Groups)
      BY <1>10 DEF XgroupOk, TypeOK
    <2>2. [db[0] EXCEPT !.groups = @ \cup {<<dest, group>>}] \in Database
      BY Zenon, <1>1, <2>1, DatabaseFacts
    <2>3. db' \in [{0, 1} -> Database]
      BY Zenon, <1>10, <2>2 DEF XgroupOk, TypeOK
    <2> QED
      BY Zenon, <1>1, <1>2, <1>10, <2>3 DEF XgroupOk, TypeOK
  <1>11. CASE XgroupRefused
    BY Zenon, <1>2, <1>11 DEF XgroupRefused, TypeOK
  <1>12. CASE XgroupSkipped
    BY Zenon, <1>2, <1>12 DEF XgroupSkipped, TypeOK
  <1>13. CASE Copy
    BY Zenon, <1>13 DEF Copy, TypeOK, Steps, All
  <1> QED
    BY Zenon, <1>3, <1>4, <1>5, <1>6, <1>7, <1>8, <1>9, <1>10, <1>11, <1>12, <1>13 DEF Write

(***************************************************************************)
(* Removing names from the counted streams lowers their number by as many. *)
(***************************************************************************)
LEMMA AllFinite == IsFiniteSet(All) /\ \A S \in SUBSET All : IsFiniteSet(S)
  <1>1. IsFiniteSet(All)
    BY Zenon, MirrorAssumption, FS_AddElement DEF All
  <1> QED
    BY Zenon, <1>1, FS_Subset

LEMMA RemoveCounts ==
  ASSUME NEW C \in SUBSET All, NEW D
  PROVE  /\ Cardinality(C \ D) = Cardinality(C) - Cardinality(D \cap C)
         /\ Cardinality(C) - Cardinality(D \cap C) \in Nat
  <1>1. /\ IsFiniteSet(C) /\ IsFiniteSet(C \ D) /\ IsFiniteSet(D \cap C)
    <2>1. C \ D \in SUBSET All /\ D \cap C \in SUBSET All
      BY Zenon
    <2> QED
      BY Zenon, <2>1, AllFinite
  <1>2. /\ Cardinality(C) \in Nat /\ Cardinality(C \ D) \in Nat
        /\ Cardinality(D \cap C) \in Nat
    BY Zenon, <1>1, FS_CardinalityType
  <1>3. (C \ D) \cup (D \cap C) = C /\ (C \ D) \cap (D \cap C) = {}
    BY Zenon
  <1>4. Cardinality((C \ D) \cup (D \cap C))
          = Cardinality(C \ D) + Cardinality(D \cap C) - Cardinality((C \ D) \cap (D \cap C))
    BY Zenon, <1>1, FS_Union
  <1>5. Cardinality({}) = 0
    BY Zenon, FS_EmptySet
  <1>6. Cardinality(C) = Cardinality(C \ D) + Cardinality(D \cap C) - Cardinality({})
    BY <1>3, <1>4, Zenon
  <1> QED
    BY <1>2, <1>5, <1>6

(***************************************************************************)
(* Selection and the operations between writes keep the type, the count of *)
(* PRUNE's decrement included.                                             *)
(***************************************************************************)
LEMMA SelectionTypes ==
  ASSUME TypeOK, (\E s \in Streams : Capture(s)) \/ (\E n \in 1..MaxBatch : Begin(n))
  PROVE  TypeOK'
  <1>1. CASE \E s \in Streams : Capture(s)
    BY <1>1 DEF Capture, TypeOK, Snapshot
  <1>2. CASE \E n \in 1..MaxBatch : Begin(n)
    <2>1. PICK n \in 1..MaxBatch : Begin(n)
      BY Zenon, <1>2
    <2>2. n \in 1..Len(pending) /\ Len(pending) \in Nat /\ pending[1] \in Snapshot
      BY <2>1, MirrorAssumption DEF Begin, TypeOK
    <2>3. /\ SubSeq(pending, 1, n) \in Seq(Snapshot)
          /\ SubSeq(pending, n + 1, Len(pending)) \in Seq(Snapshot)
      BY <2>2 DEF TypeOK
    <2> QED
      BY Zenon, <2>1, <2>2, <2>3 DEF Begin, TypeOK, Snapshot, All, Steps
  <1> QED
    BY Zenon, <1>1, <1>2

LEMMA EnvironmentTypes ==
  ASSUME TypeOK, CapCount, Environment
  PROVE  TypeOK'
  <1>1. db[0] \in Database /\ db[1] \in Database /\ Empty \in Database
    BY Zenon, DatabaseFacts DEF TypeOK, Database, Empty
  <1>2. ASSUME NEW d0 \in Database, db' = [db EXCEPT ![0] = d0]
        PROVE  db' \in [{0, 1} -> Database]
    BY Zenon, <1>1, <1>2 DEF TypeOK
  <1>3. ASSUME NEW s \in Streams, Delete(s) PROVE TypeOK'
    <2>1. Without(db[0], {s}) \in Database
      BY Zenon, <1>1, DatabaseFacts DEF All
    <2>2. db' \in [{0, 1} -> Database]
      BY Zenon, <1>3, <2>1, <1>2 DEF Delete
    <2> QED
      BY Zenon, <1>3, <2>2 DEF Delete, TypeOK
  <1>4. ASSUME NEW s \in Streams, Overwrite(s) PROVE TypeOK'
    <2>1. Without(db[0], {s}) \in Database
      BY Zenon, <1>1, DatabaseFacts DEF All
    <2>2. [Without(db[0], {s}) EXCEPT !.foreign = @ \cup {s}] \in Database
      BY Zenon, <2>1, DatabaseFacts DEF All
    <2>3. db' \in [{0, 1} -> Database]
      BY Zenon, <1>4, <2>2, <1>2 DEF Overwrite
    <2> QED
      BY Zenon, <1>4, <2>3 DEF Overwrite, TypeOK
  <1>5. ASSUME NEW s \in Streams, ReplicatedWrite(s) PROVE TypeOK'
    <2>1. db' \in [{0, 1} -> Database]
      BY Zenon, <1>1, <1>5 DEF ReplicatedWrite, TypeOK, Database, All
    <2> QED
      BY Zenon, <1>5, <2>1 DEF ReplicatedWrite, TypeOK
  <1>6. ASSUME NEW S, Flush(S) PROVE TypeOK'
    <2>1. db' \in [{0, 1} -> Database]
      BY Zenon, <1>1, <1>6 DEF Flush, TypeOK
    <2> QED
      BY Zenon, <1>6, <2>1 DEF Flush, ClearCache, TypeOK
  <1>7. CASE SwapDb
    <2>1. db' \in [{0, 1} -> Database]
      BY <1>1, <1>7 DEF SwapDb, TypeOK
    <2> QED
      BY <1>7, <2>1 DEF SwapDb, ClearCache, TypeOK
  <1>8. CASE Prune
    <2>0. PICK dead \in SUBSET Dead : PruneTo(dead)
      BY Zenon, <1>8 DEF Prune
    <2>1. dead \in SUBSET All
      BY Zenon, <1>1 DEF Dead, Database
    <2>2. [db[0] EXCEPT !.registry = @ \ dead] \in Database
      BY Zenon, <1>1, <2>1, DatabaseFacts
    <2>3. db' \in [{0, 1} -> Database]
      BY Zenon, <2>0, <2>2, <1>2 DEF PruneTo
    <2>4. current' \in Nat
      BY Zenon, <2>0, RemoveCounts DEF PruneTo, CapCount, TypeOK
    <2> QED
      BY Zenon, <2>0, <2>3, <2>4 DEF PruneTo, TypeOK
  <1>9. CASE ReplicatedPrune
    <2>1. Dead \in SUBSET All
      BY Zenon, <1>1 DEF Dead, Database
    <2>2. [db[0] EXCEPT !.registry = @ \ Dead] \in Database
      BY Zenon, <1>1, <2>1, DatabaseFacts
    <2>3. db' \in [{0, 1} -> Database]
      BY Zenon, <1>9, <2>2, <1>2 DEF ReplicatedPrune
    <2> QED
      BY Zenon, <1>9, <2>3 DEF ReplicatedPrune, TypeOK
  <1>10. CASE ChangeRole
    BY Zenon, <1>10 DEF ChangeRole, TypeOK
  <1>11. CASE \E c \in Caps : SetMaxStreams(c)
    BY Zenon, <1>11 DEF SetMaxStreams, TypeOK
  <1>12. CASE \E g \in Groups \cup {NoGroup} : SetAutoGroup(g)
    BY Zenon, <1>12 DEF SetAutoGroup, TypeOK
  <1>13. CASE \E v \in {"no", "yes"} : SetFirehose(v)
    BY Zenon, <1>13 DEF SetFirehose, TypeOK
  <1> QED
    BY Zenon, <1>3, <1>4, <1>5, <1>6, <1>7, <1>8, <1>9, <1>10, <1>11, <1>12, <1>13 DEF Environment

-----------------------------------------------------------------------------
(***************************************************************************)
(* The inductive invariant.  The cap is checked against CURRENT_STREAMS,   *)
(* so the bound on what is live needs the bound on what is counted, that   *)
(* the two agree, and that a live stream keeps its slot: PRUNE takes slots *)
(* only of absent keys, and a live stream's key is there.                  *)
(***************************************************************************)
LargestCap(c) == c > 0 /\ \A e \in Caps : 0 < e /\ e <= c

Slots    == \A c \in Caps : LargestCap(c) => Cardinality(counted \cap Streams) <= c
LiveKept == live \subseteq counted /\ live \subseteq db[0].streams
Running  == at # "idle" => batch # <<>>

MirrorInv == TypeOK /\ CapCount /\ EventsAccounted /\ Slots /\ LiveKept /\ Running

(***************************************************************************)
(* Only a successful XADD, a clear and PRUNE change what is counted.       *)
(***************************************************************************)
LEMMA WhoCounts ==
  ASSUME [Next]_vars
  PROVE  XaddOk \/ ClearCache \/ Prune \/ UNCHANGED <<counted, current>>
  <1>1. CASE UNCHANGED vars
    BY Zenon, <1>1
  <1>2. CASE (\E s \in Streams : Capture(s)) \/ (\E n \in 1..MaxBatch : Begin(n))
    BY Zenon, <1>2 DEF Capture, Begin
  <1>3. CASE Write
    BY Zenon, <1>3 DEF Write, CapRefusal, EarlyFailure, XaddRefused, SaddOk, SaddRefused,
                SaddSkipped, XgroupOk, XgroupRefused, XgroupSkipped, Copy
  <1>4. CASE Environment
    BY Zenon, <1>4 DEF Environment, Delete, Overwrite, ReplicatedWrite, Flush, SwapDb, ChangeRole,
                ReplicatedPrune, SetMaxStreams, SetAutoGroup, SetFirehose
  <1> QED
    BY Zenon, <1>1, <1>2, <1>3, <1>4 DEF Next

LEMMA CountNext ==
  ASSUME TypeOK, CapCount, [Next]_vars
  PROVE  CapCount'
  <1>1. CASE XaddOk
    <2>1. IsFiniteSet(counted)
      BY Zenon, AllFinite DEF TypeOK
    <2>2. Cardinality(counted \cup {dest})
            = IF dest \in counted THEN Cardinality(counted) ELSE Cardinality(counted) + 1
      BY Zenon, <2>1, FS_AddElement
    <2> QED
      BY Zenon, <1>1, <2>2 DEF XaddOk, CapCount
  <1>2. CASE ClearCache
    BY Zenon, <1>2, FS_EmptySet DEF ClearCache, CapCount
  <1>3. CASE Prune
    BY Zenon, <1>3, RemoveCounts DEF Prune, PruneTo, CapCount, TypeOK
  <1>4. CASE UNCHANGED <<counted, current>>
    BY Zenon, <1>4 DEF CapCount
  <1> QED
    BY Zenon, <1>1, <1>2, <1>3, <1>4, WhoCounts

LEMMA TypeNext ==
  ASSUME TypeOK, CapCount, [Next]_vars
  PROVE  TypeOK'
  <1>1. CASE UNCHANGED vars
    BY Zenon, <1>1 DEF TypeOK
  <1> QED
    BY Zenon, <1>1, SelectionTypes, WriteTypes, EnvironmentTypes DEF Next

(***************************************************************************)
(* The cap: a stream takes a slot only below the limit of its snapshot.    *)
(***************************************************************************)
LEMMA SlotsNext ==
  ASSUME MirrorInv, [Next]_vars
  PROVE  Slots'
  <1> SUFFICES ASSUME NEW c \in Caps, LargestCap(c)
               PROVE  Cardinality(counted' \cap Streams) <= c
    BY Zenon DEF Slots, LargestCap
  <1> USE DEF MirrorInv
  <1>1. c \in Nat
    BY Zenon, MirrorAssumption
  <1>2. Cardinality(counted \cap Streams) <= c
    BY Zenon DEF Slots
  <1>3. /\ IsFiniteSet(counted) /\ IsFiniteSet(counted \cap Streams)
        /\ Cardinality(counted) \in Nat /\ Cardinality(counted \cap Streams) \in Nat
        /\ Cardinality(counted \cap Streams) <= Cardinality(counted)
    <2>1. counted \in SUBSET All /\ counted \cap Streams \in SUBSET All
      BY Zenon DEF TypeOK
    <2>2. counted \cap Streams \in SUBSET counted
      BY Zenon
    <2>3. IsFiniteSet(counted) /\ IsFiniteSet(counted \cap Streams)
      BY Zenon, <2>1, AllFinite
    <2> QED
      BY Zenon, <2>2, <2>3, FS_Subset, FS_CardinalityType
  <1>4. CASE XaddOk
    <2>1. CASE dest \in counted \/ dest \notin Streams
      <3>1. counted' \cap Streams = counted \cap Streams
        BY Zenon, <1>4, <2>1 DEF XaddOk
      <3> QED
        BY Zenon, <1>2, <3>1
    <2>2. CASE dest \notin counted /\ dest \in Streams
      <3>1. batch[1].limit \in Caps /\ batch[1].limit > 0
        <4>1. batch # <<>> /\ batch \in Seq(Snapshot)
          BY Zenon, <1>4 DEF XaddOk, Running, TypeOK
        <4>2. batch[1] \in Snapshot
          BY <4>1
        <4> QED
          BY Zenon, <4>2 DEF Snapshot, LargestCap
      <3>2. current < batch[1].limit
        <4>1. Canonical
          BY Zenon, <2>2, MirrorAssumption DEF Canonical
        <4>2. ~(current >= batch[1].limit)
          BY Zenon, <1>4, <2>2, <3>1, <4>1 DEF XaddOk, AtCap
        <4>3. current \in Nat /\ batch[1].limit \in Nat
          BY Zenon, <3>1, MirrorAssumption DEF TypeOK
        <4> QED
          BY <4>2, <4>3
      <3>3. current < c
        <4>1. batch[1].limit <= c
          BY Zenon, <3>1 DEF LargestCap
        <4>2. batch[1].limit \in Nat /\ current \in Nat
          BY Zenon, <3>1, MirrorAssumption DEF TypeOK
        <4> QED
          BY <1>1, <3>2, <4>1, <4>2
      <3>4. counted' \cap Streams = (counted \cap Streams) \cup {dest}
        BY Zenon, <1>4, <2>2 DEF XaddOk
      <3>5. Cardinality(counted' \cap Streams) = Cardinality(counted \cap Streams) + 1
        BY Zenon, <1>3, <2>2, <3>4, FS_AddElement
      <3> QED
        BY <1>1, <1>3, <3>3, <3>5 DEF CapCount
    <2> QED
      BY Zenon, <2>1, <2>2
  <1>5. CASE ClearCache
    <2>1. counted' \cap Streams = {}
      BY Zenon, <1>5 DEF ClearCache
    <2> QED
      BY <1>1, <2>1, FS_EmptySet
  <1>6. CASE Prune
    <2>1. counted' \cap Streams \in SUBSET (counted \cap Streams)
      BY Zenon, <1>6 DEF Prune, PruneTo
    <2>2. /\ Cardinality(counted' \cap Streams) <= Cardinality(counted \cap Streams)
          /\ Cardinality(counted' \cap Streams) \in Nat
      BY Zenon, <1>3, <2>1, FS_Subset, FS_CardinalityType
    <2> QED
      BY <1>1, <1>2, <1>3, <2>2
  <1>7. CASE UNCHANGED <<counted, current>>
    BY Zenon, <1>2, <1>7
  <1> QED
    BY Zenon, <1>4, <1>5, <1>6, <1>7, WhoCounts

(***************************************************************************)
(* A live stream keeps its key and its slot.                               *)
(***************************************************************************)
LEMMA LiveNext ==
  ASSUME MirrorInv, [Next]_vars
  PROVE  LiveKept'
  <1> USE DEF MirrorInv
  <1>0. 0 \in DOMAIN db /\ db[0] \in Database
    BY Zenon DEF TypeOK
  <1>1. CASE UNCHANGED <<db, counted, live>>
    BY Zenon, <1>1 DEF LiveKept
  <1>2. CASE XaddOk
    <2>1. db'[0].streams = db[0].streams \cup {dest}
      BY Zenon, <1>0, <1>2 DEF XaddOk, TypeOK, Database
    <2> QED
      BY Zenon, <1>2, <2>1 DEF XaddOk, LiveKept
  <1>3. CASE SaddOk
    <2>1. db'[0].streams = db[0].streams
      BY Zenon, <1>0, <1>3 DEF SaddOk, TypeOK, Database
    <2> QED
      BY Zenon, <1>3, <2>1 DEF SaddOk, LiveKept
  <1>4. CASE XgroupOk
    <2>1. db'[0].streams = db[0].streams
      BY Zenon, <1>0, <1>4 DEF XgroupOk, TypeOK, Database
    <2> QED
      BY Zenon, <1>4, <2>1 DEF XgroupOk, LiveKept
  <1>5. ASSUME NEW s \in Streams, Delete(s) PROVE LiveKept'
    <2>1. db'[0].streams = db[0].streams \ {s}
      BY Zenon, <1>0, <1>5 DEF Delete, Without, TypeOK, Database
    <2> QED
      BY Zenon, <1>5, <2>1 DEF Delete, LiveKept
  <1>6. ASSUME NEW s \in Streams, Overwrite(s) PROVE LiveKept'
    <2>1. db'[0].streams = db[0].streams \ {s}
      BY Zenon, <1>0, <1>6 DEF Overwrite, Without, TypeOK, Database
    <2> QED
      BY Zenon, <1>6, <2>1 DEF Overwrite, LiveKept
  <1>7. ASSUME NEW s \in Streams, ReplicatedWrite(s) PROVE LiveKept'
    <2>1. db'[0].streams = db[0].streams \cup {s}
      BY Zenon, <1>0, <1>7 DEF ReplicatedWrite, TypeOK, Database
    <2> QED
      BY Zenon, <1>7, <2>1 DEF ReplicatedWrite, LiveKept
  <1>8. CASE live' = {}
    BY Zenon, <1>8 DEF LiveKept
  <1>9. CASE Prune
    <2>0. PICK dead \in SUBSET Dead : PruneTo(dead)
      BY Zenon, <1>9 DEF Prune
    <2>1. db'[0].streams = db[0].streams
      BY Zenon, <1>0, <2>0 DEF PruneTo, TypeOK, Database
    <2>2. dead \cap live = {}
      BY Zenon DEF Dead, Exists, LiveKept
    <2> QED
      BY Zenon, <2>0, <2>1, <2>2 DEF PruneTo, LiveKept
  <1>10. CASE ReplicatedPrune
    <2>1. db'[0].streams = db[0].streams
      BY Zenon, <1>0, <1>10 DEF ReplicatedPrune, TypeOK, Database
    <2> QED
      BY Zenon, <1>10, <2>1 DEF ReplicatedPrune, LiveKept
  <1>11. CASE (\E s \in Streams : Capture(s)) \/ (\E n \in 1..MaxBatch : Begin(n))
    BY Zenon, <1>1, <1>11 DEF Capture, Begin
  <1>12. CASE Write
    BY Zenon, <1>1, <1>2, <1>3, <1>4, <1>12
       DEF Write, CapRefusal, EarlyFailure, XaddRefused, SaddRefused, SaddSkipped,
           XgroupRefused, XgroupSkipped, Copy
  <1>13. CASE Environment
    BY Zenon, <1>1, <1>5, <1>6, <1>7, <1>8, <1>9, <1>10, <1>13
       DEF Environment, Flush, SwapDb, ClearCache, ChangeRole, SetMaxStreams, SetAutoGroup,
           SetFirehose
  <1> QED
    BY Zenon, <1>1, <1>11, <1>12, <1>13 DEF Next

(***************************************************************************)
(* The accounting: an event leaves the unsettled ones when, and only when, *)
(* it enters forwarded or events_lost.                                     *)
(***************************************************************************)
LEMMA RunningNext ==
  ASSUME TypeOK, Running, [Next]_vars
  PROVE  Running'
  <1>1. CASE UNCHANGED <<at, batch>> \/ at' = "idle"
    BY Zenon, <1>1 DEF Running
  <1>2. ASSUME NEW n \in 1..MaxBatch, Begin(n) PROVE Running'
    <2>1. n \in 1..Len(pending) /\ pending \in Seq(Snapshot)
      BY <1>2, MirrorAssumption DEF Begin, TypeOK
    <2>2. Len(SubSeq(pending, 1, n)) = n /\ n # 0
      BY <2>1
    <2>3. SubSeq(pending, 1, n) # <<>>
      BY Zenon, <2>2
    <2> QED
      BY Zenon, <1>2, <2>3 DEF Begin, Running
  <1>3. CASE Write
    BY Zenon, <1>3 DEF Write, CapRefusal, EarlyFailure, XaddRefused, XaddOk, SaddOk, SaddRefused,
                SaddSkipped, XgroupOk, XgroupRefused, XgroupSkipped, Copy, Running
  <1>4. CASE Environment \/ \E s \in Streams : Capture(s)
    BY Zenon, <1>1, <1>4 DEF Environment, Delete, Overwrite, ReplicatedWrite, Flush, SwapDb, Prune,
                PruneTo, ReplicatedPrune, ChangeRole, SetMaxStreams, SetAutoGroup,
                SetFirehose, Capture
  <1>5. CASE UNCHANGED vars
    BY Zenon, <1>1, <1>5
  <1> QED
    BY Zenon, <1>2, <1>3, <1>4, <1>5 DEF Next

LEMMA AccountedNext ==
  ASSUME TypeOK, EventsAccounted, [Next]_vars
  PROVE  EventsAccounted'
  <1>0. /\ Len(pending) \in Nat /\ Len(batch) \in Nat
        /\ selected \in Nat /\ forwarded \in Nat /\ lost \in Nat
    BY DEF TypeOK
  <1>1. ASSUME UNCHANGED <<pending, selected, forwarded, lost>>,
               UNCHANGED <<at, dest, batch>> \/ (at # "xadd" /\ at' # "xadd")
        PROVE  EventsAccounted'
    BY Zenon, <1>1 DEF EventsAccounted, Unsettled, Canonical
  <1>2. ASSUME NEW s \in Streams, Capture(s) PROVE EventsAccounted'
    <2>1. Len(pending') = Len(pending) + 1
      BY <1>2 DEF Capture, TypeOK
    <2> QED
      BY <1>0, <1>2, <2>1 DEF Capture, EventsAccounted, Unsettled, Canonical
  <1>3. ASSUME NEW n \in 1..MaxBatch, Begin(n) PROVE EventsAccounted'
    <2>1. n \in 1..Len(pending) /\ pending \in Seq(Snapshot)
      BY <1>3, MirrorAssumption DEF Begin, TypeOK
    <2>2. Len(batch') = n /\ Len(pending') = Len(pending) - n
      BY <1>3, <2>1 DEF Begin
    <2>3. Canonical'
      <3>1. pending[1] \in Snapshot
        BY <2>1
      <3> QED
        BY Zenon, <1>3, <3>1, MirrorAssumption DEF Begin, Canonical, Snapshot
    <2>4. Unsettled = Len(pending) /\ Unsettled' = (Len(pending) - n) + n
      BY <1>0, <1>3, <2>2, <2>3 DEF Begin, Unsettled
    <2> QED
      BY <1>0, <1>3, <2>1, <2>4 DEF Begin, EventsAccounted
  <1>4. AfterWrite # "xadd"
    BY Zenon DEF AfterWrite
  <1>5. CASE CapRefusal \/ EarlyFailure \/ XaddRefused
    <2>1. /\ at = "xadd" /\ at' # "xadd" /\ UNCHANGED <<pending, selected, forwarded>>
          /\ lost' = IF Canonical THEN lost + Len(batch) ELSE lost
      BY Zenon, <1>4, <1>5 DEF CapRefusal, AtCap, EarlyFailure, XaddRefused
    <2>2. /\ Unsettled' = Len(pending)
          /\ Unsettled = IF Canonical THEN Len(pending) + Len(batch) ELSE Len(pending)
      BY <1>0, <2>1 DEF Unsettled
    <2>3. CASE Canonical
      BY <1>0, <2>1, <2>2, <2>3 DEF EventsAccounted
    <2>4. CASE ~Canonical
      BY Zenon, <1>0, <2>1, <2>2, <2>4 DEF EventsAccounted
    <2> QED
      BY Zenon, <2>3, <2>4
  <1>6. CASE XaddOk
    <2>1. /\ at = "xadd" /\ at' # "xadd" /\ UNCHANGED <<pending, selected, lost>>
          /\ forwarded' = IF Canonical THEN forwarded + Len(batch) ELSE forwarded
      BY Zenon, <1>6 DEF XaddOk
    <2>2. /\ Unsettled' = Len(pending)
          /\ Unsettled = IF Canonical THEN Len(pending) + Len(batch) ELSE Len(pending)
      BY <1>0, <2>1 DEF Unsettled
    <2>3. CASE Canonical
      BY <1>0, <2>1, <2>2, <2>3 DEF EventsAccounted
    <2>4. CASE ~Canonical
      BY Zenon, <1>0, <2>1, <2>2, <2>4 DEF EventsAccounted
    <2> QED
      BY Zenon, <2>3, <2>4
  <1>7. CASE Copy
    BY Zenon, <1>7 DEF Copy, EventsAccounted, Unsettled, Canonical
  <1>8. CASE SaddOk \/ SaddRefused \/ SaddSkipped \/ XgroupOk \/ XgroupRefused \/ XgroupSkipped
    BY Zenon, <1>1, <1>4, <1>8 DEF SaddOk, SaddRefused, SaddSkipped, XgroupOk, XgroupRefused,
                            XgroupSkipped
  <1>9. CASE Environment
    BY Zenon, <1>1, <1>9 DEF Environment, Delete, Overwrite, ReplicatedWrite, Flush, SwapDb, Prune,
                PruneTo, ReplicatedPrune, ChangeRole, SetMaxStreams, SetAutoGroup, SetFirehose
  <1>10. CASE UNCHANGED vars
    BY Zenon, <1>1, <1>10
  <1> QED
    BY Zenon, <1>2, <1>3, <1>5, <1>6, <1>7, <1>8, <1>9, <1>10 DEF Next, Write

LEMMA MirrorInvInit == Init => MirrorInv
  <1> SUFFICES ASSUME Init PROVE MirrorInv
    BY Zenon
  <1>1. TypeOK
    BY Zenon, TypeInit
  <1>2. CapCount /\ LiveKept /\ Running
    BY Zenon, FS_EmptySet DEF Init, CapCount, LiveKept, Running
  <1>3. Len(pending) = 0 /\ at # "xadd" /\ forwarded = 0 /\ lost = 0 /\ selected = 0
    BY Zenon DEF Init
  <1>4. EventsAccounted
    BY <1>3 DEF EventsAccounted, Unsettled
  <1>5. counted \cap Streams = {}
    BY Zenon DEF Init
  <1>6. Slots
    BY <1>5, FS_EmptySet, MirrorAssumption DEF Slots, LargestCap
  <1> QED
    BY Zenon, <1>1, <1>2, <1>4, <1>6 DEF MirrorInv

LEMMA MirrorInvNext == MirrorInv /\ [Next]_vars => MirrorInv'
  BY Zenon, TypeNext, CountNext, AccountedNext, SlotsNext, LiveNext, RunningNext DEF MirrorInv

(***************************************************************************)
(* The inductive invariant holds in every reachable state of the write     *)
(* path, whatever the operations and failures.                             *)
(***************************************************************************)
THEOREM MirrorInvariant == Spec => []MirrorInv
  BY MirrorInvInit, MirrorInvNext, PTL DEF Spec

(***************************************************************************)
(* The state keeps its type; in particular CURRENT_STREAMS, which PRUNE    *)
(* lowers, never falls below zero.                                         *)
(***************************************************************************)
THEOREM MirrorTypeCorrect == Spec => []TypeOK
  <1>1. MirrorInv => TypeOK
    BY Zenon DEF MirrorInv
  <1> QED
    BY <1>1, MirrorInvariant, PTL

(***************************************************************************)
(* CURRENT_STREAMS is the number of counted bits, whatever happens.        *)
(***************************************************************************)
THEOREM CapCountCorrect == Spec => []CapCount
  <1>1. MirrorInv => CapCount
    BY Zenon DEF MirrorInv
  <1> QED
    BY <1>1, MirrorInvariant, PTL

(***************************************************************************)
(* Every selected event is counted exactly once.                           *)
(***************************************************************************)
THEOREM AccountingCorrect == Spec => []EventsAccounted
  <1>1. MirrorInv => EventsAccounted
    BY Zenon DEF MirrorInv
  <1> QED
    BY <1>1, MirrorInvariant, PTL

(***************************************************************************)
(* The cap bounds the event-derived streams created, for every number of   *)
(* streams and every history of cap values.                                *)
(***************************************************************************)
THEOREM CapCorrect == Spec => []CapBoundsCreated
  <1>1. MirrorInv => CapBoundsCreated
    <2> SUFFICES ASSUME MirrorInv, NEW c \in Caps, LargestCap(c)
                 PROVE  Cardinality(live \cap Streams) <= c
      BY Zenon DEF CapBoundsCreated, LargestCap
    <2>1. Cardinality(counted \cap Streams) <= c
      BY Zenon DEF MirrorInv, Slots
    <2>2. live \cap Streams \in SUBSET (counted \cap Streams)
      BY Zenon DEF MirrorInv, LiveKept
    <2>3. counted \cap Streams \in SUBSET All
      BY Zenon DEF MirrorInv, TypeOK
    <2>4. IsFiniteSet(counted \cap Streams) /\ IsFiniteSet(live \cap Streams)
      BY Zenon, <2>2, <2>3, AllFinite, FS_Subset
    <2>5. /\ Cardinality(live \cap Streams) <= Cardinality(counted \cap Streams)
          /\ Cardinality(live \cap Streams) \in Nat
          /\ Cardinality(counted \cap Streams) \in Nat
      BY Zenon, <2>2, <2>4, FS_Subset, FS_CardinalityType
    <2> QED
      BY <2>1, <2>5, MirrorAssumption
  <1> QED
    BY <1>1, MirrorInvariant, PTL

(***************************************************************************)
(* The cap never refuses a stream that was written and is still there.     *)
(***************************************************************************)
THEOREM CapSparesCorrect == Spec => CapSparesExisting
  <1>1. MirrorInv /\ [Next]_vars => [capped' # capped => dest \notin live]_vars
    <2> SUFFICES ASSUME MirrorInv, Next, capped' # capped PROVE dest \notin live
      BY Zenon
    <2>1. CapRefusal
      BY Zenon DEF Next, Capture, Begin, Write, EarlyFailure, XaddRefused, XaddOk, SaddOk,
             SaddRefused, SaddSkipped, XgroupOk, XgroupRefused, XgroupSkipped, Copy,
             Environment, Delete, Overwrite, ReplicatedWrite, Flush, SwapDb, Prune, PruneTo,
             ReplicatedPrune, ChangeRole, SetMaxStreams, SetAutoGroup, SetFirehose
    <2> QED
      BY Zenon, <2>1 DEF CapRefusal, AtCap, MirrorInv, LiveKept
  <1> QED
    BY <1>1, MirrorInvariant, PTL DEF Spec, CapSparesExisting

-----------------------------------------------------------------------------
(***************************************************************************)
(* A registered bit whose membership was not taken by a replay stands for  *)
(* a member of the registry, and a counted stream is registered, has a     *)
(* failed registration on record, or is at its SADD this moment.           *)
(***************************************************************************)
RegistryInv ==
  /\ registered \ unlisted \subseteq db[0].registry
  /\ \A s \in counted : s \in registered \/ s \in regFailed \/ (at = "sadd" /\ s = dest)

LEMMA RegistryInvNext ==
  ASSUME TypeOK, RegistryInv, [Next]_vars
  PROVE  RegistryInv'
  <1>0. 0 \in DOMAIN db /\ db[0] \in Database
    BY Zenon DEF TypeOK
  <1>1. ASSUME UNCHANGED <<registered, regFailed, counted, unlisted>>,
               db'[0].registry = db[0].registry, at # "sadd"
        PROVE  RegistryInv'
    BY Zenon, <1>1 DEF RegistryInv
  <1>2. CASE XaddOk
    <2>1. db'[0].registry = db[0].registry
      BY Zenon, <1>0, <1>2 DEF XaddOk, TypeOK, Database
    <2> QED
      BY Zenon, <1>2, <2>1 DEF XaddOk, RegistryInv
  <1>3. CASE SaddOk
    <2>1. db'[0].registry = db[0].registry \cup {dest}
      BY Zenon, <1>0, <1>3 DEF SaddOk, TypeOK, Database
    <2> QED
      BY Zenon, <1>3, <2>1 DEF SaddOk, RegistryInv
  <1>4. CASE SaddRefused \/ SaddSkipped
    BY Zenon, <1>4 DEF SaddRefused, SaddSkipped, RegistryInv
  <1>5. CASE XgroupOk
    <2>1. db'[0].registry = db[0].registry
      BY Zenon, <1>0, <1>5 DEF XgroupOk, TypeOK, Database
    <2> QED
      BY Zenon, <1>1, <1>5, <2>1 DEF XgroupOk
  <1>6. ASSUME NEW s \in Streams, Delete(s) PROVE RegistryInv'
    <2>1. db'[0].registry = db[0].registry
      BY Zenon, <1>0, <1>6 DEF Delete, Without, TypeOK, Database
    <2> QED
      BY Zenon, <1>1, <1>6, <2>1 DEF Delete, Idle
  <1>7. ASSUME NEW s \in Streams, Overwrite(s) PROVE RegistryInv'
    <2>1. db'[0].registry = db[0].registry
      BY Zenon, <1>0, <1>7 DEF Overwrite, Without, TypeOK, Database
    <2> QED
      BY Zenon, <1>1, <1>7, <2>1 DEF Overwrite, Idle
  <1>8. CASE ClearCache
    BY Zenon, <1>8 DEF ClearCache, RegistryInv
  <1>9. CASE Prune
    <2>0. PICK dead \in SUBSET Dead : PruneTo(dead)
      BY Zenon, <1>9 DEF Prune
    <2>1. db'[0].registry = db[0].registry \ dead
      BY Zenon, <1>0, <2>0 DEF PruneTo, TypeOK, Database
    <2> QED
      BY Zenon, <2>0, <2>1 DEF PruneTo, Idle, RegistryInv
  <1>10. ASSUME NEW s \in Streams, ReplicatedWrite(s) PROVE RegistryInv'
    <2>1. db'[0].registry = db[0].registry \cup {s}
      BY Zenon, <1>0, <1>10 DEF ReplicatedWrite, TypeOK, Database
    <2> QED
      BY Zenon, <1>10, <2>1 DEF ReplicatedWrite, Idle, RegistryInv
  <1>11. CASE ReplicatedPrune
    <2>1. db'[0].registry = db[0].registry \ Dead
      BY Zenon, <1>0, <1>11 DEF ReplicatedPrune, TypeOK, Database
    <2> QED
      BY Zenon, <1>11, <2>1 DEF ReplicatedPrune, Idle, RegistryInv
  <1>12. CASE SwapDb
    BY Zenon, <1>8, <1>12 DEF SwapDb, Idle, RegistryInv
  <1>13. CASE UNCHANGED vars
    BY Zenon, <1>13 DEF RegistryInv
  <1>14. CASE (\E s \in Streams : Capture(s)) \/ (\E n \in 1..MaxBatch : Begin(n))
    BY Zenon, <1>1, <1>14 DEF Capture, Begin
  <1>15. CASE Write
    BY Zenon, <1>1, <1>2, <1>3, <1>4, <1>5, <1>15
       DEF Write, CapRefusal, EarlyFailure, XaddRefused, XgroupRefused, XgroupSkipped, Copy
  <1>16. CASE Environment
    BY Zenon, <1>1, <1>6, <1>7, <1>8, <1>9, <1>10, <1>11, <1>12, <1>16
       DEF Environment, Flush, ChangeRole, SetMaxStreams, SetAutoGroup, SetFirehose, Idle
  <1> QED
    BY Zenon, <1>13, <1>14, <1>15, <1>16 DEF Next

(***************************************************************************)
(* Every stream the process has created is listed by EVENTSTREAM.STREAMS   *)
(* or has its failed registration on record, whatever is deleted, flushed, *)
(* swapped, pruned, refused or replayed; only what a replica replayed from *)
(* its master behind its bits is excepted.                                 *)
(***************************************************************************)
THEOREM RegistryCorrect == Spec => []RegistryComplete
  <1>1. Init => RegistryInv
    BY Zenon DEF Init, RegistryInv
  <1>2. MirrorInv /\ RegistryInv /\ [Next]_vars => RegistryInv'
    BY Zenon, RegistryInvNext DEF MirrorInv
  <1>3. RegistryInv => RegistryComplete
    BY Zenon DEF RegistryInv, RegistryComplete
  <1> QED
    BY <1>1, <1>2, <1>3, MirrorInvariant, PTL DEF Spec

(***************************************************************************)
(* A stream whose bit is set, and whose key was not deleted, overwritten   *)
(* or swapped away since, has a group.                                     *)
(***************************************************************************)
GroupInv == \A s \in grouped \ lapsed : \E g \in Groups : <<s, g>> \in db[0].groups

LEMMA GroupInvNext ==
  ASSUME TypeOK, GroupInv, [Next]_vars
  PROVE  GroupInv'
  <1>0. 0 \in DOMAIN db /\ db[0] \in Database
    BY Zenon DEF TypeOK
  <1>1. ASSUME UNCHANGED <<grouped, lapsed>>, db'[0].groups = db[0].groups
        PROVE  GroupInv'
    BY Zenon, <1>1 DEF GroupInv
  <1>2. CASE XaddOk
    <2>1. db'[0].groups = db[0].groups
      BY Zenon, <1>0, <1>2 DEF XaddOk, TypeOK, Database
    <2> QED
      BY Zenon, <1>1, <1>2, <2>1 DEF XaddOk
  <1>3. CASE SaddOk
    <2>1. db'[0].groups = db[0].groups
      BY Zenon, <1>0, <1>3 DEF SaddOk, TypeOK, Database
    <2> QED
      BY Zenon, <1>1, <1>3, <2>1 DEF SaddOk
  <1>4. CASE XgroupOk
    <2>1. db'[0].groups = db[0].groups \cup {<<dest, group>>} /\ group \in Groups
      BY Zenon, <1>0, <1>4 DEF XgroupOk, TypeOK, Database
    <2> QED
      BY Zenon, <1>4, <2>1 DEF XgroupOk, GroupInv
  <1>5. ASSUME NEW s \in Streams, Delete(s) \/ Overwrite(s) PROVE GroupInv'
    <2>1. db'[0].groups = {q \in db[0].groups : q[1] # s}
      <3>1. CASE Delete(s)
        BY Zenon, <1>0, <3>1 DEF Delete, Without, TypeOK, Database
      <3>2. CASE Overwrite(s)
        BY Zenon, <1>0, <3>2 DEF Overwrite, Without, TypeOK, Database
      <3> QED
        BY Zenon, <1>5, <3>1, <3>2
    <2>2. \A t, g : (t # s /\ <<t, g>> \in db[0].groups) => <<t, g>> \in db'[0].groups
      BY <2>1
    <2>3. \A t \in grouped' \ lapsed' : t \in grouped \ lapsed /\ t # s
      BY Zenon, <1>5 DEF Delete, Overwrite
    <2> QED
      BY Zenon, <2>2, <2>3 DEF GroupInv
  <1>6. CASE grouped' \subseteq lapsed'
    BY Zenon, <1>6 DEF GroupInv
  <1>7. CASE Flush({0}) \/ Flush({1}) \/ Flush({0, 1}) \/ SwapDb
    BY Zenon, <1>6, <1>7 DEF Flush, SwapDb, ClearCache
  <1>8. CASE Prune
    <2>0. PICK dead \in SUBSET Dead : PruneTo(dead)
      BY Zenon, <1>8 DEF Prune
    <2>1. db'[0].groups = db[0].groups
      BY Zenon, <1>0, <2>0 DEF PruneTo, TypeOK, Database
    <2> QED
      BY Zenon, <1>1, <2>0, <2>1 DEF PruneTo
  <1>9. CASE ReplicatedPrune
    <2>1. db'[0].groups = db[0].groups
      BY Zenon, <1>0, <1>9 DEF ReplicatedPrune, TypeOK, Database
    <2> QED
      BY Zenon, <1>1, <1>9, <2>1 DEF ReplicatedPrune
  <1>10. ASSUME NEW s \in Streams, ReplicatedWrite(s) PROVE GroupInv'
    <2>1. db'[0].groups = db[0].groups
      BY Zenon, <1>0, <1>10 DEF ReplicatedWrite, TypeOK, Database
    <2> QED
      BY Zenon, <1>1, <1>10, <2>1 DEF ReplicatedWrite
  <1>11. CASE UNCHANGED vars \/ (\E s \in Streams : Capture(s))
              \/ (\E n \in 1..MaxBatch : Begin(n))
    BY Zenon, <1>1, <1>11 DEF Capture, Begin
  <1>12. CASE Write
    BY Zenon, <1>1, <1>2, <1>3, <1>4, <1>12
       DEF Write, CapRefusal, EarlyFailure, XaddRefused, SaddRefused, SaddSkipped,
           XgroupRefused, XgroupSkipped, Copy
  <1>13. CASE Environment
    BY Zenon, <1>1, <1>5, <1>7, <1>8, <1>9, <1>10, <1>13
       DEF Environment, ChangeRole, SetMaxStreams, SetAutoGroup, SetFirehose
  <1> QED
    BY Zenon, <1>11, <1>12, <1>13 DEF Next

(***************************************************************************)
(* A write leaves its stream with the auto-group, on a node whose role     *)
(* changes as on one that stays master, but for a refused XGROUP, a bit    *)
(* older than a deletion or a replayed swap, and a renamed group.          *)
(***************************************************************************)
THEOREM GroupCorrect == Spec => GroupKept
  <1>1. Init => GroupInv
    BY Zenon DEF Init, GroupInv
  <1>2. MirrorInv /\ GroupInv /\ [Next]_vars => GroupInv'
    BY Zenon, GroupInvNext DEF MirrorInv
  <1> DEFINE Left ==
        at = "xgroup" /\ at' # "xgroup" /\ group # NoGroup =>
          \/ <<dest, group>> \in db'[0].groups
          \/ dest \notin grouped'
          \/ dest \in lapsed
          \/ dest \in grouped /\ \E g \in Groups \ {group} : <<dest, g>> \in db[0].groups
  <1>3. MirrorInv /\ GroupInv /\ [Next]_vars => [Left]_vars
    <2> SUFFICES ASSUME MirrorInv, GroupInv, Next, at = "xgroup", group # NoGroup
                 PROVE  Left
      BY Zenon
    <2>1. XgroupOk \/ XgroupRefused \/ XgroupSkipped
      BY Zenon DEF Next, Capture, Begin, Write, CapRefusal, EarlyFailure, XaddRefused, XaddOk, SaddOk,
             SaddRefused, SaddSkipped, Copy, Environment, Delete, Overwrite, ReplicatedWrite,
             Flush, SwapDb, Prune, PruneTo, ReplicatedPrune, ChangeRole, SetMaxStreams,
             SetAutoGroup, SetFirehose, Idle
    <2>2. CASE XgroupOk
      <3>1. db'[0].groups = db[0].groups \cup {<<dest, group>>}
        BY Zenon, <2>2 DEF XgroupOk, MirrorInv, TypeOK, Database
      <3> QED
        BY Zenon, <3>1
    <2>3. CASE XgroupRefused
      BY Zenon, <2>3 DEF XgroupRefused
    <2>4. CASE XgroupSkipped
      <3>1. dest \in grouped /\ db' = db
        BY Zenon, <2>4 DEF XgroupSkipped
      <3> QED
        BY Zenon, <3>1 DEF GroupInv
    <2> QED
      BY Zenon, <2>1, <2>2, <2>3, <2>4
  <1> QED
    BY <1>1, <1>2, <1>3, MirrorInvariant, PTL DEF Spec, GroupKept

=============================================================================
