------------------------------- MODULE Cluster -------------------------------
(***************************************************************************)
(* Per-node capture in a cluster.  A node keeps all its destination keys   *)
(* in one hash slot, chosen lazily by probing for a slot that accepts a    *)
(* local write and remembered as NODE_TAG.  When a write is refused because*)
(* the slot is leaving or has left, the node selects another one, marks    *)
(* the change on the new control stream and tries the entry once more.     *)
(*                                                                         *)
(* An event is processed in one execution unit, so slots do not move while *)
(* it is; its firehose copy is the second half of that unit.  Slots stand  *)
(* for the tags that hash to them.                                         *)
(***************************************************************************)
EXTENDS Naturals, Sequences, FiniteSets

CONSTANTS
  Slots,      \* hash slots
  Streams,    \* suffixes of event-derived streams
  Firehose,   \* the suffix "#firehose"
  None,       \* no tag
  Caps,       \* settings of max-streams; 0 is no cap
  MaxEvents,  \* bound: events processed
  Ops         \* what may happen in this instance

OpNames == {"migrate", "strand", "oom", "flaky", "reworded", "firehose", "reload"}

ASSUME ClusterAssumption ==
  /\ None \notin Slots
  /\ Firehose \notin Streams
  /\ Caps \subseteq Nat
  /\ MaxEvents \in Nat
  /\ Ops \subseteq OpNames

VARIABLES
  slot,       \* this node's view of every slot
  here,       \* destination keys on this node
  oom,        \* maxmemory is reached
  flaky,      \* writes may fail for another reason (a key of another type, say)
  at,         \* between events, or before the firehose copy of one
  tag,        \* NODE_TAG
  verified,   \* PROBE_VERIFIED_TAG
  forwarded,  \* FORWARDED
  lost,       \* EVENTS_LOST
  noSlot,     \* DROPPED_NO_OWNED_SLOT, of canonical writes
  copyLost,   \* firehose copies refused because the slot is leaving
  unmarked,   \* `repinned` markers that could not be written
  cap,        \* max-streams
  counted,    \* the stream names that hold a place of the cap
  repins,     \* REPINS
  probed,     \* REPINS_PROBE_DETECTED
  log         \* what this generation has written, entries and `repinned` markers, and
              \* where between them an event was dropped for want of a slot

topology == <<slot, here, oom, flaky>>
pin      == <<tag, verified>>
counters == <<forwarded, lost, noSlot, copyLost, unmarked, repins, probed>>
limit    == <<cap, counted>>
vars     == <<topology, at, pin, counters, limit, log>>

Keys    == Streams \cup {Firehose}
Views   == {"owned", "migrating", "elsewhere"}
Records == [slot : Slots \cup {None}, what : {"entry", "repinned", "dropped"}]

Init ==
  /\ slot \in [Slots -> {"owned", "elsewhere"}]
  /\ ("strand" \in Ops) \/ \E s \in Slots : slot[s] = "owned"
  /\ here = {} /\ oom = FALSE /\ flaky = FALSE /\ at = "idle"
  /\ tag = None /\ verified = None
  /\ forwarded = 0 /\ lost = 0 /\ noSlot = 0 /\ copyLost = 0 /\ unmarked = 0
  /\ repins = 0 /\ probed = 0
  /\ cap \in Caps /\ counted = {}
  /\ log = <<>>

-----------------------------------------------------------------------------
(***************************************************************************)
(* What the server answers to an XADD of key k in slot s, as the module    *)
(* classifies it.  While a slot migrates, keys that are still here are     *)
(* written and others are redirected.                                      *)
(***************************************************************************)
Outcome(s, k) ==
  CASE oom                                             -> "oom"
    [] ~oom /\ slot[s] = "elsewhere"                   -> "migrated"
    [] ~oom /\ slot[s] = "migrating" /\ <<s, k>> \notin here -> "migrating"
    [] OTHER                                           -> "written"

\* A write the slot would take may still fail, and a refusal whose text is not the one the
\* module knows falls in the class of all other failures.
Fails(o) == (o = "written" /\ flaky) \/ (o = "migrated" /\ "reworded" \in Ops)

Outcomes(s, k) ==
  {Outcome(s, k)} \cup (IF Fails(Outcome(s, k)) THEN {"failed"} ELSE {})

\* The max-streams check in front of the XADD, which the `#` streams are exempt from.  A
\* name of a slot the node has left keeps its place, and a firehose takes one.
Capped(s, k) == cap > 0 /\ <<s, k>> \notin counted /\ Cardinality(counted) >= cap

Mirrored(s, k) == IF Capped(s, k) THEN {"capped"} ELSE Outcomes(s, k)

\* probe_tag_owned: an XADD that creates nothing, of a key that never exists.
Accepts(s) == ~oom /\ slot[s] = "owned"

\* The tags select_owned_tag may return: it walks every slot and takes the first that
\* accepts the probe.
Selectable == IF \E s \in Slots : Accepts(s) THEN {s \in Slots : Accepts(s)} ELSE {None}

\* tag_segment
Segments == IF tag = None THEN Selectable ELSE {tag}

(***************************************************************************)
(* The first half of an event: process_pending_event up to its copy.       *)
(***************************************************************************)
Add(s, what) == [slot |-> s, what |-> what]
Unwritten    == IF flaky THEN {<<>>} ELSE {}
Dropped      == <<Add(None, "dropped")>>

\* A successful XADD proves ownership and so forgets the verified probe.
Written(t, k, recs) ==
  /\ here' = here \cup {<<t, k>>}
  /\ counted' = counted \cup {<<t, k>>}
  /\ forwarded' = forwarded + 1
  /\ tag' = t /\ verified' = None
  /\ log' = log \o recs \o <<Add(t, "entry")>>
  /\ UNCHANGED <<lost, noSlot>>

Lose(t, v, n, recs) ==
  /\ lost' = lost + 1 /\ noSlot' = noSlot + n
  /\ tag' = t /\ verified' = v
  /\ log' = log \o recs
  /\ UNCHANGED <<here, counted, forwarded>>

\* Mutant: a re-pin leaves no marker.
RepinUnmarked(k) ==
  /\ repins' = repins + 1
  /\ UNCHANGED unmarked
  /\ \E t \in Selectable :
       \/ t = None /\ Lose(None, None, 1, Dropped)
       \/ /\ t # None
          /\ \E o \in Mirrored(t, k) :
               IF o = "written" THEN Written(t, k, <<>>) ELSE Lose(t, None, 0, <<>>)

\* Mutant: the cached tag is not cleared, so the retry goes where the write was refused.
RepinKeepsTag(k) ==
  /\ repins' = repins + 1
  /\ UNCHANGED unmarked
  /\ \E t \in Segments :
       \/ t = None /\ Lose(None, None, 1, Dropped)
       \/ /\ t # None
          /\ \E o \in Mirrored(t, k) :
               IF o = "written" THEN Written(t, k, <<Add(t, "repinned")>>)
               ELSE Lose(t, None, 0, <<>>)

\* Mutant: the event is counted lost when it is refused and again by its retry.
RepinCountsTwice(k) ==
  /\ repins' = repins + 1
  /\ \E t \in Selectable :
       /\ tag' = t /\ verified' = None
       /\ lost' = lost + 1 /\ noSlot' = noSlot
       /\ forwarded' = IF t = None THEN forwarded ELSE forwarded + 1
       /\ UNCHANGED <<here, counted, unmarked, log>>

\* repin_and_retry: another slot, its marker, and the entry once more.  The marker may
\* fail as any write may.
Repin(k) ==
  /\ repins' = repins + 1
  /\ \E t \in Selectable :
       \/ t = None /\ Lose(None, None, 1, Dropped) /\ UNCHANGED unmarked
       \/ /\ t # None
          /\ \E o \in Mirrored(t, k), recs \in {<<Add(t, "repinned")>>} \cup Unwritten :
               /\ unmarked' = IF recs = <<>> THEN unmarked + 1 ELSE unmarked
               /\ IF o = "written" THEN Written(t, k, recs) ELSE Lose(t, None, 0, recs)

\* pinned_tag_lost_by_probe: the answer to a failure of no known kind.  The write was not
\* refused for memory, so the probe is not either.
LostByProbe(t) == verified # t /\ ~Accepts(t)

Event(k) ==
  /\ at = "idle" /\ forwarded + lost < MaxEvents
  /\ at' = IF "firehose" \in Ops THEN "copy" ELSE "idle"
  /\ \E t \in Segments :
       \/ /\ t = None
          /\ Lose(None, verified, 1, Dropped)
          /\ UNCHANGED <<repins, probed, unmarked>>
       \/ /\ t # None
          /\ \E o \in Mirrored(t, k) :
               \/ /\ o = "written"
                  /\ Written(t, k, <<>>)
                  /\ UNCHANGED <<repins, probed, unmarked>>
               \/ /\ o \in {"oom", "capped"}
                  /\ Lose(t, verified, 0, <<>>)
                  /\ UNCHANGED <<repins, probed, unmarked>>
               \/ /\ o \in {"migrated", "migrating"}
                  /\ Repin(k)
                  /\ UNCHANGED probed
               \/ /\ o = "failed" /\ LostByProbe(t)
                  /\ Repin(k)
                  /\ probed' = probed + 1
               \/ /\ o = "failed" /\ ~LostByProbe(t)
                  /\ Lose(t, IF Accepts(t) THEN t ELSE verified, 0, <<>>)
                  /\ UNCHANGED <<repins, probed, unmarked>>
  /\ UNCHANGED <<slot, oom, flaky, copyLost, cap>>

(***************************************************************************)
(* The second half: the copy to the firehose.  It never re-pins, and its   *)
(* stream takes a place of the cap without asking for one.                 *)
(***************************************************************************)
Copy ==
  /\ at = "copy" /\ at' = "idle"
  /\ \E t \in Segments :
       /\ tag' = t
       /\ \/ t = None /\ UNCHANGED <<verified, here, counted, copyLost>>
          \/ /\ t # None
             /\ \E o \in Outcomes(t, Firehose) :
                  \/ /\ o = "written"
                     /\ verified' = None
                     /\ here' = here \cup {<<t, Firehose>>}
                     /\ counted' = counted \cup {<<t, Firehose>>}
                     /\ UNCHANGED copyLost
                  \/ /\ o \in {"migrated", "migrating"}
                     /\ copyLost' = copyLost + 1
                     /\ UNCHANGED <<verified, here, counted>>
                  \/ /\ o \in {"oom", "failed"}
                     /\ UNCHANGED <<verified, here, counted, copyLost>>
  /\ UNCHANGED <<slot, oom, flaky, forwarded, lost, noSlot, unmarked, repins, probed, cap,
                 log>>

\* A marker job, a checkpoint tick or PRUNE resolves the tag, and selects one if need be.
Resolve ==
  /\ at = "idle" /\ tag = None
  /\ tag' \in Selectable
  /\ UNCHANGED <<topology, at, verified, counters, limit, log>>

\* UNLOAD and LOAD: reset_cluster_generation.
Reload ==
  /\ "reload" \in Ops /\ at = "idle"
  /\ tag' = None /\ verified' = None
  /\ noSlot' = 0 /\ repins' = 0 /\ probed' = 0 /\ forwarded' = 0 /\ lost' = 0
  /\ copyLost' = 0 /\ unmarked' = 0 /\ counted' = {} /\ log' = <<>>
  /\ UNCHANGED <<topology, at, cap>>

-----------------------------------------------------------------------------
(* The cluster around the node.                                            *)

Kept(view) == "strand" \in Ops \/ \E s \in Slots : view[s] = "owned"

\* A reshard starts, is called off, or ends; a slot may also leave at once (a forced
\* assignment), or come to this node with the keys some other node wrote to it.
MoveSlot(s) ==
  /\ "migrate" \in Ops /\ at = "idle"
  /\ \E v \in Views \ {slot[s]} :
       /\ slot' = [slot EXCEPT ![s] = v]
       /\ Kept(slot')
       /\ slot[s] = "elsewhere" => v = "owned"
       /\ \/ v = "elsewhere" /\ here' = {p \in here : p[1] # s}
          \/ v = "migrating" /\ here' = here
          \/ /\ v = "owned"
             /\ here' \in {here} \cup (IF slot[s] = "elsewhere"
                                       THEN {here \cup ({s} \X Keys)} ELSE {})
  /\ UNCHANGED <<oom, flaky, at, pin, counters, limit, log>>

\* MIGRATE moves one key of a migrating slot.
MoveKey(s, k) ==
  /\ at = "idle" /\ slot[s] = "migrating" /\ <<s, k>> \in here
  /\ here' = here \ {<<s, k>>}
  /\ UNCHANGED <<slot, oom, flaky, at, pin, counters, limit, log>>

MemoryPressure ==
  /\ "oom" \in Ops /\ at = "idle"
  /\ oom' = ~oom
  /\ UNCHANGED <<slot, here, flaky, at, pin, counters, limit, log>>

\* A key of another type appears among the destinations, say.
Disturb ==
  /\ "flaky" \in Ops /\ at = "idle" /\ ~flaky
  /\ flaky' = TRUE
  /\ UNCHANGED <<slot, here, oom, at, pin, counters, limit, log>>

Next ==
  \/ \E k \in Streams : Event(k)
  \/ Copy \/ Resolve \/ Reload \/ MemoryPressure \/ Disturb
  \/ \E s \in Slots : MoveSlot(s) \/ \E k \in Keys : MoveKey(s, k)

Spec == Init /\ [][Next]_vars

-----------------------------------------------------------------------------
(* Properties *)

\* Type invariant.  The probe-detected re-pins are re-pins, and the events dropped for
\* want of a slot are lost events.
TypeOK ==
  /\ slot \in [Slots -> Views] /\ here \subseteq Slots \X Keys /\ oom \in BOOLEAN
  /\ flaky \in BOOLEAN
  /\ at \in {"idle", "copy"}
  /\ tag \in Slots \cup {None} /\ verified \in Slots \cup {None}
  /\ {forwarded, lost, noSlot, copyLost, unmarked, repins, probed, cap} \subseteq Nat
  /\ counted \subseteq Slots \X Keys
  /\ probed <= repins /\ noSlot <= lost
  /\ log \in Seq(Records)

\* A reshard loses no event.  One is lost only
\*   - under memory pressure, or if no slot of the node accepts writes;
\*   - for an unrelated failure on a slot the node still has;
\*   - when a refusal the module does not know by its text comes from a slot that the
\*     probe found in place after an earlier failure: it is not probed again before an
\*     entry is written;
\*   - at the cap, if its stream has no place among the names written since the load.
ReshardLosesNothing ==
  [][lost' > lost => \E k \in Streams :
       /\ Event(k)
       /\ \/ oom
          \/ \A s \in Slots : slot[s] # "owned"
          \/ flaky /\ tag' # None /\ slot[tag'] # "elsewhere"
          \/ "reworded" \in Ops /\ tag' # None /\ verified = tag'
          \/ /\ cap > 0 /\ Cardinality(counted) >= cap
             /\ <<tag', k>> \notin counted]_vars

\* One event, one outcome: with every event forwarded + events_lost grows by one, whichever
\* of the paths through refusal, probe, re-pin and retry it takes.
CountedOnce ==
  [][(\E k \in Streams : Event(k)) => forwarded' + lost' = forwarded + lost + 1]_vars

\* A consumer sees every change of stream names: between an entry in one slot and a later
\* entry of the same generation in another there is a `repinned` marker in the new slot,
\* unless the write of a marker failed or the node had no slot in between, and dropped an
\* event for that.
ChangeMarked ==
  unmarked = 0 => \A i, j \in DOMAIN log :
    (i < j /\ log[i].what = "entry" /\ log[j].what = "entry" /\ log[i].slot # log[j].slot)
      => \E m \in i..j : log[m] \in {Add(log[j].slot, "repinned"), Add(None, "dropped")}

=============================================================================
