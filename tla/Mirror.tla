------------------------------- MODULE Mirror -------------------------------
(***************************************************************************)
(* The write path of one node outside a cluster: a selected event becomes  *)
(* an entry of its destination stream in database 0, the stream joins the  *)
(* persistent registry set and, when eventstream.auto-group names one, gets*)
(* a consumer group; with eventstream.firehose a copy follows.  Beside it, *)
(* everything that can make the in-process record of a stream (StreamStats *)
(* in STREAM_STATS) disagree with the keyspace: deletion, flushes, SWAPDB, *)
(* EVENTSTREAM.PRUNE, CONFIG SET, failed commands, changes of role.        *)
(*                                                                         *)
(* The map STREAM_STATS is kept as one set of streams per bit: counted,    *)
(* registered, regFailed (registry_failed) and grouped (group_created).    *)
(*                                                                         *)
(* A callback only snapshots an event (pending); the write runs later, at  *)
(* the end of the enclosing transaction or script, or on the worker.  The  *)
(* commands of one write run under the server's lock, so no operation of a *)
(* client comes between them, but each can be refused on its own.          *)
(***************************************************************************)
EXTENDS Naturals, Sequences, FiniteSets

CONSTANTS
  Streams,    \* event-derived destination streams
  Firehose,   \* <prefix>#firehose
  Groups,     \* names eventstream.auto-group may be set to
  NoGroup,    \* eventstream.auto-group is empty
  Caps,       \* values of eventstream.max-streams, 0 = unlimited
  MaxBatch,   \* bound: logical events in one envelope, 1 in the other modes
  MaxEvents,  \* bound: selected events
  Ops         \* the operations and failures that may happen in this instance

OpNames == {"refuse", "sadd", "xgroup", "del", "foreign", "flush", "swap", "prune",
            "role", "async", "cap", "group", "firehose"}

ASSUME MirrorAssumption ==
  /\ IsFiniteSet(Streams) /\ Firehose \notin Streams
  /\ NoGroup \notin Groups
  /\ Caps \subseteq Nat /\ Caps # {}
  /\ MaxBatch \in Nat \ {0} /\ MaxEvents \in Nat
  /\ Ops \subseteq OpNames

VARIABLES
  db,          \* the databases 0 and 1
  counted,     \* StreamStats::counted
  registered,  \* StreamStats::registered
  regFailed,   \* StreamStats::registry_failed
  grouped,     \* StreamStats::group_created
  current,     \* CURRENT_STREAMS
  max,         \* eventstream.max-streams
  group,       \* eventstream.auto-group
  firehose,    \* eventstream.firehose
  role,        \* this node's replication role
  pending,     \* snapshots of selected events, oldest first
  at,          \* the step of the running write
  dest,        \* the stream it writes to
  batch,       \* the snapshots it writes: one event, or one envelope
  selected,    \* events that passed every gate
  forwarded,   \* FORWARDED
  lost,        \* EVENTS_LOST
  capped,      \* DROPPED_MAX_STREAMS
  live,        \* streams written since the last reset of STREAM_STATS and neither
               \* deleted nor moved away since; history only
  unlisted,    \* registered streams whose membership a replayed SWAPDB or PRUNE took;
               \* history only
  lapsed       \* grouped streams that were deleted or moved away since the group was
               \* created; history only

cache   == <<counted, registered, regFailed, grouped, current, live, unlisted, lapsed>>
config  == <<max, group, firehose>>
counts  == <<selected, forwarded, lost, capped>>
job     == <<at, dest, batch>>
vars    == <<db, cache, config, role, pending, job, counts>>

All      == Streams \cup {Firehose}
Steps    == {"idle", "xadd", "sadd", "xgroup", "copy"}
Snapshot == [stream : Streams, limit : Caps]
Database == [streams : SUBSET All, foreign : SUBSET All, registry : SUBSET All,
             groups : SUBSET (All \X Groups)]
Empty    == [streams |-> {}, foreign |-> {}, registry |-> {}, groups |-> {}]

Init ==
  /\ db = [d \in {0, 1} |-> Empty]
  /\ counted = {} /\ registered = {} /\ regFailed = {} /\ grouped = {} /\ live = {}
  /\ unlisted = {} /\ lapsed = {}
  /\ current = 0
  /\ max \in Caps /\ group \in Groups \cup {NoGroup} /\ firehose \in {"no", "yes"}
  /\ firehose = "yes" => "firehose" \in Ops
  /\ role = "master"
  /\ pending = <<>>
  /\ at = "idle" /\ dest = Firehose /\ batch = <<>>
  /\ selected = 0 /\ forwarded = 0 /\ lost = 0 /\ capped = 0

-----------------------------------------------------------------------------
(***************************************************************************)
(* Selection.  Gate 3 of on_keyspace_event asks for a master; the snapshot *)
(* keeps the value max-streams has now.                                    *)
(***************************************************************************)
Capture(s) ==
  /\ at = "idle" /\ role = "master" /\ selected < MaxEvents
  /\ pending' = Append(pending, [stream |-> s, limit |-> max])
  /\ selected' = selected + 1
  /\ UNCHANGED <<db, cache, config, role, job, forwarded, lost, capped>>

(***************************************************************************)
(* The next snapshots are taken up: one event, or an envelope of compatible*)
(* ones.  Nothing is asked again, neither role nor limit.                  *)
(***************************************************************************)
Begin(n) ==
  /\ at = "idle" /\ n \in 1..MaxBatch /\ n <= Len(pending)
  /\ \A i \in 1..n : pending[i] = pending[1]
  /\ batch' = SubSeq(pending, 1, n)
  /\ pending' = SubSeq(pending, n + 1, Len(pending))
  /\ dest' = pending[1].stream
  /\ at' = "xadd"
  /\ UNCHANGED <<db, cache, config, role, counts>>

Canonical == dest # Firehose

\* What follows the commands of one destination: the copy, if the firehose is on when
\* it is read.  Envelopes have none.
AfterWrite == IF Canonical /\ firehose = "yes" /\ MaxBatch = 1 THEN "copy" ELSE "idle"

\* Mutant: the cap is compared off by one.
AtCapAbove ==
  Canonical /\ batch[1].limit > 0 /\ dest \notin counted /\ current > batch[1].limit

(***************************************************************************)
(* The max-streams gate of mirror_fields.  A stream the process has created*)
(* is never refused; the firehose passes 0.                                *)
(***************************************************************************)
AtCap == Canonical /\ batch[1].limit > 0 /\ dest \notin counted /\ current >= batch[1].limit

CapRefusal ==
  /\ at = "xadd" /\ AtCap
  /\ lost' = lost + Len(batch)
  /\ capped' = capped + 1
  /\ at' = AfterWrite
  /\ UNCHANGED <<db, cache, config, role, pending, dest, batch, selected, forwarded>>

(***************************************************************************)
(* SelectDb(0) or the encoder fails: the event is lost before any command. *)
(* Without database 0 no copy is tried, and the copy shares the encoding,  *)
(* so it fails too.                                                        *)
(***************************************************************************)
EarlyFailure ==
  /\ at = "xadd" /\ Canonical /\ "refuse" \in Ops
  /\ lost' = lost + Len(batch)
  /\ at' = "idle"
  /\ UNCHANGED <<db, cache, config, role, pending, dest, batch, selected, forwarded, capped>>

\* Mutant: a lost envelope counts as one event.
XaddRefusedUncounted ==
  /\ at = "xadd" /\ ~AtCap /\ ("refuse" \in Ops \/ dest \in db[0].foreign)
  /\ lost' = IF Canonical THEN lost + 1 ELSE lost
  /\ at' = AfterWrite
  /\ UNCHANGED <<db, cache, config, role, pending, dest, batch, selected, forwarded, capped>>

(***************************************************************************)
(* XADD is refused: out of memory, or a key of another type is at the name.*)
(* The copy's failure loses no event.                                      *)
(***************************************************************************)
XaddRefused ==
  /\ at = "xadd" /\ ~AtCap /\ ("refuse" \in Ops \/ dest \in db[0].foreign)
  /\ lost' = IF Canonical THEN lost + Len(batch) ELSE lost
  /\ at' = AfterWrite
  /\ UNCHANGED <<db, cache, config, role, pending, dest, batch, selected, forwarded, capped>>

(***************************************************************************)
(* XADD succeeds: the events are forwarded, and a stream that was not yet  *)
(* counted takes a slot of the cap.                                        *)
(***************************************************************************)
XaddOk ==
  /\ at = "xadd" /\ ~AtCap /\ dest \notin db[0].foreign
  /\ db' = [db EXCEPT ![0].streams = @ \cup {dest}]
  /\ live' = live \cup {dest}
  /\ forwarded' = IF Canonical THEN forwarded + Len(batch) ELSE forwarded
  /\ counted' = counted \cup {dest}
  /\ current' = IF dest \in counted THEN current ELSE current + 1
  /\ at' = "sadd"
  /\ UNCHANGED <<registered, regFailed, grouped, unlisted, lapsed, config, role, pending,
                 dest, batch, selected, lost, capped>>

(***************************************************************************)
(* The registration, tried on every write until it succeeds once.          *)
(***************************************************************************)
SaddOk ==
  /\ at = "sadd" /\ dest \notin registered
  /\ db' = [db EXCEPT ![0].registry = @ \cup {dest}]
  /\ registered' = registered \cup {dest}
  /\ regFailed' = regFailed \ {dest}
  /\ at' = "xgroup"
  /\ UNCHANGED <<counted, grouped, current, live, unlisted, lapsed, config, role, pending,
                 dest, batch, counts>>

SaddRefused ==
  /\ at = "sadd" /\ dest \notin registered /\ "sadd" \in Ops
  /\ regFailed' = regFailed \cup {dest}
  /\ at' = "xgroup"
  /\ UNCHANGED <<db, counted, registered, grouped, current, live, unlisted, lapsed, config,
                 role, pending, dest, batch, counts>>

SaddSkipped ==
  /\ at = "sadd" /\ dest \in registered
  /\ at' = "xgroup"
  /\ UNCHANGED <<db, cache, config, role, pending, dest, batch, counts>>

(***************************************************************************)
(* The consumer group, once per stream record.  BUSYGROUP is a success, so *)
(* an existing group is the same outcome as a created one.                 *)
(***************************************************************************)
XgroupOk ==
  /\ at = "xgroup" /\ group # NoGroup /\ dest \notin grouped
  /\ db' = [db EXCEPT ![0].groups = @ \cup {<<dest, group>>}]
  /\ grouped' = grouped \cup {dest}
  /\ at' = AfterWrite
  /\ UNCHANGED <<counted, registered, regFailed, current, live, unlisted, lapsed, config,
                 role, pending, dest, batch, counts>>

XgroupRefused ==
  /\ at = "xgroup" /\ group # NoGroup /\ dest \notin grouped /\ "xgroup" \in Ops
  /\ at' = AfterWrite
  /\ UNCHANGED <<db, cache, config, role, pending, dest, batch, counts>>

XgroupSkipped ==
  /\ at = "xgroup" /\ (group = NoGroup \/ dest \in grouped)
  /\ at' = AfterWrite
  /\ UNCHANGED <<db, cache, config, role, pending, dest, batch, counts>>

\* mirror_firehose: the same path once more, for the copy.
Copy ==
  /\ at = "copy"
  /\ dest' = Firehose /\ at' = "xadd"
  /\ UNCHANGED <<db, cache, config, role, pending, batch, counts>>

Write ==
  \/ CapRefusal \/ EarlyFailure \/ XaddRefused \/ XaddOk
  \/ SaddOk \/ SaddRefused \/ SaddSkipped
  \/ XgroupOk \/ XgroupRefused \/ XgroupSkipped
  \/ Copy

-----------------------------------------------------------------------------
(***************************************************************************)
(* What clients, operators and the replication link do between writes.     *)
(***************************************************************************)
Idle(op) == at = "idle" /\ op \in Ops
Exists   == db[0].streams \cup db[0].foreign

Without(d, S) == [streams  |-> d.streams \ S, foreign |-> d.foreign \ S,
                  registry |-> d.registry,
                  groups   |-> {p \in d.groups : p[1] \notin S}]

Delete(s) ==
  /\ Idle("del") /\ s \in Exists
  /\ db' = [db EXCEPT ![0] = Without(@, {s})]
  /\ live' = live \ {s}
  /\ lapsed' = lapsed \cup (grouped \cap {s})
  /\ UNCHANGED <<counted, registered, regFailed, grouped, current, unlisted, config, role,
                 pending, job, counts>>

\* A client stores a value of another type at the name of a stream.
Overwrite(s) ==
  /\ Idle("foreign") /\ s \notin db[0].foreign
  /\ db' = [db EXCEPT ![0] = [Without(db[0], {s}) EXCEPT !.foreign = @ \cup {s}]]
  /\ live' = live \ {s}
  /\ lapsed' = lapsed \cup (grouped \cap {s})
  /\ UNCHANGED <<counted, registered, regFailed, grouped, current, unlisted, config, role,
                 pending, job, counts>>

\* The whole map goes, and the cap counts from zero.
ClearCache ==
  /\ counted' = {} /\ registered' = {} /\ regFailed' = {} /\ grouped' = {}
  /\ current' = 0
  /\ live' = {} /\ unlisted' = {} /\ lapsed' = {}

\* Mutant: the clear moves behind the check of the role.
FlushMasterOnly(S) ==
  /\ Idle("flush")
  /\ IF role = "master" THEN ClearCache ELSE UNCHANGED cache
  /\ db' = [d \in {0, 1} |-> IF d \in S THEN Empty ELSE db[d]]
  /\ UNCHANGED <<config, role, pending, job, counts>>

\* Mutant: the map is cleared without its count.
FlushKeepsCount(S) ==
  /\ Idle("flush")
  /\ counted' = {} /\ registered' = {} /\ regFailed' = {} /\ grouped' = {}
  /\ live' = {} /\ unlisted' = {} /\ lapsed' = {}
  /\ db' = [d \in {0, 1} |-> IF d \in S THEN Empty ELSE db[d]]
  /\ UNCHANGED <<current, config, role, pending, job, counts>>

(***************************************************************************)
(* on_flush_started, on any role and for any database: FLUSHALL, FLUSHDB,  *)
(* their replay on a replica, and a replica's full resynchronisation.      *)
(***************************************************************************)
Flush(S) ==
  /\ Idle("flush")
  /\ ClearCache
  /\ db' = [d \in {0, 1} |-> IF d \in S THEN Empty ELSE db[d]]
  /\ UNCHANGED <<config, role, pending, job, counts>>

(***************************************************************************)
(* SWAPDB 0 1.  on_swapdb returns before the clear on a replica.           *)
(***************************************************************************)
SwapDb ==
  /\ Idle("swap")
  /\ db' = [d \in {0, 1} |-> db[1 - d]]
  /\ IF role = "master" THEN ClearCache
     ELSE /\ live' = {} /\ unlisted' = registered /\ lapsed' = grouped
          /\ UNCHANGED <<counted, registered, regFailed, grouped, current>>
  /\ UNCHANGED <<config, role, pending, job, counts>>

(***************************************************************************)
(* EVENTSTREAM.PRUNE, a write command and so refused on a replica.  Only   *)
(* an absent key is dead, and a member whose SREM fails is kept with its   *)
(* bits.  The bit for the group is left as it is.                          *)
(***************************************************************************)
Dead == db[0].registry \ Exists

PruneTo(dead) ==
  /\ Idle("prune") /\ role = "master"
  /\ db' = [db EXCEPT ![0].registry = @ \ dead]
  /\ counted' = counted \ dead
  /\ current' = current - Cardinality(dead \cap counted)
  /\ registered' = registered \ dead
  /\ regFailed' = regFailed \ dead
  /\ unlisted' = unlisted \ dead
  /\ UNCHANGED <<grouped, live, lapsed, config, role, pending, job, counts>>

Prune == \E dead \in SUBSET Dead : ("refuse" \in Ops \/ dead = Dead) /\ PruneTo(dead)

SetMaxStreams(c) ==
  /\ Idle("cap")
  /\ max' = c
  /\ UNCHANGED <<db, cache, group, firehose, role, pending, job, counts>>

SetAutoGroup(g) ==
  /\ Idle("group")
  /\ group' = g
  /\ UNCHANGED <<db, cache, max, firehose, role, pending, job, counts>>

SetFirehose(v) ==
  /\ Idle("firehose")
  /\ firehose' = v
  /\ UNCHANGED <<db, cache, max, group, role, pending, job, counts>>

(***************************************************************************)
(* A demotion that resynchronises partially, or a promotion.  In sync mode *)
(* nothing is pending between two commands; with a worker it may be.       *)
(***************************************************************************)
ChangeRole ==
  /\ Idle("role") /\ (pending = <<>> \/ "async" \in Ops)
  /\ role' = IF role = "master" THEN "replica" ELSE "master"
  /\ UNCHANGED <<db, cache, config, pending, job, counts>>

\* On a replica the commands of its master's own module are replayed.
ReplicatedWrite(s) ==
  /\ Idle("role") /\ role = "replica"
  /\ s \notin db[0].foreign
  /\ db' = [db EXCEPT ![0].streams = @ \cup {s}, ![0].registry = @ \cup {s}]
  /\ unlisted' = unlisted \ {s}
  /\ UNCHANGED <<counted, registered, regFailed, grouped, current, live, lapsed, config, role,
                 pending, job, counts>>

ReplicatedPrune ==
  /\ Idle("role") /\ "prune" \in Ops /\ role = "replica"
  /\ db' = [db EXCEPT ![0].registry = @ \ Dead]
  /\ unlisted' = unlisted \cup (registered \cap Dead)
  /\ UNCHANGED <<counted, registered, regFailed, grouped, current, live, lapsed, config, role,
                 pending, job, counts>>

Environment ==
  \/ \E s \in Streams : Delete(s) \/ Overwrite(s) \/ ReplicatedWrite(s)
  \/ \E S \in {{0}, {1}, {0, 1}} : Flush(S)
  \/ SwapDb \/ Prune \/ ChangeRole \/ ReplicatedPrune
  \/ \E c \in Caps : SetMaxStreams(c)
  \/ \E g \in Groups \cup {NoGroup} : SetAutoGroup(g)
  \/ \E v \in {"no", "yes"} : SetFirehose(v)

Next ==
  \/ \E s \in Streams : Capture(s)
  \/ \E n \in 1..MaxBatch : Begin(n)
  \/ Write
  \/ Environment

Spec == Init /\ [][Next]_vars

-----------------------------------------------------------------------------
\* The state has its type, whatever the operations do.
TypeOK ==
  /\ db \in [{0, 1} -> Database]
  /\ counted \subseteq All /\ registered \subseteq All /\ regFailed \subseteq All
  /\ grouped \subseteq All /\ live \subseteq All
  /\ unlisted \subseteq registered /\ lapsed \subseteq grouped
  /\ current \in Nat
  /\ max \in Caps /\ group \in Groups \cup {NoGroup} /\ firehose \in {"no", "yes"}
  /\ role \in {"master", "replica"}
  /\ pending \in Seq(Snapshot)
  /\ at \in Steps /\ dest \in All /\ batch \in Seq(Snapshot)
  /\ selected \in Nat /\ forwarded \in Nat /\ lost \in Nat /\ capped \in Nat

\* CURRENT_STREAMS, an atomic kept beside the map, is at every moment the number of
\* records whose counted bit is set: no order of writes, flushes, swaps and prunes makes
\* the cap drift, and the decrement of PRUNE never wraps around.
CapCount == current = Cardinality(counted)

\* The events whose canonical write has not been settled.
Unsettled == Len(pending) + (IF at = "xadd" /\ Canonical THEN Len(batch) ELSE 0)

\* Every selected event is in exactly one of forwarded and events_lost once its write has
\* been tried, an envelope counting one per logical event and a copy none.
EventsAccounted == forwarded + lost + Unsettled = selected

\* SPEC.md section 7: the cap bounds the streams the module creates.  Of the streams
\* written since the last reset of the count and still there, no more are event-derived
\* than the largest value the cap has had, however it was changed meanwhile.
CapBoundsCreated ==
  \A c \in Caps : (c > 0 /\ \A e \in Caps : 0 < e /\ e <= c) =>
    Cardinality(live \cap Streams) <= c

\* SPEC.md section 12: with the cap reached, existing streams are unaffected.  An event is
\* refused by the cap only if its stream was not written since the count was reset, or
\* has been deleted since.
CapSparesExisting == [][capped' # capped => dest \notin live]_vars

\* A stream the process has created is listed by EVENTSTREAM.STREAMS, or the failure of
\* the registration is on record and the next write tries again: the registered bit never
\* outlives the membership it stands for, except on a node that replayed a SWAPDB or a
\* PRUNE of its master while it was a replica, neither of which touches its bits.
RegistryComplete ==
  at = "idle" => counted \subseteq db[0].registry \cup regFailed \cup unlisted

\* What stands behind "setting a group name provisions it on each stream's next write":
\* with eventstream.auto-group set a write leaves its stream with that group, unless
\* XGROUP was just refused and the next write tries again, or the bit was set already and
\* the stream has lost its key since, or has a group of another name.
GroupKept ==
  [][at = "xgroup" /\ at' # "xgroup" /\ group # NoGroup =>
       \/ <<dest, group>> \in db'[0].groups
       \/ dest \notin grouped'
       \/ dest \in lapsed
       \/ dest \in grouped /\ \E g \in Groups \ {group} : <<dest, g>> \in db[0].groups]_vars

=============================================================================
