-------------------------------- MODULE Consume --------------------------------
(***************************************************************************)
(* The client library's MergedReader and the `consume` command built on it *)
(* (crates/eventstream-client): discovery by keyspace scan, one cursor per *)
(* stream, rounds of XREAD over every covered stream, decoding, delivery   *)
(* in entry-id order, the JSON progress file and the periodic rediscovery. *)
(*                                                                         *)
(* Every Redis command of the client is a step of its own, so entries are  *)
(* written, trimmed and deleted and masters come and go in the middle of a *)
(* round.  An entry id is the pair <<milliseconds, sequence>>.             *)
(*                                                                         *)
(* The target is a cluster or one standalone master (Target::is_cluster).  *)
(* The reader's commands go over the one connection cmd_consume opens; a   *)
(* cluster connection finds a master again that was away, a standalone     *)
(* connection that an outage has closed stays closed.                      *)
(***************************************************************************)
EXTENDS Integers, Sequences, FiniteSets

CONSTANTS Streams,    \* stream keys under the prefix
          Wanted,     \* those `--events` asks for and whose name has no '#'
          Nodes,      \* the masters of a cluster
          Home,       \* Home[s]: the master of a cluster that owns stream s
          Solo,       \* the master of a standalone target
          ReadCount,  \* --read-count
          Formats,    \* the pairs of a stream and a kind of entry written to it
          MaxEntries, \* bound: entries written
          MaxClock,   \* bound: milliseconds that pass
          MaxFaults,  \* bound: outages, deletions, crashes, failed file writes; reruns
          OptionSets, \* the option combinations of this instance
          Torn        \* the contents of a file whose write was cut short

ASSUME ConsumeAssumption ==
  /\ Wanted \subseteq Streams
  /\ Home \in [Streams -> Nodes] /\ Solo \in Nodes
  /\ Formats \subseteq Streams \X {"fixed", "batch", "bad"}
  /\ ReadCount \in Nat \ {0}
  /\ MaxEntries \in Nat /\ MaxClock \in Nat /\ MaxFaults \in Nat
  /\ OptionSets \subseteq [fromZero : BOOLEAN, count : Nat \cup {-1}, idleExit : BOOLEAN,
                       cluster : BOOLEAN]

VARIABLES clock,    \* the server's clock, milliseconds
          log,      \* the entries the streams hold
          last,     \* last[s]: the last id stream s generated
          live,     \* the streams that exist
          births,   \* births[s]: how often stream s was deleted; history only
          up,       \* the masters that answer
          written,  \* entries written so far
          faults,   \* faults so far
          opts,     \* the command's options, and whether the target is a cluster
          run,      \* number of this process
          lost,     \* an outage has closed the standalone connection of this process
          pc,       \* the process's next step
          covered,  \* MergedReader::streams
          cursors,  \* MergedReader::cursors
          unread,   \* streams still to ask in this pass
          batch,    \* entries read and not delivered
          part,     \* logical events of the entry in hand delivered
          head,     \* the entry in hand: delivered in part, the rest of it is next
          wasIdle,  \* was_idle
          seen,     \* seen
          out,      \* the logical events delivered; history only
          base,     \* where a `$` cursor started; history only
          old,      \* the entries there at the first discovery; history only
          blind,    \* streams a `$` reader reads from 0; history only
          ck,       \* the checkpoint being written and the step after it
          tmp,      \* the temporary file
          file      \* the checkpoint file

server  == <<clock, log, last, live, births, up, written>>
reader  == <<covered, cursors, unread, batch, part, head>>
history == <<out, base, old, blind>>
disk    == <<tmp, file>>
vars    == <<server, faults, opts, run, lost, pc, reader, wasIdle, seen, history, ck, disk>>

-----------------------------------------------------------------------------
(* Entry ids. *)

Id    == Nat \X Nat
Zero  == <<0, 0>>
None  == <<>>

\* entry_id_sort_key: ids compare by milliseconds, then by sequence number.
IdLess(a, b) == a[1] < b[1] \/ (a[1] = b[1] /\ a[2] < b[2])
IdLeq(a, b)  == a = b \/ IdLess(a, b)

\* decode_entry: a fixed entry is one event, a batch-v1 envelope here two, and
\* any other format, or a malformed entry of these two, is an error.
Kinds == {"fixed", "batch", "bad"}
Decode(kind) == CASE kind = "fixed" -> 1 [] kind = "batch" -> 2 [] kind = "bad" -> 0

Entry == [stream : Streams, id : Id, kind : Kinds, born : Nat]
Event == [entry : Entry, index : Nat]

NoLimit == -1
Options ==
  [fromZero : BOOLEAN, count : Nat \cup {NoLimit}, idleExit : BOOLEAN, cluster : BOOLEAN]

\* ConsumerCheckpoint, with the streams themselves in place of their number.
Checkpoint ==
  [run : Nat, events : Nat, streams : SUBSET Streams, done : BOOLEAN, idle : BOOLEAN]
Empty == [run |-> 0, events |-> 0, streams |-> {}, done |-> FALSE, idle |-> FALSE]

ASSUME TornAssumption == Torn \notin Checkpoint

\* No write_consumer_checkpoint is under way.
NoCall == [value |-> Empty, next |-> "failed"]

Working == {"discover", "connect", "open", "poll", "decode", "deliver", "timers"}
Ended   == {"exited", "failed", "crashed"}
Places  == Working \cup {"write", "rename"} \cup Ended
Running == pc \notin Ended

On(s) == {e \in log : e.stream = s}

\* Target::masters, and the one that holds stream s.
Masters == IF opts.cluster THEN Nodes ELSE {Solo}
At(s)   == IF opts.cluster THEN Home[s] ELSE Solo

\* A command for stream s over the reader's connection is answered.
Answers(s) == At(s) \in up /\ ~lost

-----------------------------------------------------------------------------
(* The server: the module's XADD and trimming, deletion, time and outages. *)

\* XADD with id `*`.
NextId(s) == IF clock > last[s][1] THEN <<clock, 0>> ELSE <<last[s][1], last[s][2] + 1>>

Write(s, kind) ==
  /\ written < MaxEntries
  /\ written' = written + 1
  /\ log' = log \cup {[stream |-> s, id |-> NextId(s), kind |-> kind, born |-> births[s]]}
  /\ last' = [last EXCEPT ![s] = NextId(s)]
  /\ live' = live \cup {s}
  /\ UNCHANGED <<clock, births, up, faults, opts, run, lost, pc, reader, wasIdle, seen,
                 history, ck, disk>>

\* MAXLEN or MINID drops the oldest entry of a stream.
Trim(e) ==
  /\ e \in log
  /\ \A f \in On(e.stream) : IdLeq(e.id, f.id)
  /\ log' = log \ {e}
  /\ UNCHANGED <<clock, last, live, births, up, written, faults, opts, run, lost, pc,
                 reader, wasIdle, seen, history, ck, disk>>

Fault == faults < MaxFaults /\ faults' = faults + 1

\* DEL or a flush: a stream written again starts over, its ids with it.
Delete(s) ==
  /\ Fault
  /\ s \in live
  /\ live' = live \ {s}
  /\ log' = log \ On(s)
  /\ last' = [last EXCEPT ![s] = Zero]
  /\ births' = [births EXCEPT ![s] = @ + 1]
  /\ UNCHANGED <<clock, up, written, opts, run, lost, pc, reader, wasIdle, seen, history,
                 ck, disk>>

Tick ==
  /\ clock < MaxClock
  /\ clock' = clock + 1
  /\ UNCHANGED <<log, last, live, births, up, written, faults, opts, run, lost, pc,
                 reader, wasIdle, seen, history, ck, disk>>

\* An outage of a master closes the connections to it.
NodeDown(n) ==
  /\ Fault
  /\ n \in up \cap Masters
  /\ up' = up \ {n}
  /\ lost' = (lost \/ (~opts.cluster /\ pc \notin {"discover", "connect"} \cup Ended))
  /\ UNCHANGED <<clock, log, last, live, births, written, opts, run, pc, reader, wasIdle,
                 seen, history, ck, disk>>

NodeUp(n) ==
  /\ n \notin up
  /\ up' = up \cup {n}
  /\ UNCHANGED <<clock, log, last, live, births, written, faults, opts, run, lost, pc,
                 reader, wasIdle, seen, history, ck, disk>>

-----------------------------------------------------------------------------
(* The consume process. *)

\* discover_all and the filters of `matched`: the wanted streams that exist.
\* Each master is asked over a connection of its own.  One that does not answer is
\* skipped; one that fails during its scan yields some of its streams.
Matched(partial) ==
  {s \in live \cap Wanted : At(s) \in up \/ s \in partial}

Partials == SUBSET {s \in live \cap Wanted : At(s) \notin up}

\* write_consumer_checkpoint, called with these values and returning to `next`.
Save(events, streams, done, idle, next) ==
  /\ ck' = [value |-> [run |-> run, events |-> events, streams |-> streams,
                       done |-> done, idle |-> idle],
            next |-> next]
  /\ pc' = "write"

\* The first discovery of cmd_consume; with no stream the command is done.
Discover(partial) ==
  /\ pc = "discover"
  /\ old' = IF opts.fromZero THEN {} ELSE log
  /\ covered' = Matched(partial)
  /\ IF covered' = {}
       THEN Save(0, {}, TRUE, opts.idleExit, "exited")
       ELSE pc' = "connect" /\ UNCHANGED ck
  /\ UNCHANGED <<server, faults, opts, run, lost, cursors, unread, batch, part, head,
                 wasIdle, seen, out, base, blind, disk>>

\* target.open_rw()? before the reader is built.
Connect ==
  /\ pc = "connect"
  /\ Masters \cap up # {}
  /\ pc' = "open"
  /\ unread' = covered
  /\ UNCHANGED <<server, faults, opts, run, lost, covered, cursors, batch, part, head,
                 wasIdle, seen, history, ck, disk>>

ConnectFails ==
  /\ pc = "connect"
  /\ ~(Masters \subseteq up)
  /\ pc' = "failed"
  /\ UNCHANGED <<server, faults, opts, run, lost, reader, wasIdle, seen, history, ck,
                 disk>>

\* Mutant: every cursor starts at 0.
IsZeroId(s, id) == id = Zero

\* last_id: the newest id a stream holds, 0 when it is empty or does not answer.
IsLastId(s, id) ==
  IF Answers(s) /\ On(s) # {}
    THEN \E e \in On(s) : id = e.id /\ \A f \in On(s) : IdLeq(f.id, e.id)
    ELSE id = Zero

\* MergedReader::new: one cursor, and after the last one the first checkpoint.
Open(s, id) ==
  /\ pc = "open"
  /\ s \in unread
  /\ IF opts.fromZero THEN id = Zero ELSE IsLastId(s, id)
  /\ cursors' = [cursors EXCEPT ![s] = id]
  /\ base' = [base EXCEPT ![s] = id]
  /\ blind' = IF ~opts.fromZero /\ ~Answers(s) THEN blind \cup {s} ELSE blind
  /\ IF unread = {s}
       THEN Save(seen, covered, FALSE, FALSE, "poll") /\ unread' = covered
       ELSE unread' = unread \ {s} /\ UNCHANGED <<pc, ck>>
  /\ UNCHANGED <<server, faults, opts, run, lost, covered, batch, part, head, wasIdle,
                 seen, out, old, disk>>

\* XREAD COUNT: the first ReadCount entries after the cursor; a stream whose read
\* is an error is skipped in this round.
After(s)   == {e \in On(s) : IdLess(cursors[s], e.id)}
Reply(s)   ==
  IF Answers(s)
    THEN {e \in After(s) : Cardinality({f \in After(s) : IdLess(f.id, e.id)}) < ReadCount}
    ELSE {}

\* Mutant: the cursor moves to the stream's tail, past what COUNT cut off.
PollToTail(s) ==
  /\ pc = "poll"
  /\ s \in unread
  /\ batch' = batch \cup Reply(s)
  /\ cursors' = IF Reply(s) = {} THEN cursors ELSE [cursors EXCEPT ![s] = last[s]]
  /\ IF unread = {s}
       THEN pc' = "decode" /\ unread' = covered
       ELSE unread' = unread \ {s} /\ UNCHANGED pc
  /\ UNCHANGED <<server, faults, opts, run, lost, covered, part, head, wasIdle, seen,
                 history, ck, disk>>

\* One stream of poll_physical: the cursor moves to the last entry read.
Poll(s) ==
  /\ pc = "poll"
  /\ s \in unread
  /\ batch' = batch \cup Reply(s)
  /\ \/ Reply(s) = {} /\ UNCHANGED cursors
     \/ \E e \in Reply(s) :
          /\ \A f \in Reply(s) : IdLeq(f.id, e.id)
          /\ cursors' = [cursors EXCEPT ![s] = e.id]
  /\ IF unread = {s}
       THEN pc' = "decode" /\ unread' = covered
       ELSE unread' = unread \ {s} /\ UNCHANGED pc
  /\ UNCHANGED <<server, faults, opts, run, lost, covered, part, head, wasIdle, seen,
                 history, ck, disk>>

\* Mutant: a round that fails to decode is reported as the end of the input.
DecodeRoundDone ==
  /\ pc = "decode"
  /\ IF \E e \in batch : Decode(e.kind) = 0
       THEN Save(seen, covered, TRUE, TRUE, "failed") /\ UNCHANGED wasIdle
       ELSE pc' = "deliver" /\ wasIdle' = (batch = {}) /\ UNCHANGED ck
  /\ UNCHANGED <<server, faults, opts, run, lost, reader, seen, history, disk>>

\* poll_decoded: one entry that does not decode fails the whole round, and
\* cmd_consume ends with that error.
DecodeRound ==
  /\ pc = "decode"
  /\ IF \E e \in batch : Decode(e.kind) = 0
       THEN pc' = "failed" /\ UNCHANGED wasIdle
       ELSE pc' = "deliver" /\ wasIdle' = (batch = {})
  /\ UNCHANGED <<server, faults, opts, run, lost, reader, seen, history, ck, disk>>

\* batch.sort_by_key: the next entry is one with the least id.  Entries of
\* different streams may tie; the tie is broken either way.
IsNext(e) == e \in batch /\ \A f \in batch : IdLeq(e.id, f.id)

AtCount(n) == opts.count # NoLimit /\ n >= opts.count

\* One turn of the loop over the decoded events, with the exit at --count.  The
\* events of an entry were appended together (poll_decoded), so an entry in hand is
\* finished before the next one.
Deliver(e) ==
  /\ pc = "deliver"
  /\ IsNext(e)
  /\ part > 0 => e = head
  /\ out' = Append(out, [entry |-> e, index |-> part])
  /\ seen' = seen + 1
  /\ IF part + 1 = Decode(e.kind)
       THEN batch' = batch \ {e} /\ part' = 0 /\ head' = None
       ELSE part' = part + 1 /\ head' = e /\ UNCHANGED batch
  /\ IF AtCount(seen + 1)
       THEN Save(seen + 1, covered, TRUE, FALSE, "exited")
       ELSE UNCHANGED <<pc, ck>>
  /\ UNCHANGED <<server, faults, opts, run, lost, covered, cursors, unread, wasIdle, base,
                 old, blind, disk>>

\* The round is over: the in-progress checkpoint.
EndRound ==
  /\ pc = "deliver"
  /\ batch = {}
  /\ Save(seen, covered, FALSE, FALSE, "timers")
  /\ UNCHANGED <<server, faults, opts, run, lost, reader, wasIdle, seen, history, disk>>

\* An idle round, --idle-exit-ms after the last event.
IdleExit ==
  /\ pc = "timers"
  /\ wasIdle /\ opts.idleExit
  /\ Save(seen, covered, TRUE, TRUE, "exited")
  /\ UNCHANGED <<server, faults, opts, run, lost, reader, wasIdle, seen, history, disk>>

\* Mutant: the cursors of covered streams start over.
RediscoverAll(partial) ==
  /\ pc = "timers"
  /\ LET new == Matched(partial) IN
       /\ covered' = covered \cup new
       /\ unread' = covered'
       /\ cursors' = [s \in Streams |-> IF s \in new THEN Zero ELSE cursors[s]]
       /\ base' = [s \in Streams |-> IF s \in new THEN Zero ELSE base[s]]
       /\ blind' = IF opts.fromZero THEN blind ELSE blind \cup new
  /\ pc' = "poll"
  /\ UNCHANGED <<server, faults, opts, run, lost, batch, part, head, wasIdle, seen, out,
                 old, ck, disk>>

\* Mutant: the new streams are found and not added.
RediscoverNothing(partial) ==
  /\ pc = "timers"
  /\ pc' = "poll"
  /\ UNCHANGED <<server, faults, opts, run, lost, reader, wasIdle, seen, history, ck,
                 disk>>

\* Five seconds after the last discovery: add_streams from 0.
Rediscover(partial) ==
  /\ pc = "timers"
  /\ LET new == Matched(partial) \ covered IN
       /\ covered' = covered \cup new
       /\ unread' = covered'
       /\ cursors' = [s \in Streams |-> IF s \in new THEN Zero ELSE cursors[s]]
       /\ base' = [s \in Streams |-> IF s \in new THEN Zero ELSE base[s]]
       /\ blind' = IF opts.fromZero THEN blind ELSE blind \cup new
  /\ pc' = "poll"
  /\ UNCHANGED <<server, faults, opts, run, lost, batch, part, head, wasIdle, seen, out,
                 old, ck, disk>>

\* Neither timer has expired.
NextRound ==
  /\ pc = "timers"
  /\ pc' = "poll"
  /\ UNCHANGED <<server, faults, opts, run, lost, reader, wasIdle, seen, history, ck,
                 disk>>

-----------------------------------------------------------------------------
(* The checkpoint file, crashes and reruns. *)

\* fs::write of the temporary file, which may fail half way.
WriteTmp ==
  /\ pc = "write"
  /\ tmp' = ck.value
  /\ pc' = "rename"
  /\ UNCHANGED <<server, faults, opts, run, lost, reader, wasIdle, seen, history, ck,
                 file>>

WriteFails ==
  /\ pc = "write"
  /\ Fault
  /\ tmp' \in {tmp, Torn}
  /\ pc' = "failed"
  /\ UNCHANGED <<server, opts, run, lost, reader, wasIdle, seen, history, ck, file>>

\* fs::rename over the checkpoint file.
Rename ==
  /\ pc = "rename"
  /\ file' = tmp
  /\ tmp' = Empty
  /\ pc' = ck.next
  /\ ck' = NoCall
  /\ UNCHANGED <<server, faults, opts, run, lost, reader, wasIdle, seen, history>>

RenameFails ==
  /\ pc = "rename"
  /\ Fault
  /\ pc' = "failed"
  /\ UNCHANGED <<server, opts, run, lost, reader, wasIdle, seen, history, ck, disk>>

Crash ==
  /\ Running
  /\ Fault
  /\ tmp' \in IF pc = "write" THEN {tmp, Torn} ELSE {tmp}
  /\ pc' = "crashed"
  /\ UNCHANGED <<server, opts, run, lost, reader, wasIdle, seen, history, ck, file>>

NewProcess ==
  /\ pc' = "discover" /\ lost' = FALSE
  /\ covered' = {} /\ unread' = {} /\ batch' = {} /\ part' = 0 /\ head' = None
  /\ cursors' = [s \in Streams |-> None]
  /\ wasIdle' = FALSE /\ seen' = 0 /\ out' = <<>>
  /\ base' = [s \in Streams |-> Zero] /\ old' = {} /\ blind' = {}
  /\ ck' = NoCall

\* The command is started again: nothing is read back from the file.
Rerun ==
  /\ pc \in Ended
  /\ run <= MaxFaults
  /\ run' = run + 1
  /\ NewProcess
  /\ UNCHANGED <<server, opts, disk, faults>>

Init ==
  /\ clock = 1 /\ written = 0 /\ faults = 0
  /\ log = {} /\ live = {} /\ up = Nodes
  /\ last = [s \in Streams |-> Zero]
  /\ births = [s \in Streams |-> 0]
  /\ opts \in OptionSets
  /\ run = 1 /\ pc = "discover" /\ lost = FALSE
  /\ covered = {} /\ unread = {} /\ batch = {} /\ part = 0 /\ head = None
  /\ cursors = [s \in Streams |-> None]
  /\ wasIdle = FALSE /\ seen = 0 /\ out = <<>>
  /\ base = [s \in Streams |-> Zero] /\ old = {} /\ blind = {}
  /\ ck = NoCall
  /\ tmp = Empty /\ file = Empty

ServerStep ==
  \/ \E f \in Formats : Write(f[1], f[2])
  \/ \E e \in log : Trim(e)
  \/ \E s \in Streams : Delete(s)
  \/ Tick
  \/ \E n \in Nodes : NodeDown(n) \/ NodeUp(n)

Rediscovery == \E partial \in Partials : Rediscover(partial)

ProcessStep ==
  \/ \E partial \in Partials : Discover(partial)
  \/ Connect
  \/ \E s \in unread, id \in {Zero} \cup {e.id : e \in log} : Open(s, id)
  \/ \E s \in unread : Poll(s)
  \/ DecodeRound
  \/ \E e \in batch : Deliver(e)
  \/ EndRound \/ NextRound \/ WriteTmp \/ Rename
  \/ Rediscovery

Failure == ConnectFails \/ WriteFails \/ RenameFails \/ Crash

Next == ServerStep \/ ProcessStep \/ IdleExit \/ Failure \/ Rerun

Spec == Init /\ [][Next]_vars

\* The process is a plain loop, so it keeps taking steps; the five-second timer
\* expires again and again; an outage ends.
Fairness ==
  /\ WF_vars(ProcessStep)
  /\ SF_vars(Rediscovery)
  /\ \A n \in Nodes : WF_vars(NodeUp(n))

FairSpec == Spec /\ Fairness

-----------------------------------------------------------------------------
(* Properties. *)

TypeOK ==
  /\ clock \in Nat /\ written \in Nat /\ faults \in Nat /\ run \in Nat
  /\ log \in SUBSET Entry
  /\ last \in [Streams -> Id]
  /\ live \in SUBSET Streams
  /\ births \in [Streams -> Nat]
  /\ up \in SUBSET Nodes
  /\ opts \in Options /\ lost \in BOOLEAN
  /\ pc \in Places
  /\ covered \in SUBSET Wanted /\ unread \in SUBSET covered
  /\ cursors \in [Streams -> Id \cup {None}]
  /\ batch \in SUBSET Entry /\ part \in Nat /\ head \in Entry \cup {None}
  /\ wasIdle \in BOOLEAN /\ seen \in Nat /\ out \in Seq(Event)
  /\ base \in [Streams -> Id] /\ old \in SUBSET Entry /\ blind \in SUBSET Streams
  /\ ck \in [value : Checkpoint, next : Places]
  /\ tmp \in Checkpoint \cup {Torn}
  /\ file \in Checkpoint

\* Within one process no logical event is delivered twice, and the events of a
\* stream come in the order of their entry ids and, inside an envelope, of the
\* array, whatever was trimmed, deleted, unreachable or discovered late.
InOrder ==
  \A i, j \in DOMAIN out :
    (i < j /\ out[i].entry.stream = out[j].entry.stream) =>
      \/ IdLess(out[i].entry.id, out[j].entry.id)
      \/ out[i].entry = out[j].entry /\ out[i].index < out[j].index

DeliveredEntry(e) == \E i \in DOMAIN out : out[i] = [entry |-> e, index |-> Decode(e.kind) - 1]

\* An entry the reader passes over by design: one a `$` reader found when it
\* started, and one a deleted stream got back in the millisecond of the cursor.
PassedOver(e) ==
  /\ cursors[e.stream] # None
  /\ \/ IdLeq(e.id, base[e.stream])
     \/ e.born > 0 /\ e.id[1] <= cursors[e.stream][1]

\* A cursor never passes an entry that was not delivered: what is still in a
\* stream at or before its cursor was delivered or is in the round in hand,
\* unless the round failed to decode, which ends the process.  A stream that was
\* deleted and written again can lose at most the entries of the very
\* millisecond the cursor stands at.
NothingSkipped ==
  \A e \in log :
    (/\ e.stream \in covered
     /\ cursors[e.stream] # None
     /\ IdLeq(e.id, cursors[e.stream]))
    => DeliveredEntry(e) \/ e \in batch \/ PassedOver(e)

\* A `$` reader delivers an entry that was there at its first discovery only
\* from a stream whose tail it could not ask for, or that it discovered later.
OnlyNew ==
  \A i \in DOMAIN out :
    (~opts.fromZero /\ out[i].entry \in old) => out[i].entry.stream \in blind

\* The checkpoint file never runs ahead of the process that wrote it: it counts
\* events already delivered, says done only when the process is over (with every
\* event counted, and never after an error or a crash), and done without
\* idle_exit only at --count or with no stream.
CheckpointHonest ==
  /\ file # Torn
  /\ file.run = run =>
    /\ file.events <= Len(out)
    /\ file.done => /\ pc = "exited"
                    /\ file.events = Len(out)
                    /\ file.idle \/ AtCount(file.events) \/ covered = {}
    /\ file.idle => file.done /\ opts.idleExit

CaughtUp ==
  \A e \in log : e.stream \in Wanted => DeliveredEntry(e) \/ PassedOver(e)

\* While the command runs it catches up with everything its streams retain, again
\* and again, streams created or reachable only later included: on a cluster through
\* any outage, and on a standalone master as long as no outage has closed the
\* connection, which cmd_consume opens once and poll_physical only skips the errors
\* of.
KeepsCatchingUp == []<>(CaughtUp \/ ~Running \/ lost)
=============================================================================
