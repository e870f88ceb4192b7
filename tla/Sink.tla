--------------------------------- MODULE Sink ---------------------------------
(***************************************************************************)
(* The webhook sink: worker processes of one consumer group that read the  *)
(* module's streams, POST each entry to an HTTP endpoint and XACK it after *)
(* a 2xx (examples/webhook-sink).                                          *)
(*                                                                         *)
(* Entries are numbered in the order the module writes them; log[e] is the *)
(* stream of entry e, and opaque holds the entries decode_record refuses   *)
(* whatever their reply carries: the module's `batch-v1` envelopes, which  *)
(* this sink does not support, and malformed ones, a marker without an     *)
(* action among them.                                                      *)
(*                                                                         *)
(* The consumer-group commands are Redis, modelled from how the sink uses  *)
(* them: XREADGROUP > moves the group's cursor and makes an entry pending  *)
(* under its reader, XREADGROUP 0 returns the reader's own pending entries *)
(* (one that was trimmed comes back without fields), XAUTOCLAIM hands over *)
(* idle entries and drops trimmed ones, and XACK removes an entry from the *)
(* pending list whoever owns it.                                           *)
(***************************************************************************)
EXTENDS Integers, Sequences, FiniteSets, FiniteSetsExt

CONSTANTS Consumers,   \* consumer names, one worker process each
          Streams,     \* the prefix's streams, numbered in the order of their names
          Control,     \* the control stream, always a candidate
          MaxEntries,  \* bound: entries written
          MaxFaults,   \* bound: crashes, deletions, failed POSTs
          Batch,       \* entries per XREADGROUP or XAUTOCLAIM (--batch)
          MaxAttempts, \* --max-attempts, 0 retries forever
          MaxRecords,  \* --max-records, 0 runs forever
          Ops          \* the environment steps of this instance

ASSUME SinkAssumption ==
  /\ Streams \subseteq Nat /\ Control \in Streams
  /\ MaxEntries \in Nat /\ MaxFaults \in Nat /\ Batch \in Nat \ {0}
  /\ MaxAttempts \in Nat /\ MaxRecords \in Nat
  /\ Ops \subseteq {"trim", "delete", "crash", "refuse", "lose", "age", "opaque"}

VARIABLES log,       \* log[e]: the stream entry e was written to
          opaque,    \* entries whose fields the sink cannot decode
          retained,  \* entries still in their stream
          cursor,    \* the group's last delivered entry of a stream, -1: no group
          owner,     \* the pending entries, each with the consumer that owns it
          idle,      \* pending entries untouched for --min-idle-ms
          posted,    \* entries the endpoint has accepted
          again,     \* entries with a reason to be POSTed again; history only
          faults,    \* faults so far
          w          \* w[c]: the worker process of consumer c

redis == <<log, opaque, retained, cursor, owner, idle>>
vars  == <<redis, posted, again, faults, w>>

Entries == 1 .. MaxEntries
NoGroup == -1
Pending == DOMAIN owner

\* A read entry: its number, and whether decode_record accepts its fields.
RedisEntry == [id : Entries, decodes : BOOLEAN]

Places == {"down", "add", "own", "claim", "loop", "read", "forward", "post", "ack"}

Worker ==
  [at : Places, known : SUBSET Streams, found : SUBSET Streams, stream : Streams,
   from : 0 .. MaxEntries, todo : Seq(RedisEntry), back : Places,
   attempt : {0} \cup (0 .. MaxAttempts - 1), forwarded : {0} \cup (0 .. MaxRecords - 1)]

Down == [at |-> "down", known |-> {}, found |-> {}, stream |-> Control, from |-> 0,
         todo |-> <<>>, back |-> "down", attempt |-> 0, forwarded |-> 0]

Init ==
  /\ log = <<>> /\ opaque = {} /\ retained = {} /\ posted = {} /\ again = {} /\ faults = 0
  /\ cursor = [s \in Streams |-> NoGroup]
  /\ owner = <<>> /\ idle = {}
  /\ w = [c \in Consumers |-> Down]

On(s) == {e \in DOMAIN log : log[e] = s}

\* The first Batch entries of a set, in stream order.
FirstBatch(set) ==
  {e \in set : Cardinality({f \in set : f < e}) < Batch}

\* discovered_with_control: the registered data streams and the control stream.
Discovered == {log[e] : e \in DOMAIN log} \cup {Control}

Step(c, new) == w' = [w EXCEPT ![c] = new]

\* The process exits with an error: nothing it held in memory survives.
Exit(c) == Step(c, Down)

Drop(set) == [e \in Pending \ set |-> owner[e]]

Assign(set, c) == [e \in Pending \cup set |-> IF e \in set THEN c ELSE owner[e]]

-----------------------------------------------------------------------------
(* The module and Redis around the sink. *)

Write(s) ==
  /\ Len(log) < MaxEntries
  /\ log' = Append(log, s)
  /\ retained' = retained \cup {Len(log) + 1}
  /\ \/ opaque' = opaque
     \/ "opaque" \in Ops /\ opaque' = opaque \cup {Len(log) + 1}
  /\ UNCHANGED <<cursor, owner, idle, posted, again, faults, w>>

\* MAXLEN or MINID trims the oldest entry; a pending entry stays pending.
Trim(s) ==
  /\ "trim" \in Ops
  /\ On(s) \cap retained # {}
  /\ retained' = retained \ {Min(On(s) \cap retained)}
  /\ UNCHANGED <<log, opaque, cursor, owner, idle, posted, again, faults, w>>

\* DEL or a flush removes a stream with its group.
Delete(s) ==
  /\ "delete" \in Ops
  /\ faults < MaxFaults
  /\ cursor[s] # NoGroup \/ On(s) \cap retained # {}
  /\ faults' = faults + 1
  /\ retained' = retained \ On(s)
  /\ cursor' = [cursor EXCEPT ![s] = NoGroup]
  /\ owner' = Drop(On(s))
  /\ idle' = idle \ On(s)
  /\ UNCHANGED <<log, opaque, posted, again, w>>

Age(e) ==
  /\ "age" \in Ops
  /\ e \in Pending \ idle
  /\ idle' = idle \cup {e}
  /\ again' = again \cup {e}
  /\ UNCHANGED <<log, opaque, retained, cursor, owner, posted, faults, w>>

-----------------------------------------------------------------------------
(* One worker. *)

\* run: start-up discovers the streams before anything is read.
Start(c) ==
  /\ w[c].at = "down"
  /\ Step(c, [Down EXCEPT !.at = "add", !.found = Discovered])
  /\ UNCHANGED <<redis, posted, again, faults>>

\* run: the refresh interval has elapsed.
Refresh(c) ==
  /\ w[c].at = "loop"
  /\ Step(c, [w[c] EXCEPT !.at = "add", !.found = Discovered])
  /\ UNCHANGED <<redis, posted, again, faults>>

\* Mutant: nothing is recovered when a stream is added.
AddStreamSkips(c) ==
  /\ w[c].at = "add"
  /\ w[c].found \ w[c].known # {}
  /\ LET s == Min(w[c].found \ w[c].known) IN
       /\ cursor' = IF cursor[s] = NoGroup THEN [cursor EXCEPT ![s] = 0] ELSE cursor
       /\ Step(c, [w[c] EXCEPT !.known = @ \cup {s}])
  /\ UNCHANGED <<log, opaque, retained, owner, idle, posted, again, faults>>

\* add_streams, one candidate: the group is created at 0, the stream becomes
\* known and its pending work is recovered.  A known candidate is skipped.
AddStream(c) ==
  /\ w[c].at = "add"
  /\ w[c].found \ w[c].known # {}
  /\ LET s == Min(w[c].found \ w[c].known) IN
       /\ cursor' = IF cursor[s] = NoGroup THEN [cursor EXCEPT ![s] = 0] ELSE cursor
       /\ Step(c, [w[c] EXCEPT !.at = "own", !.known = @ \cup {s}, !.stream = s])
  /\ UNCHANGED <<log, opaque, retained, owner, idle, posted, again, faults>>

Added(c) ==
  /\ w[c].at = "add"
  /\ w[c].found \subseteq w[c].known
  /\ Step(c, [w[c] EXCEPT !.at = "read", !.found = {}, !.stream = Control])
  /\ UNCHANGED <<redis, posted, again, faults>>

\* A read of a stream whose group is gone fails, and ends the process.
GroupGone(c) ==
  /\ \/ w[c].at \in {"own", "claim"} /\ cursor[w[c].stream] = NoGroup
     \/ w[c].at \in {"loop", "read"} /\ \E s \in w[c].known : cursor[s] = NoGroup
  /\ Exit(c)
  /\ UNCHANGED <<redis, posted, again, faults>>

\* The entries of a set stream by stream, and in each in order: there is one such
\* sequence.
Orderings(set) ==
  {ids \in [1 .. Cardinality(set) -> set] :
     \A i, j \in DOMAIN ids : i < j =>
       \/ log[ids[i]] < log[ids[j]]
       \/ log[ids[i]] = log[ids[j]] /\ ids[i] < ids[j]}

\* A reply: the entries of a set.  One that was trimmed comes without fields, of
\* which decode_record misses one.
Reply(set) ==
  {[i \in DOMAIN ids |-> [id |-> ids[i], decodes |-> ids[i] \in retained \ opaque]] :
     ids \in Orderings(set)}

\* recover_stream, first loop: read_own_pending until it returns nothing.
ReadOwnPending(c) ==
  LET own == {e \in Pending : log[e] = w[c].stream /\ owner[e] = c}
      got == FirstBatch(own)
  IN /\ w[c].at = "own"
     /\ cursor[w[c].stream] # NoGroup
     /\ idle' = idle \ (got \cap retained)
     /\ IF got = {}
          THEN Step(c, [w[c] EXCEPT !.at = "claim", !.from = 0])
          ELSE \E read \in Reply(got) :
                 Step(c, [w[c] EXCEPT !.at = "forward", !.todo = read, !.back = "own"])
     /\ UNCHANGED <<log, opaque, retained, cursor, owner, posted, again, faults>>

\* recover_stream, second loop: claim_abandoned from the cursor Redis returned
\* until that cursor is 0-0.  Entries trimmed while pending are reported.
ClaimAbandoned(c) ==
  LET scan == {e \in Pending : log[e] = w[c].stream /\ e >= w[c].from}
      got  == FirstBatch({e \in scan : e \notin retained \/ e \in idle})
      rest == IF Cardinality(got) < Batch THEN {} ELSE {e \in scan : e > Max(got)}
      next == IF rest = {} THEN 0 ELSE Min(rest)
  IN /\ w[c].at = "claim"
     /\ cursor[w[c].stream] # NoGroup
     /\ owner' = [e \in Pending \ (got \ retained) |->
                    IF e \in got THEN c ELSE owner[e]]
     /\ idle' = idle \ got
     /\ \E read \in Reply(got \cap retained) :
          Step(c, [w[c] EXCEPT !.at = "forward", !.todo = read, !.from = next,
                               !.back = IF next = 0 THEN "add" ELSE "claim"])
     /\ UNCHANGED <<log, opaque, retained, cursor, posted, again, faults>>

\* read_new: a batch of never-delivered entries from every known stream, after a
\* refresh or when none is due.  An empty reply is the end of the BLOCK period.
ReadNew(c) ==
  LET new(s) == FirstBatch({e \in On(s) \cap retained : e > cursor[s]})
      got    == UNION {new(s) : s \in w[c].known}
  IN /\ w[c].at \in {"loop", "read"}
     /\ \A s \in w[c].known : cursor[s] # NoGroup
     /\ cursor' = [s \in Streams |-> IF s \in w[c].known /\ new(s) # {}
                                       THEN Max(new(s)) ELSE cursor[s]]
     /\ owner' = Assign(got, c)
     /\ \E read \in Reply(got) :
          Step(c, [w[c] EXCEPT !.at = "forward", !.todo = read, !.back = "loop"])
     /\ UNCHANGED <<log, opaque, retained, idle, posted, again, faults>>

\* forward: the next entry is decoded; a decoding error ends the process and
\* leaves the entry pending.
Decode(c) ==
  /\ w[c].at = "forward"
  /\ w[c].todo # <<>>
  /\ IF Head(w[c].todo).decodes
       THEN Step(c, [w[c] EXCEPT !.at = "post", !.attempt = 0])
       ELSE Exit(c)
  /\ UNCHANGED <<redis, posted, again, faults>>

Forwarded(c) ==
  /\ w[c].at = "forward"
  /\ w[c].todo = <<>>
  /\ Step(c, [w[c] EXCEPT !.at = w[c].back, !.back = "down"])
  /\ UNCHANGED <<redis, posted, again, faults>>

\* deliver: the endpoint accepts the POST and its 2xx arrives.
Deliver(c) ==
  /\ w[c].at = "post"
  /\ posted' = posted \cup {Head(w[c].todo).id}
  /\ Step(c, [w[c] EXCEPT !.at = "ack"])
  /\ UNCHANGED <<redis, again, faults>>

\* deliver_with_retry, one failed attempt: the POST is refused, or it is
\* accepted and the answer is lost.  The last attempt ends the process.
DeliverFails(c) ==
  /\ w[c].at = "post"
  /\ faults < MaxFaults
  /\ faults' = faults + 1
  /\ \/ "refuse" \in Ops /\ UNCHANGED <<posted, again>>
     \/ /\ "lose" \in Ops
        /\ posted' = posted \cup {Head(w[c].todo).id}
        /\ again' = again \cup {Head(w[c].todo).id}
  /\ IF MaxAttempts > 0 /\ w[c].attempt + 1 >= MaxAttempts
       THEN Exit(c)
       ELSE Step(c, [w[c] EXCEPT !.attempt = IF MaxAttempts = 0 THEN 0 ELSE @ + 1])
  /\ UNCHANGED redis

\* Mutant: the whole batch is acknowledged with its first record.
AcknowledgeBatch(c) ==
  LET set  == {w[c].todo[i].id : i \in DOMAIN w[c].todo}
      done == IF MaxRecords = 0 THEN 0 ELSE w[c].forwarded + 1
  IN /\ w[c].at = "ack"
     /\ owner' = Drop(set)
     /\ idle' = idle \ set
     /\ IF MaxRecords > 0 /\ done >= MaxRecords
          THEN Exit(c)
          ELSE Step(c, [w[c] EXCEPT !.at = "forward", !.todo = Tail(@), !.attempt = 0,
                                    !.forwarded = done])
     /\ UNCHANGED <<log, opaque, retained, cursor, posted, again, faults>>

\* Mutant: the limit on records stops the process before the XACK.
AcknowledgeUnlessDone(c) ==
  LET e    == Head(w[c].todo).id
      done == IF MaxRecords = 0 THEN 0 ELSE w[c].forwarded + 1
      stop == MaxRecords > 0 /\ done >= MaxRecords
  IN /\ w[c].at = "ack"
     /\ owner' = IF stop THEN owner ELSE Drop({e})
     /\ idle' = IF stop THEN idle ELSE idle \ {e}
     /\ IF stop
          THEN Exit(c)
          ELSE Step(c, [w[c] EXCEPT !.at = "forward", !.todo = Tail(@), !.attempt = 0,
                                    !.forwarded = done])
     /\ UNCHANGED <<log, opaque, retained, cursor, posted, again, faults>>

\* forward: acknowledge, count, and stop at --max-records.  What is left of
\* the batch stays pending.
Acknowledge(c) ==
  LET e    == Head(w[c].todo).id
      done == IF MaxRecords = 0 THEN 0 ELSE w[c].forwarded + 1
  IN /\ w[c].at = "ack"
     /\ owner' = Drop({e})
     /\ idle' = idle \ {e}
     /\ IF MaxRecords > 0 /\ done >= MaxRecords
          THEN Exit(c)
          ELSE Step(c, [w[c] EXCEPT !.at = "forward", !.todo = Tail(@), !.attempt = 0,
                                    !.forwarded = done])
     /\ UNCHANGED <<log, opaque, retained, cursor, posted, again, faults>>

Crash(c) ==
  /\ "crash" \in Ops
  /\ faults < MaxFaults
  /\ w[c].at # "down"
  /\ faults' = faults + 1
  /\ again' = IF w[c].at = "ack" THEN again \cup {Head(w[c].todo).id} ELSE again
  /\ Exit(c)
  /\ UNCHANGED <<redis, posted>>

WorkerStep(c) ==
  \/ Start(c) \/ AddStream(c) \/ Added(c)
  \/ ReadOwnPending(c) \/ ClaimAbandoned(c) \/ ReadNew(c) \/ GroupGone(c)
  \/ Decode(c) \/ Forwarded(c) \/ Deliver(c) \/ Acknowledge(c)

Next ==
  \/ \E s \in Streams : Write(s) \/ Trim(s) \/ Delete(s)
  \/ \E e \in Entries : Age(e)
  \/ \E c \in Consumers : WorkerStep(c) \/ Refresh(c) \/ DeliverFails(c) \/ Crash(c)

Spec == Init /\ [][Next]_vars

\* A started worker keeps running, its refresh interval keeps elapsing and time
\* makes a pending entry idle.  A worker that ends is restarted under its name:
\* the code leaves that to a supervisor, and recovery depends on it, because a
\* running worker reads its own pending entries and claims others' only once, when
\* it adds a stream.
Fairness ==
  /\ \A c \in Consumers : WF_vars(WorkerStep(c)) /\ SF_vars(Refresh(c))
  /\ \A e \in Entries : WF_vars(Age(e))

FairSpec == Spec /\ Fairness

-----------------------------------------------------------------------------
(* Properties. *)

\* Type correctness.
TypeOK ==
  /\ log \in Seq(Streams) /\ Len(log) <= MaxEntries
  /\ retained \subseteq DOMAIN log /\ opaque \subseteq DOMAIN log
  /\ posted \subseteq DOMAIN log /\ again \subseteq DOMAIN log
  /\ cursor \in [Streams -> NoGroup .. MaxEntries]
  /\ Pending \subseteq DOMAIN log /\ owner \in [Pending -> Consumers]
  /\ idle \subseteq Pending
  /\ faults \in 0 .. MaxFaults
  /\ w \in [Consumers -> Worker]

\* At-least-once: whatever crashes, claims, refusals and deletions happen, an
\* entry the group has moved past and that Redis still holds was accepted by
\* the endpoint or is still pending, so that some worker can recover it
\* (XACK only after a 2xx, one entry at a time).
NothingSkipped ==
  \A e \in retained :
    e <= cursor[log[e]] => e \in posted \cup Pending

\* A duplicate POST has a cause: an entry the endpoint accepted is POSTed again
\* only if its answer was lost, its worker died before the XACK or it was pending
\* for --min-idle-ms, so that another worker could claim it.  Stopping at
\* --max-records, giving up at --max-attempts and every restart with entries pending
\* cause none.
DuplicateHasCause ==
  [][\A c \in Consumers :
       (w[c].at = "post" /\ w'[c].at = "ack") => Head(w[c].todo).id \notin posted \ again]_vars

\* The consumers that own a pending entry Redis has trimmed: each of them ends on
\* it at every start, until another worker's claim drops it from the pending list.
Poisoned == {owner[f] : f \in Pending \ retained}

\* What may keep entry e from the endpoint: a pending entry that is never decoded,
\* whoever claims it; a trimmed one that the owner of e owns too; or, when e is
\* still unread, a trimmed one of every worker.
Stranded(e) ==
  \/ Pending \cap opaque # {}
  \/ e \in Pending /\ owner[e] \in Poisoned
  \/ e \notin Pending /\ Consumers = Poisoned

\* Every entry that stays retained is eventually accepted by the endpoint, the
\* "at-least-once handoff inside the Redis retention window", or is for good behind
\* an entry that cannot be decoded.  Crashes, lost answers, refusals, claims and
\* vanished streams only delay it, and a consumer that ends at each start on a
\* trimmed entry keeps back what it owns itself, not what the others own or read.
HandedOffUnlessStranded ==
  \A e \in Entries :
    [](e \in DOMAIN log => \/ <>(e \in posted \/ e \notin retained)
                           \/ <>[]Stranded(e))

=============================================================================
