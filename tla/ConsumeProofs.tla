--------------------------- MODULE ConsumeProofs ----------------------------
(***************************************************************************)
(* Proofs about Consume: what the cursors pass over, and what the reader   *)
(* delivers, skips and reports, for every set of streams and masters, every *)
(* read count and any number of faults.                                    *)
(***************************************************************************)
EXTENDS Consume, TLAPS

-----------------------------------------------------------------------------
(* The inductive invariant. *)

\* The step the process is at or returns to from write_consumer_checkpoint.
Loc == IF pc \in {"write", "rename"} THEN ck.next ELSE pc

InLoop == {"poll", "decode", "deliver", "timers"}

\* Types, with what makes them inductive: a checkpoint call in hand is whole.
TypeInv ==
  /\ TypeOK
  /\ pc = "discover" => unread = {}
  /\ pc \in {"write", "rename"} => ck.next \in {"poll", "timers", "exited"}
  /\ pc = "rename" => tmp = ck.value

\* The streams: ids grow within one life of a stream.
ServerInv ==
  /\ IsFiniteSet(log)
  /\ \A e \in log : IdLeq(e.id, last[e.stream]) /\ e.born = births[e.stream]
  /\ \A e, f \in log : (e.stream = f.stream /\ e.id = f.id) => e = f

\* What each step of the process may rely on.
ProcessInv ==
  /\ Loc \in {"discover", "connect", "open"} => out = <<>> /\ batch = {} /\ part = 0
  /\ Loc = "timers" => batch = {} /\ part = 0
  /\ Loc = "poll" => part = 0 /\ \A e \in batch : e.stream \notin unread
  /\ Loc = "decode" => part = 0
  /\ Loc = "deliver" => \A e \in batch : Decode(e.kind) > 0
  /\ Loc = "open" => \A s \in covered \ unread : cursors[s] # None
  /\ Loc \in InLoop => \A s \in covered : cursors[s] # None

\* A cursor is past everything delivered and everything in hand.
Reached(e, S, c) ==
  e.stream \in S /\ c[e.stream] # None /\ IdLeq(e.id, c[e.stream])

\* The round in hand follows what was delivered, but for the envelope that is
\* being delivered.
RoundInv ==
  /\ \A i \in DOMAIN out : Reached(out[i].entry, covered, cursors)
  /\ \A e \in batch : Reached(e, covered, cursors)
  /\ \A e, f \in batch : (e.stream = f.stream /\ e.id = f.id) => e = f
  /\ \A i \in DOMAIN out : \A e \in batch :
       out[i].entry.stream = e.stream =>
         \/ IdLess(out[i].entry.id, e.id)
         \/ out[i].entry = e /\ e = out[Len(out)].entry /\ out[i].index < part
  /\ part > 0 => /\ out # <<>>
                 /\ head = out[Len(out)].entry
                 /\ out[Len(out)].entry \in batch
                 /\ out[Len(out)].index = part - 1
                 /\ part < Decode(out[Len(out)].entry.kind)

\* A cursor is not past its stream unless the stream was deleted.
CursorInv ==
  /\ \A s \in Streams : (births[s] = 0 /\ cursors[s] # None) => IdLeq(cursors[s], last[s])
  /\ pc = "discover" => \A s \in Streams : cursors[s] = None

\* What a `$` reader found at its first discovery lies behind its cursors.
OldInv ==
  /\ \A e \in old : /\ e.born <= births[e.stream]
                    /\ e.born = births[e.stream] => IdLeq(e.id, last[e.stream])
  /\ ~opts.fromZero =>
       /\ \A e \in old \cap log :
            (cursors[e.stream] # None /\ e.stream \notin blind) => IdLeq(e.id, cursors[e.stream])
       /\ \A e \in old \cap batch : e.stream \in blind

\* The checkpoint under way and the file.
FileInv ==
  /\ seen = Len(out)
  /\ file.run <= run
  /\ pc \in {"write", "rename"} =>
       /\ ck.value.run = run
       /\ ck.value.events = Len(out)
       /\ ck.value.done => ck.next = "exited" /\ (ck.value.idle \/ AtCount(seen) \/ covered = {})
       /\ ck.value.idle => ck.value.done /\ opts.idleExit

-----------------------------------------------------------------------------
(* Entry ids are totally ordered. *)

LEMMA IdOrder ==
  ASSUME NEW a \in Id, NEW b \in Id
  PROVE  /\ ~IdLess(a, a)
         /\ IdLess(a, b) \/ IdLeq(b, a)
         /\ ~(IdLess(a, b) /\ IdLeq(b, a))
         /\ IdLeq(a, b) => a[1] <= b[1]
         /\ IdLeq(Zero, a)
         /\ Zero \in Id
BY DEF Id, IdLess, IdLeq, Zero

LEMMA IdTransitive ==
  ASSUME NEW a \in Id, NEW b \in Id, NEW c \in Id
  PROVE  /\ IdLess(a, b) /\ IdLess(b, c) => IdLess(a, c)
         /\ IdLess(a, b) /\ IdLeq(b, c) => IdLess(a, c)
         /\ IdLeq(a, b) /\ IdLess(b, c) => IdLess(a, c)
         /\ IdLeq(a, b) /\ IdLeq(b, c) => IdLeq(a, c)
BY DEF Id, IdLess, IdLeq

LEMMA NoneIsNoId == None \notin Id
BY DEF Id, None

\* XADD generates an id above every earlier one of its stream.
LEMMA NextIdFresh ==
  ASSUME TypeOK, NEW s \in Streams
  PROVE  NextId(s) \in Id /\ IdLess(last[s], NextId(s))
<1>1. last[s] \in Nat \X Nat /\ clock \in Nat
  BY Zenon DEF TypeOK, Id
<1> QED  BY <1>1 DEF NextId, Id, IdLess

LEMMA DecodeType == \A k \in Kinds : Decode(k) \in Nat
BY Zenon DEF Kinds, Decode

-----------------------------------------------------------------------------
(* Types. *)

LEMMA TypeInit == Init => TypeInv
<1> SUFFICES ASSUME Init PROVE TypeInv
  BY Zenon
<1>1. opts \in Options
  BY Zenon, ConsumeAssumption DEF Init, Options, NoLimit
<1>2. Empty \in Checkpoint /\ Zero \in Id
  BY Zenon DEF Empty, Checkpoint, Zero, Id
<1>3. ck \in [value : Checkpoint, next : Places]
  BY Zenon, <1>2 DEF Init, NoCall, Places, Ended
<1>4. out \in Seq(Event)
  BY DEF Init
<1> QED
  BY Zenon, <1>1, <1>2, <1>3, <1>4 DEF Init, TypeInv, TypeOK, Places, Working

LEMMA SaveType ==
  ASSUME TypeOK, NEW n \in Nat, NEW S \in SUBSET Streams, NEW d \in BOOLEAN,
         NEW i \in BOOLEAN, NEW p \in Places, Save(n, S, d, i, p)
  PROVE  /\ ck' \in [value : Checkpoint, next : Places]
         /\ pc' \in Places
         /\ pc' = "write" /\ ck'.next = p
<1>1. run \in Nat
  BY Zenon DEF TypeOK
<1>2. ck'.value \in Checkpoint
  BY Zenon, <1>1 DEF Save, Checkpoint
<1> QED  BY Zenon, <1>2 DEF Save, Places

LEMMA TypeStep == TypeInv /\ [Next]_vars => TypeInv'
<1> SUFFICES ASSUME TypeInv, [Next]_vars PROVE TypeInv'
  BY Zenon
<1>a. covered \in SUBSET Streams /\ seen \in Nat /\ Zero \in Id
  BY Zenon, ConsumeAssumption DEF TypeInv, TypeOK, Zero, Id
<1>b. opts.idleExit \in BOOLEAN
  BY Zenon DEF TypeInv, TypeOK, Options
<1>c. {"poll", "timers", "exited"} \subseteq Places
  BY Zenon DEF Places, Working, Ended
<1>d. Empty \in Checkpoint /\ NoCall \in [value : Checkpoint, next : Places]
  BY Zenon DEF Empty, NoCall, Checkpoint, Places, Ended
<1>1. ASSUME NEW f \in Formats, Write(f[1], f[2]) PROVE TypeInv'
  <2>1. f[1] \in Streams /\ f[2] \in Kinds
    BY Zenon, ConsumeAssumption DEF Kinds
  <2>2. NextId(f[1]) \in Id /\ births[f[1]] \in Nat
    BY Zenon, <2>1, NextIdFresh DEF TypeInv, TypeOK
  <2>3. [stream |-> f[1], id |-> NextId(f[1]), kind |-> f[2], born |-> births[f[1]]] \in Entry
    BY Zenon, <2>1, <2>2 DEF Entry
  <2> QED
    BY <1>1, <2>1, <2>2, <2>3 DEF Write, TypeInv, TypeOK, reader, history, disk
<1>2. ASSUME NEW e \in log, Trim(e) PROVE TypeInv'
  BY Zenon, <1>2 DEF Trim, TypeInv, TypeOK, reader, history, disk
<1>3. ASSUME NEW s \in Streams, Delete(s) PROVE TypeInv'
  BY <1>3, <1>a DEF Delete, Fault, TypeInv, TypeOK, reader, history, disk
<1>4. CASE Tick
  BY <1>4 DEF Tick, TypeInv, TypeOK, reader, history, disk
<1>5. ASSUME NEW n \in Nodes, NodeDown(n) \/ NodeUp(n) PROVE TypeInv'
  <2>1. faults' \in Nat
    <3>1. faults \in Nat /\ (faults' = faults \/ faults' = faults + 1)
      BY Zenon, <1>5 DEF NodeDown, NodeUp, Fault, TypeInv, TypeOK
    <3> QED  BY <3>1
  <2>2. up' \in SUBSET Nodes /\ lost' \in BOOLEAN
    BY Zenon, <1>5 DEF NodeDown, NodeUp, TypeInv, TypeOK
  <2> QED
    BY Zenon, <1>5, <2>1, <2>2 DEF NodeDown, NodeUp, TypeInv, TypeOK, reader, history, disk
<1>6. ASSUME NEW partial \in Partials, Discover(partial) PROVE TypeInv'
  <2>1. covered' \in SUBSET Wanted /\ unread' = {}
    BY Zenon, <1>6 DEF Discover, Matched, TypeInv
  <2>2. old' \in SUBSET Entry
    BY Zenon, <1>6 DEF Discover, TypeInv, TypeOK
  <2>3. /\ ck' \in [value : Checkpoint, next : Places]
        /\ pc' \in Places
        /\ pc' \in {"write", "rename"} => ck'.next \in {"poll", "timers", "exited"}
        /\ pc' = "rename" => tmp' = ck'.value
    <3>1. CASE Save(0, {}, TRUE, opts.idleExit, "exited")
      <4>1. TypeOK
        BY Zenon DEF TypeInv
      <4> QED  BY <3>1, <4>1, <1>b, <1>c, SaveType, ZenonT(40)
    <3>2. CASE pc' = "connect" /\ UNCHANGED ck
      BY Zenon, <3>2 DEF TypeInv, TypeOK, Places, Working
    <3> QED  BY Zenon, <1>6, <3>1, <3>2 DEF Discover
  <2> QED
    BY Zenon, <1>6, <2>1, <2>2, <2>3 DEF Discover, TypeInv, TypeOK, server, disk
<1>7. CASE Connect \/ ConnectFails
  BY Zenon, <1>7 DEF Connect, ConnectFails, TypeInv, TypeOK, server, reader, history, disk, Places,
              Working, Ended
<1>8. ASSUME NEW s \in unread, NEW id \in {Zero} \cup {e.id : e \in log}, Open(s, id)
      PROVE  TypeInv'
  <2>1. s \in Streams /\ id \in Id
    BY <1>a DEF TypeInv, TypeOK, Entry
  <2>2. /\ ck' \in [value : Checkpoint, next : Places]
        /\ pc' \in Places /\ pc' # "discover"
        /\ unread' \in SUBSET covered
        /\ pc' \in {"write", "rename"} => ck'.next \in {"poll", "timers", "exited"}
        /\ pc' = "rename" => tmp' = ck'.value
    <3>1. CASE Save(seen, covered, FALSE, FALSE, "poll") /\ unread' = covered
      BY Zenon, <3>1, <1>a, <1>c, SaveType DEF TypeInv, Save
    <3>2. CASE unread' = unread \ {s} /\ UNCHANGED <<pc, ck>>
      BY Zenon, <1>8, <3>2 DEF TypeInv, TypeOK, Open
    <3> QED  BY Zenon, <1>8, <3>1, <3>2 DEF Open
  <2> QED
    BY Zenon, <1>8, <2>1, <2>2 DEF Open, TypeInv, TypeOK, server, disk
<1>9. ASSUME NEW s \in unread, Poll(s) PROVE TypeInv'
  <2>1. s \in Streams /\ Reply(s) \subseteq log
    BY Zenon, <1>a DEF TypeInv, TypeOK, Reply, After, On
  <2>2. cursors' \in [Streams -> Id \cup {None}]
    <3>1. CASE UNCHANGED cursors
      BY Zenon, <3>1 DEF TypeInv, TypeOK
    <3>2. ASSUME NEW e \in Reply(s), cursors' = [cursors EXCEPT ![s] = e.id]
          PROVE  cursors' \in [Streams -> Id \cup {None}]
      <4>1. e.id \in Id
        BY Zenon, <2>1 DEF TypeInv, TypeOK, Entry
      <4> QED  BY Zenon, <2>1, <3>2, <4>1 DEF TypeInv, TypeOK
    <3> QED  BY Zenon, <1>9, <3>1, <3>2 DEF Poll
  <2>3. batch' \in SUBSET Entry
    BY Zenon, <1>9, <2>1 DEF Poll, TypeInv, TypeOK
  <2>4. pc' \in Places /\ pc' # "discover" /\ unread' \in SUBSET covered
    BY Zenon, <1>9 DEF Poll, TypeInv, TypeOK, Places, Working
  <2> QED
    BY Zenon, <1>9, <2>2, <2>3, <2>4 DEF Poll, TypeInv, TypeOK, server, history, disk
<1>10. CASE DecodeRound
  BY Zenon, <1>10 DEF DecodeRound, TypeInv, TypeOK, server, reader, history, disk, Places,
              Working, Ended
<1>11. ASSUME NEW e \in batch, Deliver(e) PROVE TypeInv'
  <2>1. [entry |-> e, index |-> part] \in Event
    BY Zenon DEF TypeInv, TypeOK, Event
  <2>2. out' \in Seq(Event) /\ seen' \in Nat
    BY <1>11, <1>a, <2>1 DEF Deliver, TypeInv, TypeOK
  <2>3. /\ ck' \in [value : Checkpoint, next : Places]
        /\ pc' \in Places /\ pc' # "discover"
        /\ pc' \in {"write", "rename"} => ck'.next \in {"poll", "timers", "exited"}
        /\ pc' = "rename" => tmp' = ck'.value
    <3>1. CASE Save(seen + 1, covered, TRUE, FALSE, "exited")
      <4>1. seen + 1 \in Nat
        BY <1>a
      <4> QED  BY Zenon, <3>1, <4>1, <1>a, <1>c, SaveType DEF TypeInv, Save
    <3>2. CASE UNCHANGED <<pc, ck>>
      BY Zenon, <1>11, <3>2 DEF Deliver, TypeInv, TypeOK
    <3> QED  BY Zenon, <1>11, <3>1, <3>2 DEF Deliver
  <2>4. batch' \in SUBSET Entry /\ part' \in Nat /\ head' \in Entry \cup {None}
    <3>1. e \in Entry /\ batch \in SUBSET Entry /\ part \in Nat
      BY Zenon DEF TypeInv, TypeOK
    <3>2. part + 1 \in Nat /\ 0 \in Nat
      BY <3>1
    <3> QED  BY Zenon, <1>11, <3>1, <3>2 DEF Deliver
  <2> QED
    BY Zenon, <1>11, <2>2, <2>3, <2>4 DEF Deliver, TypeInv, TypeOK, server, disk
<1>12. ASSUME NEW d \in BOOLEAN, NEW p \in {"timers", "exited"}, Save(seen, covered, d, d, p),
              UNCHANGED <<server, faults, opts, run, lost, reader, wasIdle, seen, history, disk>>
       PROVE  TypeInv'
  <2>1. ck' \in [value : Checkpoint, next : Places] /\ pc' \in Places
    BY ZenonT(40), <1>12, <1>a, <1>c, SaveType DEF TypeInv
  <2> QED
    BY Zenon, <1>12, <2>1 DEF Save, TypeInv, TypeOK, server, reader, history, disk
<1>13. CASE EndRound \/ IdleExit
  BY Zenon, <1>12, <1>13 DEF EndRound, IdleExit
<1>14. CASE NextRound
  BY Zenon, <1>14 DEF NextRound, TypeInv, TypeOK, server, reader, history, disk, Places, Working
<1>15. ASSUME NEW partial \in Partials, Rediscover(partial) PROVE TypeInv'
  <2> DEFINE new == Matched(partial) \ covered
  <2>1. new \subseteq Wanted /\ new \subseteq Streams
    BY Zenon, ConsumeAssumption DEF Matched
  <2>2. cursors' \in [Streams -> Id \cup {None}] /\ base' \in [Streams -> Id]
    BY Zenon, <1>15, <1>a DEF Rediscover, TypeInv, TypeOK
  <2>3. covered' \in SUBSET Wanted /\ unread' \in SUBSET covered' /\ blind' \in SUBSET Streams
    BY Zenon, <1>15, <2>1 DEF Rediscover, TypeInv, TypeOK
  <2> QED
    BY Zenon, <1>15, <2>2, <2>3
    DEF Rediscover, TypeInv, TypeOK, server, disk, Places, Working
<1>16. CASE WriteTmp
  BY Zenon, <1>16 DEF WriteTmp, TypeInv, TypeOK, server, reader, history, Places
<1>17. CASE WriteFails
  BY <1>17 DEF WriteFails, Fault, TypeInv, TypeOK, server, reader, history, Places, Ended
<1>18. CASE Rename
  <2>1. file' \in Checkpoint /\ ck.next \in {"poll", "timers", "exited"}
    BY Zenon, <1>18 DEF Rename, TypeInv, TypeOK
  <2> QED
    BY Zenon, <1>18, <2>1, <1>c, <1>d DEF Rename, TypeInv, TypeOK, server, reader, history
<1>19. CASE RenameFails
  BY <1>19 DEF RenameFails, Fault, TypeInv, TypeOK, server, reader, history, disk, Places, Ended
<1>20. CASE Crash
  BY <1>20 DEF Crash, Fault, TypeInv, TypeOK, server, reader, history, Places, Ended
<1>21. CASE Rerun
  <2>1. out' \in Seq(Event)
    BY <1>21 DEF Rerun, NewProcess
  <2>2. /\ cursors' \in [Streams -> Id \cup {None}]
        /\ base' \in [Streams -> Id]
    BY Zenon, <1>21, <1>a DEF Rerun, NewProcess
  <2>3. /\ pc' = "discover" /\ pc' \in Places
        /\ ck' \in [value : Checkpoint, next : Places]
    BY Zenon, <1>21, <1>d DEF Rerun, NewProcess, Places, Working
  <2>4. /\ covered' \in SUBSET Wanted /\ unread' = {} /\ unread' \in SUBSET covered'
        /\ batch' \in SUBSET Entry /\ part' \in Nat /\ head' = None /\ lost' = FALSE
        /\ wasIdle' \in BOOLEAN /\ seen' \in Nat
        /\ old' \in SUBSET Entry /\ blind' \in SUBSET Streams
    BY Zenon, <1>21 DEF Rerun, NewProcess
  <2>5. faults' \in Nat /\ run' \in Nat /\ UNCHANGED <<server, opts, disk>>
    BY <1>21 DEF Rerun, TypeInv, TypeOK
  <2> QED
    BY Zenon, <2>1, <2>2, <2>3, <2>4, <2>5 DEF TypeInv, TypeOK, server, disk
<1>22. CASE UNCHANGED vars
  BY Zenon, <1>22 DEF vars, TypeInv, TypeOK, server, reader, history, disk
<1> QED
  BY Zenon, <1>1, <1>2, <1>3, <1>4, <1>5, <1>6, <1>7, <1>8, <1>9, <1>10, <1>11, <1>13, <1>14, <1>15,
     <1>16, <1>17, <1>19, <1>20, <1>21, <1>18, <1>22
  DEF Next, ServerStep, ProcessStep, Rediscovery, Failure

-----------------------------------------------------------------------------
(* The streams. *)

LEMMA ServerFrame ==
  ASSUME [Next]_vars
  PROVE  \/ \E f \in Formats : Write(f[1], f[2])
         \/ \E e \in log : Trim(e)
         \/ \E s \in Streams : Delete(s)
         \/ UNCHANGED <<log, last, births>>
<1>1. CASE ServerStep
  BY Zenon, <1>1 DEF ServerStep, Tick, NodeDown, NodeUp
<1>2. CASE ProcessStep
  BY Zenon, <1>2 DEF ProcessStep, Rediscovery, Discover, Connect, Open, Poll, DecodeRound, Deliver,
              EndRound, NextRound, WriteTmp, Rename, Rediscover, server
<1>3. CASE IdleExit \/ Failure \/ Rerun \/ UNCHANGED vars
  BY Zenon, <1>3
  DEF IdleExit, Failure, ConnectFails, WriteFails, RenameFails, Crash, Rerun, vars, server
<1> QED  BY Zenon, <1>1, <1>2, <1>3 DEF Next

\* The finite sets the streams need: nothing, one entry more, and some of the entries.
LEMMA FiniteEmpty == IsFiniteSet({})
<1>1. <<>> \in Seq({}) /\ \A e \in {} : \E n \in 1..Len(<<>>) : <<>>[n] = e
  OBVIOUS
<1> QED  BY Zenon, <1>1 DEF IsFiniteSet

LEMMA FiniteAdd ==
  ASSUME NEW S, IsFiniteSet(S), NEW x
  PROVE  IsFiniteSet(S \cup {x})
<1>1. PICK q \in Seq(S) : \A e \in S : \E n \in 1..Len(q) : q[n] = e
  BY Zenon DEF IsFiniteSet
<1> DEFINE r == Append(q, x)
<1>2. r \in Seq(S \cup {x}) /\ Len(r) = Len(q) + 1 /\ r[Len(q) + 1] = x
      /\ \A n \in 1..Len(q) : r[n] = q[n]
  OBVIOUS
<1>3. \A e \in S \cup {x} : \E n \in 1..Len(r) : r[n] = e
  <2>1. Len(q) \in Nat
    OBVIOUS
  <2> HIDE DEF r
  <2>2. Len(q) + 1 \in 1..Len(r) /\ 1..Len(q) \subseteq 1..Len(r)
    BY <1>2, <2>1
  <2> QED  BY Zenon, <1>1, <1>2, <2>2
<1> QED  BY Zenon, <1>2, <1>3 DEF IsFiniteSet

LEMMA FiniteSubset ==
  ASSUME NEW S, IsFiniteSet(S), NEW T \in SUBSET S
  PROVE  IsFiniteSet(T)
<1>1. CASE T = {}
  BY Zenon, <1>1, FiniteEmpty
<1>2. ASSUME NEW t \in T PROVE IsFiniteSet(T)
  <2>1. PICK q \in Seq(S) : \A e \in S : \E n \in 1..Len(q) : q[n] = e
    BY Zenon DEF IsFiniteSet
  <2> DEFINE r == [n \in 1..Len(q) |-> IF q[n] \in T THEN q[n] ELSE t]
  <2>2. r \in Seq(T) /\ Len(r) = Len(q)
    BY <1>2, <2>1
  <2>3. \A e \in T : \E n \in 1..Len(r) : r[n] = e
    BY Zenon, <2>1, <2>2
  <2> QED  BY Zenon, <2>2, <2>3 DEF IsFiniteSet
<1> QED  BY Zenon, <1>1, <1>2

LEMMA ServerInit == Init => ServerInv
BY Zenon, FiniteEmpty DEF Init, ServerInv

LEMMA ServerStepInv == TypeInv /\ ServerInv /\ [Next]_vars => ServerInv'
<1> SUFFICES ASSUME TypeInv, ServerInv, [Next]_vars PROVE ServerInv'
  BY Zenon
<1>a. TypeOK
  BY Zenon DEF TypeInv
<1>1. ASSUME NEW f \in Formats, Write(f[1], f[2]) PROVE ServerInv'
  <2> DEFINE s == f[1]
  <2> DEFINE n == [stream |-> s, id |-> NextId(s), kind |-> f[2], born |-> births[s]]
  <2>1. s \in Streams /\ n.stream = s /\ n.id = NextId(s) /\ n.born = births[s]
    BY Zenon, ConsumeAssumption
  <2>2. last[s] \in Id /\ NextId(s) \in Id /\ IdLess(last[s], NextId(s))
    BY Zenon, <1>a, <2>1, NextIdFresh DEF TypeOK
  <2>3. log' = log \cup {n} /\ births' = births /\ last' = [last EXCEPT ![s] = NextId(s)]
    BY Zenon, <1>1 DEF Write
  <2>4. last' \in [Streams -> Id] /\ last'[s] = NextId(s)
        /\ \A t \in Streams \ {s} : last'[t] = last[t]
    BY Zenon, <1>a, <2>1, <2>2, <2>3 DEF TypeOK
  <2>5. \A e \in log : e.stream \in Streams /\ e.id \in Id
    BY Zenon, <1>a DEF TypeOK, Entry
  <2>6. \A e \in log : e.stream = s => IdLess(e.id, NextId(s))
    BY Zenon, <2>2, <2>5, IdTransitive DEF ServerInv
  <2>7. \A e \in log : e.stream = s => e.id # NextId(s)
    BY Zenon, <2>2, <2>5, <2>6, IdOrder
  <2>8. IsFiniteSet(log')
    BY ZenonT(60), <2>3, FiniteAdd DEF ServerInv
  <2>9. \A e \in log' : IdLeq(e.id, last'[e.stream]) /\ e.born = births'[e.stream]
    <3> SUFFICES ASSUME NEW e \in log'
                 PROVE  IdLeq(e.id, last'[e.stream]) /\ e.born = births'[e.stream]
      BY Zenon
    <3>1. CASE e = n
      BY Zenon, <3>1, <2>1, <2>3, <2>4 DEF IdLeq
    <3>2. CASE e \in log /\ e.stream = s
      BY Zenon, <3>2, <2>3, <2>4, <2>6 DEF IdLeq, ServerInv
    <3>3. CASE e \in log /\ e.stream # s
      BY Zenon, <3>3, <2>3, <2>4, <2>5 DEF ServerInv
    <3> QED  BY Zenon, <2>3, <3>1, <3>2, <3>3
  <2>10. \A e, g \in log' : (e.stream = g.stream /\ e.id = g.id) => e = g
    BY SMTT(60), <2>1, <2>3, <2>7 DEF ServerInv
  <2> QED  BY Zenon, <2>8, <2>9, <2>10 DEF ServerInv
<1>2. ASSUME NEW e \in log, Trim(e) PROVE ServerInv'
  <2>1. IsFiniteSet(log')
    BY Zenon, <1>2, FiniteSubset DEF Trim, ServerInv
  <2> QED  BY Zenon, <1>2, <2>1 DEF Trim, ServerInv
<1>3. ASSUME NEW s \in Streams, Delete(s) PROVE ServerInv'
  <2>1. IsFiniteSet(log')
    BY Zenon, <1>3, FiniteSubset DEF Delete, ServerInv
  <2>2. \A e \in log' : e \in log /\ e.stream \in Streams \ {s}
    BY Zenon, <1>3, <1>a DEF Delete, On, TypeOK, Entry
  <2>3. \A t \in Streams \ {s} : last'[t] = last[t] /\ births'[t] = births[t]
    BY Zenon, <1>3, <1>a DEF Delete, TypeOK
  <2> QED  BY Zenon, <2>1, <2>2, <2>3 DEF ServerInv
<1>4. CASE UNCHANGED <<log, last, births>>
  BY Zenon, <1>4 DEF ServerInv
<1> QED  BY Zenon, <1>1, <1>2, <1>3, <1>4, ServerFrame

-----------------------------------------------------------------------------
(* The process. *)

LEMMA ProcessInit == Init => ProcessInv
BY Zenon DEF Init, ProcessInv, Loc, InLoop

\* The server's steps, and those of write_consumer_checkpoint that succeed.
LEMMA LocFrame ==
  ASSUME TypeInv, ServerStep \/ WriteTmp \/ Rename \/ UNCHANGED vars
  PROVE  Loc' = Loc /\ UNCHANGED <<reader, history, seen>>
<1>1. CASE ServerStep
  BY Zenon, <1>1 DEF ServerStep, Write, Trim, Delete, Tick, NodeDown, NodeUp, Loc
<1>2. CASE WriteTmp
  BY Zenon, <1>2 DEF WriteTmp, Loc
<1>3. CASE Rename
  BY Zenon, <1>3 DEF Rename, Loc, TypeInv
<1>4. CASE UNCHANGED vars
  BY Zenon, <1>4 DEF vars, Loc
<1> QED  BY Zenon, <1>1, <1>2, <1>3, <1>4

LEMMA ReaderFrame ==
  ASSUME [Next]_vars
  PROVE  \/ \E partial \in Partials : Discover(partial) \/ Rediscover(partial)
         \/ \E s \in unread, id \in {Zero} \cup {e.id : e \in log} : Open(s, id)
         \/ \E s \in unread : Poll(s)
         \/ \E e \in batch : Deliver(e)
         \/ Rerun
         \/ UNCHANGED <<covered, cursors, batch, part, head, seen, history>>
<1>1. CASE ServerStep
  BY Zenon, <1>1 DEF ServerStep, Write, Trim, Delete, Tick, NodeDown, NodeUp, reader
<1>2. CASE ProcessStep
  BY Zenon, <1>2 DEF ProcessStep, Rediscovery, Connect, DecodeRound, EndRound, NextRound, WriteTmp,
              Rename, reader
<1>3. CASE IdleExit \/ Failure \/ UNCHANGED vars
  BY Zenon, <1>3 DEF IdleExit, Failure, ConnectFails, WriteFails, RenameFails, Crash, vars, reader
<1> QED  BY Zenon, <1>1, <1>2, <1>3 DEF Next

LEMMA ProcessStepInv == TypeInv /\ ProcessInv /\ RoundInv /\ [Next]_vars => ProcessInv'
<1> SUFFICES ASSUME TypeInv, ProcessInv, RoundInv, [Next]_vars PROVE ProcessInv'
  BY Zenon
<1>a. TypeOK
  BY Zenon DEF TypeInv
<1>1. CASE ServerStep \/ WriteTmp \/ Rename \/ UNCHANGED vars
  BY Zenon, <1>1, LocFrame DEF reader, history, ProcessInv
<1>2. ASSUME NEW partial \in Partials, Discover(partial) PROVE ProcessInv'
  BY Zenon, <1>2 DEF Discover, Save, ProcessInv, Loc, InLoop
<1>3. CASE Connect
  BY Zenon, <1>3 DEF Connect, history, ProcessInv, Loc, InLoop
<1>4. ASSUME NEW s \in unread, NEW id \in {Zero} \cup {e.id : e \in log}, Open(s, id)
      PROVE  ProcessInv'
  <2>1. id # None /\ s \in Streams
    <3>1. id \in Id /\ s \in Streams
      BY <1>a, IdOrder, ConsumeAssumption DEF TypeOK, Entry
    <3> QED  BY Zenon, <3>1, NoneIsNoId
  <2>2. \A t \in covered \ (unread \ {s}) : cursors'[t] # None
    <3>1. \A t \in covered \ unread : cursors[t] # None
      BY Zenon, <1>4 DEF Open, ProcessInv, Loc
    <3>2. cursors' = [cursors EXCEPT ![s] = id] /\ cursors \in [Streams -> Id \cup {None}]
          /\ covered \subseteq Streams
      BY Zenon, <1>4, <1>a, ConsumeAssumption DEF Open, TypeOK
    <3> QED  BY Zenon, <2>1, <3>1, <3>2
  <2>3. out = <<>> /\ batch = {} /\ part = 0
    BY Zenon, <1>4 DEF Open, ProcessInv, Loc
  <2>4. UNCHANGED <<out, batch, part, covered>>
    BY Zenon, <1>4 DEF Open
  <2>5. CASE unread = {s}
    <3>1. Loc' = "poll"
      BY <1>4, <2>5 DEF Open, Save, Loc
    <3>2. \A t \in covered' : cursors'[t] # None
      BY Zenon, <2>2, <2>4, <2>5
    <3> QED  BY Zenon, <2>3, <2>4, <3>1, <3>2 DEF ProcessInv, InLoop
  <2>6. CASE unread # {s}
    <3>1. Loc' = "open" /\ unread' = unread \ {s}
      BY Zenon, <1>4, <2>6 DEF Open, Loc
    <3> QED  BY Zenon, <2>2, <2>3, <2>4, <3>1 DEF ProcessInv, InLoop
  <2> QED  BY Zenon, <2>5, <2>6
<1>5. ASSUME NEW s \in unread, Poll(s) PROVE ProcessInv'
  <2>1. Loc = "poll" /\ part = 0 /\ part' = 0 /\ UNCHANGED covered
    BY Zenon, <1>5 DEF Poll, ProcessInv, Loc
  <2>2. \A t \in covered : cursors'[t] # None
    <3>1. /\ \A t \in covered : cursors[t] # None
          /\ covered \subseteq Streams
          /\ cursors \in [Streams -> Id \cup {None}]
      BY Zenon, <1>a, <2>1, ConsumeAssumption DEF ProcessInv, InLoop, TypeOK
    <3>2. ASSUME NEW e \in Reply(s), cursors' = [cursors EXCEPT ![s] = e.id]
          PROVE  \A t \in covered : cursors'[t] # None
      <4>1. e.id \in Id
        BY Zenon, <1>a DEF Reply, After, On, TypeOK, Entry
      <4> QED  BY Zenon, <3>1, <3>2, <4>1, NoneIsNoId
    <3> QED  BY Zenon, <1>5, <3>1, <3>2 DEF Poll
  <2>3. \A e \in Reply(s) : e.stream = s
    BY Zenon DEF Reply, After, On
  <2>4. CASE unread = {s}
    <3>1. Loc' = "decode"
      BY Zenon, <1>5, <2>4 DEF Poll, Loc
    <3> QED  BY Zenon, <2>1, <2>2, <3>1 DEF ProcessInv, InLoop
  <2>5. CASE unread # {s}
    <3>1. Loc' = "poll" /\ unread' = unread \ {s} /\ batch' = batch \cup Reply(s)
      BY Zenon, <1>5, <2>5 DEF Poll, Loc
    <3>2. \A e \in batch' : e.stream \notin unread'
      BY Zenon, <2>1, <2>3, <3>1 DEF ProcessInv
    <3> QED  BY Zenon, <2>1, <2>2, <3>1, <3>2 DEF ProcessInv, InLoop
  <2> QED  BY Zenon, <2>4, <2>5
<1>6. CASE DecodeRound
  <2>1. UNCHANGED <<batch, covered, cursors>> /\ Loc = "decode" /\ Loc' \in {"failed", "deliver"}
    BY Zenon, <1>6 DEF DecodeRound, reader, Loc
  <2>2. Loc' = "deliver" => \A e \in batch : Decode(e.kind) > 0
    <3>1. \A e \in batch : Decode(e.kind) \in Nat
      BY Zenon, <1>a, DecodeType DEF TypeOK, Entry
    <3> QED  BY <1>6, <3>1 DEF DecodeRound, Loc
  <2> QED  BY Zenon, <2>1, <2>2 DEF ProcessInv, InLoop
<1>7. ASSUME NEW e \in batch, Deliver(e) PROVE ProcessInv'
  <2>1. Loc = "deliver" /\ Loc' \in {"deliver", "exited"} /\ batch' \subseteq batch
        /\ UNCHANGED <<covered, cursors>>
    BY <1>7 DEF Deliver, Save, Loc
  <2> QED  BY Zenon, <2>1 DEF ProcessInv, InLoop
<1>8. CASE EndRound
  <2>1. /\ Loc = "deliver" /\ Loc' = "timers" /\ batch = {}
        /\ UNCHANGED <<batch, part, covered, cursors>>
    BY Zenon, <1>8 DEF EndRound, Save, Loc, reader
  <2>2. part = 0
    BY <1>a, <2>1 DEF RoundInv, TypeOK
  <2> QED  BY Zenon, <2>1, <2>2 DEF ProcessInv, InLoop
<1>9. CASE NextRound
  BY Zenon, <1>9 DEF NextRound, reader, ProcessInv, Loc, InLoop
<1>10. ASSUME NEW partial \in Partials, Rediscover(partial) PROVE ProcessInv'
  <2>1. Loc = "timers" /\ Loc' = "poll" /\ batch' = {} /\ part' = 0
    BY Zenon, <1>10 DEF Rediscover, ProcessInv, Loc
  <2>2. \A s \in covered' : cursors'[s] # None
    <3>1. \A s \in covered : cursors[s] # None
      BY Zenon, <2>1 DEF ProcessInv, InLoop
    <3>2. Zero # None
      BY Zenon DEF Zero, None
    <3>3. covered' \subseteq Streams
      BY Zenon, TypeStep, ConsumeAssumption DEF TypeInv, TypeOK
    <3> QED  BY Zenon, <1>10, <3>1, <3>2, <3>3 DEF Rediscover
  <2> QED  BY Zenon, <2>1, <2>2 DEF ProcessInv, InLoop
<1>11. CASE IdleExit \/ Failure
  <2>1. Loc' \in Ended
    BY <1>11 DEF IdleExit, Save, Failure, ConnectFails, WriteFails, RenameFails, Crash, Loc, Ended
  <2> QED  BY Zenon, <2>1 DEF ProcessInv, Ended, InLoop
<1>12. CASE Rerun
  BY Zenon, <1>12 DEF Rerun, NewProcess, ProcessInv, Loc, InLoop
<1> QED
  BY Zenon, <1>1, <1>2, <1>3, <1>4, <1>5, <1>6, <1>7, <1>8, <1>9, <1>10, <1>11, <1>12
  DEF Next, ProcessStep, Rediscovery

-----------------------------------------------------------------------------
(* The cursors, the round in hand and what was delivered. *)

\* A cursor never moves back.
LEMMA PollMovesOn ==
  ASSUME TypeInv, ProcessInv, NEW s \in unread, Poll(s)
  PROVE  /\ s \in covered /\ covered \subseteq Streams
         /\ \A t \in covered : /\ cursors[t] \in Id /\ cursors'[t] \in Id
                              /\ cursors[t] # None /\ cursors'[t] # None
                              /\ IdLeq(cursors[t], cursors'[t])
         /\ \A t \in Streams \ {s} : cursors'[t] = cursors[t]
         /\ \A f \in Reply(s) : /\ f \in log /\ f \in Entry /\ f.stream = s /\ f.id \in Id
                                /\ IdLess(cursors[s], f.id) /\ IdLeq(f.id, cursors'[s])
<1>1. TypeOK /\ covered \subseteq Streams /\ s \in covered
  BY Zenon, ConsumeAssumption DEF TypeInv, TypeOK
<1>2. \A t \in covered : cursors[t] \in Id /\ cursors[t] # None
  <2>1. \A t \in covered : cursors[t] # None
    BY Zenon DEF Poll, ProcessInv, Loc, InLoop
  <2> QED  BY Zenon, <1>1, <2>1 DEF TypeOK
<1>3. \A f \in Reply(s) : /\ f \in log /\ f \in Entry /\ f.stream = s /\ f.id \in Id
                          /\ IdLess(cursors[s], f.id)
  BY Zenon, <1>1 DEF Reply, After, On, TypeOK, Entry
<1>4. CASE Reply(s) = {} /\ UNCHANGED cursors
  BY Zenon, <1>1, <1>2, <1>4 DEF IdLeq
<1>5. ASSUME NEW e \in Reply(s), \A f \in Reply(s) : IdLeq(f.id, e.id),
             cursors' = [cursors EXCEPT ![s] = e.id]
      PROVE  /\ \A t \in covered : /\ cursors'[t] \in Id /\ cursors'[t] # None
                                  /\ IdLeq(cursors[t], cursors'[t])
             /\ \A t \in Streams \ {s} : cursors'[t] = cursors[t]
             /\ \A f \in Reply(s) : IdLeq(f.id, cursors'[s])
  <2>1. cursors'[s] = e.id /\ \A t \in Streams \ {s} : cursors'[t] = cursors[t]
    BY Zenon, <1>1, <1>5 DEF TypeOK
  <2> QED  BY Zenon, <1>1, <1>2, <1>3, <1>5, <2>1, NoneIsNoId DEF IdLeq
<1> QED  BY Zenon, <1>1, <1>2, <1>3, <1>4, <1>5 DEF Poll

\* The cursors of the streams that are covered already stay where they are.
LEMMA RediscoverKeeps ==
  ASSUME TypeInv, ProcessInv, NEW partial \in Partials, Rediscover(partial)
  PROVE  /\ batch = {} /\ part = 0 /\ UNCHANGED <<batch, part, out, old>>
         /\ covered \subseteq covered' /\ covered \subseteq Streams
         /\ \A s \in covered : cursors'[s] = cursors[s] /\ base'[s] = base[s]
         /\ \A s \in Streams :
              \/ s \notin covered' /\ cursors'[s] = cursors[s]
              \/ s \in covered /\ cursors'[s] = cursors[s]
              \/ /\ s \in covered' \ covered /\ cursors'[s] = Zero /\ base'[s] = Zero
                 /\ ~opts.fromZero => s \in blind'
         /\ blind \subseteq blind'
<1>1. batch = {} /\ part = 0
  BY Zenon DEF Rediscover, ProcessInv, Loc
<1>2. covered \subseteq Streams
  BY Zenon, ConsumeAssumption DEF TypeInv, TypeOK
<1> QED  BY Zenon, <1>1, <1>2 DEF Rediscover

DeliveryInv == RoundInv /\ InOrder

LEMMA DeliveryInit == Init => DeliveryInv
<1> SUFFICES ASSUME Init PROVE DeliveryInv
  BY Zenon
<1>1. out = <<>> /\ batch = {} /\ ~(part > 0)
  BY DEF Init
<1>2. DOMAIN out = {}
  BY <1>1
<1>3. RoundInv
  BY <1>1, <1>2, Zenon DEF RoundInv
<1>4. InOrder
  BY <1>2, Zenon DEF InOrder
<1> QED  BY <1>3, <1>4, Zenon DEF DeliveryInv

LEMMA DeliveryStep ==
  TypeInv /\ ServerInv /\ ProcessInv /\ DeliveryInv /\ [Next]_vars => DeliveryInv'
<1> SUFFICES ASSUME TypeInv, ServerInv, ProcessInv, DeliveryInv, [Next]_vars
             PROVE  DeliveryInv'
  BY Zenon
<1>a. TypeOK /\ RoundInv
  BY Zenon DEF TypeInv, DeliveryInv
<1>1. ASSUME out' = <<>>, batch' = {}, part' = 0 PROVE DeliveryInv'
  BY <1>1 DEF DeliveryInv, RoundInv, InOrder
<1>2. ASSUME NEW partial \in Partials, Discover(partial) PROVE DeliveryInv'
  BY Zenon, <1>1, <1>2 DEF Discover, ProcessInv, Loc
<1>3. ASSUME NEW s \in unread, NEW id \in {Zero} \cup {e.id : e \in log}, Open(s, id)
      PROVE  DeliveryInv'
  BY Zenon, <1>1, <1>3 DEF Open, ProcessInv, Loc
<1>4. CASE Rerun
  BY Zenon, <1>1, <1>4 DEF Rerun, NewProcess
<1>5. ASSUME NEW partial \in Partials, Rediscover(partial) PROVE DeliveryInv'
  <2>1. \A e : Reached(e, covered, cursors) => Reached(e, covered', cursors')
    BY Zenon, <1>5, RediscoverKeeps DEF Reached
  <2>2. batch' = {} /\ part' = 0 /\ out' = out
    BY Zenon, <1>5, RediscoverKeeps
  <2>3. RoundInv'
    BY <1>a, <2>1, <2>2 DEF RoundInv
  <2> QED  BY SMTT(60), <2>2, <2>3 DEF DeliveryInv, InOrder
<1>6. ASSUME NEW s \in unread, Poll(s) PROVE DeliveryInv'
  <2>1. part = 0 /\ part' = 0 /\ out' = out /\ covered' = covered
        /\ batch' = batch \cup Reply(s) /\ \A e \in batch : e.stream # s
    BY Zenon, <1>6 DEF Poll, history, ProcessInv, Loc
  <2>2. /\ \A i \in DOMAIN out : out[i].entry \in Entry /\ out[i].index \in Nat
        /\ batch \subseteq Entry
    <3>1. out \in Seq(Event) /\ batch \subseteq Entry
      BY Zenon, <1>a DEF TypeOK
    <3>2. \A i \in DOMAIN out : out[i] \in Event
      BY <3>1
    <3> QED  BY Zenon, <3>1, <3>2 DEF Event
  <2>3. \A e \in Entry : Reached(e, covered, cursors) => Reached(e, covered', cursors')
    <3> SUFFICES ASSUME NEW e \in Entry, Reached(e, covered, cursors)
                 PROVE  Reached(e, covered', cursors')
      BY Zenon
    <3>1. e.id \in Id /\ e.stream \in covered /\ IdLeq(e.id, cursors[e.stream])
      BY Zenon DEF Entry, Reached
    <3>2. /\ cursors[e.stream] \in Id /\ cursors'[e.stream] \in Id /\ cursors'[e.stream] # None
          /\ IdLeq(cursors[e.stream], cursors'[e.stream])
      BY Zenon, <1>6, <3>1, PollMovesOn
    <3>3. IdLeq(e.id, cursors'[e.stream])
      BY Zenon, <3>1, <3>2, IdTransitive
    <3> QED  BY Zenon, <2>1, <3>1, <3>2, <3>3 DEF Reached
  <2>4. \A e \in Reply(s) : Reached(e, covered', cursors') /\ e \in log
    BY Zenon, <1>6, <2>1, PollMovesOn DEF Reached
  <2>5. \A i \in DOMAIN out' : Reached(out'[i].entry, covered', cursors')
    BY Zenon, <1>a, <2>1, <2>2, <2>3 DEF RoundInv
  <2>6. \A e \in batch' : Reached(e, covered', cursors')
    BY Zenon, <1>a, <2>1, <2>2, <2>3, <2>4 DEF RoundInv
  <2>7. \A e, f \in batch' : (e.stream = f.stream /\ e.id = f.id) => e = f
    <3>1. \A e \in Reply(s) : e.stream = s
      BY Zenon, <1>6, PollMovesOn
    <3> QED  BY ZenonT(40), <1>a, <2>1, <2>4, <3>1 DEF RoundInv, ServerInv
  <2>8. ASSUME NEW i \in DOMAIN out, NEW e \in batch', out[i].entry.stream = e.stream
        PROVE  IdLess(out[i].entry.id, e.id)
    <3>1. CASE e \in batch
      BY <1>a, <2>1, <2>2, <2>8, <3>1 DEF RoundInv
    <3>2. CASE e \in Reply(s)
      <4>1. /\ e.stream = s /\ e.id \in Id /\ cursors[s] \in Id /\ IdLess(cursors[s], e.id)
        BY Zenon, <1>6, <3>2, PollMovesOn
      <4>2. out[i].entry.id \in Id /\ IdLeq(out[i].entry.id, cursors[s])
        BY Zenon, <1>a, <2>2, <2>8, <4>1 DEF RoundInv, Reached, Entry
      <4> QED  BY Zenon, <4>1, <4>2, IdTransitive
    <3> QED  BY Zenon, <2>1, <3>1, <3>2
  <2>9. RoundInv'
    BY <2>1, <2>5, <2>6, <2>7, <2>8 DEF RoundInv
  <2> QED  BY <2>1, <2>9 DEF DeliveryInv, InOrder
<1>7. ASSUME NEW e \in batch, Deliver(e) PROVE DeliveryInv'
  <2> DEFINE n == Len(out)
  <2>1. /\ out \in Seq(Event) /\ n \in Nat /\ part \in Nat
        /\ e \in Entry /\ batch \subseteq Entry
    BY <1>a DEF TypeOK
  <2>2. /\ out' = Append(out, [entry |-> e, index |-> part])
        /\ DOMAIN out' = 1..(n + 1) /\ Len(out') = n + 1
        /\ \A i \in 1..n : out'[i] = out[i]
        /\ out'[n + 1] = [entry |-> e, index |-> part]
    BY <1>7, <2>1 DEF Deliver
  <2>3. DOMAIN out = 1..n /\ \A i \in 1..n : out[i] \in Event
    BY <2>1
  <2>4. UNCHANGED <<covered, cursors>> /\ IsNext(e)
    BY Zenon, <1>7 DEF Deliver
  <2>5. part > 0 => e = out[n].entry
    BY Zenon, <1>7, <1>a DEF Deliver, RoundInv
  <2>6. \/ batch' = batch \ {e} /\ part' = 0
        \/ batch' = batch /\ part' = part + 1 /\ part + 1 # Decode(e.kind) /\ head' = e
    BY Zenon, <1>7 DEF Deliver
  <2>7. part < Decode(e.kind) /\ Decode(e.kind) \in Nat
    <3>1. Decode(e.kind) \in Nat
      BY Zenon, <2>1, DecodeType DEF Entry
    <3>2. Decode(e.kind) > 0
      BY Zenon, <1>7 DEF Deliver, ProcessInv, Loc
    <3> QED  BY <1>a, <2>1, <2>5, <3>1, <3>2 DEF RoundInv
  <2>8. \A f \in batch \ {e} : f.stream = e.stream => IdLess(e.id, f.id)
    BY Zenon, <1>a, <2>4 DEF RoundInv, IsNext, IdLeq
  <2>9. \A f : Reached(f, covered, cursors) => Reached(f, covered', cursors')
    BY Zenon, <2>4 DEF Reached
  <2>10. \A i \in DOMAIN out' : Reached(out'[i].entry, covered', cursors')
    BY <1>a, <2>2, <2>3, <2>1, <2>9 DEF RoundInv
  <2>11. /\ \A f \in batch' : Reached(f, covered', cursors')
         /\ \A f, g \in batch' : (f.stream = g.stream /\ f.id = g.id) => f = g
    BY Zenon, <1>a, <2>6, <2>9 DEF RoundInv
  <2>12. ASSUME NEW i \in DOMAIN out', NEW f \in batch', out'[i].entry.stream = f.stream
         PROVE  \/ IdLess(out'[i].entry.id, f.id)
                \/ /\ out'[i].entry = f /\ f = out'[Len(out')].entry
                   /\ out'[i].index < part'
    <3>1. CASE i = n + 1
      BY <2>1, <2>2, <2>6, <2>8, <2>12, <3>1
    <3>2. CASE i \in 1..n
      <4>1. \/ IdLess(out[i].entry.id, f.id)
            \/ out[i].entry = f /\ f = out[n].entry /\ out[i].index < part
        BY Zenon, <1>a, <2>2, <2>3, <2>6, <2>12, <3>2 DEF RoundInv
      <4>2. out[i].index \in Nat /\ out'[i] = out[i]
        BY Zenon, <2>2, <2>3, <3>2 DEF Event
      <4> QED  BY SMTT(60), <2>1, <2>2, <2>5, <2>6, <4>1, <4>2
    <3> QED  BY <2>1, <2>2, <3>1, <3>2
  <2>13. part' > 0 => /\ out' # <<>>
                      /\ head' = out'[Len(out')].entry
                      /\ out'[Len(out')].entry \in batch'
                      /\ out'[Len(out')].index = part' - 1
                      /\ part' < Decode(out'[Len(out')].entry.kind)
    BY <2>1, <2>2, <2>6, <2>7
  <2>14. RoundInv'
    BY Zenon, <2>10, <2>11, <2>12, <2>13 DEF RoundInv
  <2>15. InOrder'
    <3> SUFFICES ASSUME NEW i \in DOMAIN out', NEW j \in DOMAIN out', i < j,
                        out'[i].entry.stream = out'[j].entry.stream
                 PROVE  \/ IdLess(out'[i].entry.id, out'[j].entry.id)
                        \/ /\ out'[i].entry = out'[j].entry
                           /\ out'[i].index < out'[j].index
      BY Zenon DEF InOrder
    <3>1. CASE j = n + 1
      BY SMTT(60), <1>a, <2>1, <2>2, <2>3, <3>1 DEF RoundInv
    <3>2. CASE j \in 1..n
      BY SMTT(60), <2>1, <2>2, <2>3, <3>2 DEF DeliveryInv, InOrder
    <3> QED  BY <2>1, <2>2, <3>1, <3>2
  <2> QED  BY Zenon, <2>14, <2>15 DEF DeliveryInv
<1>8. CASE UNCHANGED <<covered, cursors, batch, part, head, seen, history>>
  <2>1. UNCHANGED <<covered, cursors, batch, part, head, out>>
    BY <1>8, Zenon DEF history
  <2>2. RoundInv'
    BY <1>a, <2>1, Zenon DEF RoundInv, Reached
  <2>3. InOrder'
    BY <2>1, SMTT(30) DEF DeliveryInv, InOrder
  <2> QED  BY <2>2, <2>3, Zenon DEF DeliveryInv
<1> QED  BY Zenon, <1>2, <1>3, <1>4, <1>5, <1>6, <1>7, <1>8, ReaderFrame


-----------------------------------------------------------------------------
(* What the cursors pass. *)

\* The id a stream's cursor starts at is 0 or the greatest the stream holds.
LEMMA OpenAt ==
  ASSUME TypeInv, ServerInv, NEW s \in unread, NEW id, Open(s, id)
  PROVE  /\ s \in Streams /\ id \in Id /\ IdLeq(id, last[s])
         /\ cursors'[s] = id /\ base'[s] = id
         /\ \A t \in Streams \ {s} : cursors'[t] = cursors[t] /\ base'[t] = base[t]
         /\ UNCHANGED <<covered, batch, part, out, old>> /\ blind \subseteq blind'
         /\ ~opts.fromZero =>
              \/ s \in blind'
              \/ \A e \in log : e.stream = s => IdLeq(e.id, id)
<1>1. TypeOK /\ s \in Streams
  BY Zenon, ConsumeAssumption DEF TypeInv, TypeOK
<1>2. Zero \in Id /\ IdLeq(Zero, last[s])
  BY Zenon, <1>1, IdOrder DEF TypeOK
<1>3. \A e \in On(s) : e.id \in Id /\ IdLeq(e.id, last[s])
  BY Zenon, <1>1 DEF On, ServerInv, TypeOK, Entry
<1>4. id \in Id /\ IdLeq(id, last[s])
  BY Zenon, <1>2, <1>3 DEF Open, IsLastId
<1>5. ~opts.fromZero => s \in blind' \/ \A e \in On(s) : IdLeq(e.id, id)
  BY Zenon DEF Open, IsLastId
<1> QED  BY Zenon, <1>1, <1>4, <1>5 DEF Open, On, TypeOK

SkipInv == CursorInv /\ NothingSkipped

LEMMA SkipInit == Init => SkipInv
BY Zenon DEF Init, SkipInv, CursorInv, NothingSkipped

LEMMA CursorStep ==
  TypeInv /\ ServerInv /\ ProcessInv /\ CursorInv /\ [Next]_vars => CursorInv'
<1> SUFFICES ASSUME TypeInv, ServerInv, ProcessInv, CursorInv, [Next]_vars PROVE CursorInv'
  BY Zenon
<1>a. TypeOK
  BY Zenon DEF TypeInv
<1>b. \A s \in Streams : cursors[s] # None => cursors[s] \in Id
  BY Zenon, <1>a DEF TypeOK
<1>1. ASSUME NEW f \in Formats, Write(f[1], f[2]) PROVE CursorInv'
  <2>1. f[1] \in Streams
    BY Zenon, ConsumeAssumption
  <2>2. last[f[1]] \in Id /\ NextId(f[1]) \in Id /\ IdLess(last[f[1]], NextId(f[1]))
    BY Zenon, <1>a, <2>1, NextIdFresh DEF TypeOK
  <2>3. last' = [last EXCEPT ![f[1]] = NextId(f[1])] /\ UNCHANGED <<births, cursors, pc>>
    BY Zenon, <1>1 DEF Write, reader
  <2>4. \A s \in Streams \ {f[1]} : last'[s] = last[s]
    BY Zenon, <1>a, <2>3 DEF TypeOK
  <2>5. last'[f[1]] = NextId(f[1])
    BY Zenon, <1>a, <2>1, <2>3 DEF TypeOK
  <2>6. (births[f[1]] = 0 /\ cursors[f[1]] # None) => IdLess(cursors[f[1]], NextId(f[1]))
    BY <1>b, <2>1, <2>2, IdTransitive DEF CursorInv
  <2> QED  BY Zenon, <2>1, <2>3, <2>4, <2>5, <2>6 DEF CursorInv, IdLeq
<1>2. ASSUME NEW e \in log, Trim(e) PROVE CursorInv'
  BY Zenon, <1>2 DEF Trim, reader, CursorInv
<1>3. ASSUME NEW s \in Streams, Delete(s) PROVE CursorInv'
  <2>1. births'[s] # 0 /\ \A t \in Streams \ {s} : births'[t] = births[t] /\ last'[t] = last[t]
    <3>1. births[s] \in Nat /\ births'[s] = births[s] + 1
      BY Zenon, <1>3, <1>a DEF Delete, TypeOK
    <3> QED  BY <1>3, <1>a, <3>1 DEF Delete, TypeOK
  <2> QED  BY Zenon, <1>3, <2>1 DEF Delete, reader, CursorInv
<1>4. ASSUME UNCHANGED <<log, last, births>>, NEW partial \in Partials,
             Discover(partial) \/ Rediscover(partial)
      PROVE  CursorInv'
  <2>1. CASE Discover(partial)
    BY Zenon, <1>4, <2>1 DEF Discover, CursorInv, Save
  <2>2. CASE Rediscover(partial)
    <3>1. \A s \in Streams : cursors'[s] = cursors[s] \/ cursors'[s] = Zero
      BY Zenon, <2>2 DEF Rediscover
    <3>2. \A s \in Streams : IdLeq(Zero, last[s])
      BY Zenon, <1>a, IdOrder DEF TypeOK
    <3>3. pc' # "discover"
      BY Zenon, <2>2 DEF Rediscover
    <3> QED  BY Zenon, <1>4, <3>1, <3>2, <3>3 DEF CursorInv
  <2> QED  BY Zenon, <1>4, <2>1, <2>2
<1>5. ASSUME UNCHANGED <<log, last, births>>, NEW s \in unread, NEW id, Open(s, id)
      PROVE  CursorInv'
  <2>1. pc' # "discover"
    BY Zenon, <1>5 DEF Open, Save
  <2> QED  BY Zenon, <1>5, <2>1, OpenAt DEF CursorInv
<1>6. ASSUME UNCHANGED <<log, last, births>>, NEW s \in unread, Poll(s) PROVE CursorInv'
  <2>1. \A t \in Streams \ {s} : cursors'[t] = cursors[t]
    BY Zenon, <1>6, PollMovesOn
  <2>2. cursors'[s] = cursors[s] \/ \E e \in Reply(s) : cursors'[s] = e.id
    BY Zenon, <1>6, <1>a, ConsumeAssumption DEF Poll, TypeOK
  <2>3. \A e \in Reply(s) : IdLeq(e.id, last[s])
    BY Zenon DEF Reply, After, On, ServerInv
  <2>4. pc' # "discover"
    BY Zenon, <1>6 DEF Poll
  <2> QED  BY Zenon, <1>6, <2>1, <2>2, <2>3, <2>4 DEF CursorInv
<1>7. ASSUME NEW e \in batch, Deliver(e) PROVE CursorInv'
  BY Zenon, <1>7 DEF Deliver, Save, server, CursorInv
<1>8. CASE Rerun
  BY Zenon, <1>8 DEF Rerun, NewProcess, CursorInv
<1>9. ASSUME UNCHANGED <<log, last, births>>, UNCHANGED cursors, ~Rerun PROVE CursorInv'
  <2>1. pc' = "discover" => pc = "discover"
    BY ZenonT(60), <1>9, <1>a
    DEF Next, ServerStep, Write, Trim, Delete, Tick, NodeDown, NodeUp, ProcessStep, Discover,
        Connect, Open, Poll, DecodeRound, Deliver, EndRound, NextRound, WriteTmp, Rename,
        Rediscovery, Rediscover, IdleExit, Failure, ConnectFails, WriteFails, RenameFails,
        Crash, Save, vars, TypeInv
  <2> QED  BY Zenon, <1>9, <2>1 DEF CursorInv
<1> QED
  BY Zenon, <1>1, <1>2, <1>3, <1>4, <1>5, <1>6, <1>7, <1>8, <1>9, ServerFrame, ReaderFrame

-----------------------------------------------------------------------------
(* What a `$` reader delivers. *)

LEMMA OptionsFixed == [Next]_vars => UNCHANGED opts
<1> SUFFICES ASSUME [Next]_vars PROVE UNCHANGED opts
  BY Zenon
<1>1. CASE ServerStep
  BY Zenon, <1>1 DEF ServerStep, Write, Trim, Delete, Tick, NodeDown, NodeUp
<1>2. CASE ProcessStep
  BY Zenon, <1>2 DEF ProcessStep, Rediscovery, Discover, Connect, Open, Poll, DecodeRound, Deliver,
              EndRound, NextRound, WriteTmp, Rename, Rediscover
<1>3. CASE IdleExit \/ Failure \/ Rerun \/ UNCHANGED vars
  BY Zenon, <1>3 DEF IdleExit, Failure, ConnectFails, WriteFails, RenameFails, Crash, Rerun, vars
<1> QED  BY Zenon, <1>1, <1>2, <1>3 DEF Next

NewOnlyInv == OldInv /\ OnlyNew

LEMMA NewOnlyInit == Init => NewOnlyInv
BY Zenon DEF Init, NewOnlyInv, OldInv, OnlyNew

LEMMA NewOnlyStep ==
  /\ TypeInv /\ ServerInv /\ ProcessInv /\ CursorInv /\ NewOnlyInv /\ [Next]_vars
  => NewOnlyInv'
<1> SUFFICES ASSUME TypeInv, ServerInv, ProcessInv, CursorInv, NewOnlyInv, [Next]_vars
             PROVE  NewOnlyInv'
  BY Zenon
<1>a. TypeOK /\ OldInv /\ OnlyNew /\ UNCHANGED opts
  BY Zenon, OptionsFixed DEF TypeInv, NewOnlyInv
<1>b. old \subseteq Entry /\ log \subseteq Entry
      /\ \A e \in Entry : e.stream \in Streams /\ e.id \in Id /\ e.born \in Nat
  BY Zenon, <1>a DEF TypeOK, Entry
<1>1. ASSUME NEW f \in Formats, Write(f[1], f[2]) PROVE NewOnlyInv'
  <2> DEFINE s == f[1]
  <2> DEFINE n == [stream |-> s, id |-> NextId(s), kind |-> f[2], born |-> births[s]]
  <2>1. s \in Streams /\ n.stream = s /\ n.id = NextId(s) /\ n.born = births[s]
    BY Zenon, ConsumeAssumption
  <2>2. last[s] \in Id /\ NextId(s) \in Id /\ IdLess(last[s], NextId(s))
    BY Zenon, <1>a, <2>1, NextIdFresh DEF TypeOK
  <2>3. /\ log' = log \cup {n} /\ births' = births /\ last' = [last EXCEPT ![s] = NextId(s)]
        /\ UNCHANGED <<cursors, batch, out, old, blind>>
    BY Zenon, <1>1 DEF Write, reader, history
  <2>4. n \notin old
    BY Zenon, <1>a, <2>1, <2>2, IdOrder DEF OldInv
  <2>5. last'[s] = NextId(s) /\ \A t \in Streams \ {s} : last'[t] = last[t]
    BY Zenon, <1>a, <2>1, <2>3 DEF TypeOK
  <2>6. \A e \in old : e.born = births[e.stream] => IdLeq(e.id, last'[e.stream])
    <3> SUFFICES ASSUME NEW e \in old, e.born = births[e.stream]
                 PROVE  IdLeq(e.id, last'[e.stream])
      BY Zenon
    <3>1. IdLeq(e.id, last[e.stream]) /\ e.stream \in Streams /\ e.id \in Id
      BY Zenon, <1>a, <1>b DEF OldInv
    <3>2. CASE e.stream = s
      <4>1. IdLess(e.id, NextId(s))
        BY Zenon, <2>2, <3>1, <3>2, IdTransitive
      <4> QED  BY Zenon, <2>5, <3>2, <4>1 DEF IdLeq
    <3>3. CASE e.stream # s
      BY Zenon, <2>5, <3>1, <3>3
    <3> QED  BY Zenon, <3>2, <3>3
  <2>7. old' \cap log' = old \cap log
    BY Zenon, <2>3, <2>4
  <2> QED  BY Zenon, <1>a, <2>3, <2>6, <2>7 DEF NewOnlyInv, OldInv, OnlyNew
<1>2. ASSUME NEW e \in log, Trim(e) PROVE NewOnlyInv'
  BY Zenon, <1>2, <1>a DEF Trim, reader, history, NewOnlyInv, OldInv, OnlyNew
<1>3. ASSUME NEW s \in Streams, Delete(s) PROVE NewOnlyInv'
  <2>1. births'[s] = births[s] + 1 /\ births[s] \in Nat
        /\ \A t \in Streams \ {s} : births'[t] = births[t] /\ last'[t] = last[t]
    BY Zenon, <1>3, <1>a DEF Delete, TypeOK
  <2>2. log' \subseteq log /\ UNCHANGED <<cursors, batch, out, old, blind>>
    BY Zenon, <1>3 DEF Delete, reader, history
  <2>3. \A e \in old : /\ e.born <= births'[e.stream]
                       /\ e.born = births'[e.stream] => IdLeq(e.id, last'[e.stream])
    <3> SUFFICES ASSUME NEW e \in old
                 PROVE  /\ e.born <= births'[e.stream]
                        /\ e.born = births'[e.stream] => IdLeq(e.id, last'[e.stream])
      BY Zenon
    <3>1. e.stream \in Streams /\ e.born \in Nat /\ e.born <= births[e.stream]
      BY Zenon, <1>a, <1>b DEF OldInv
    <3>2. CASE e.stream = s
      BY <2>1, <3>1, <3>2
    <3>3. CASE e.stream # s
      BY Zenon, <1>a, <2>1, <3>1, <3>3 DEF OldInv
    <3> QED  BY Zenon, <3>2, <3>3
  <2> QED  BY Zenon, <1>a, <2>2, <2>3 DEF NewOnlyInv, OldInv, OnlyNew
<1>4. ASSUME UNCHANGED <<log, last, births>>, NEW partial \in Partials, Discover(partial)
      PROVE  NewOnlyInv'
  <2>1. /\ old' \subseteq log /\ out' = <<>> /\ batch' = {}
        /\ \A s \in Streams : cursors'[s] = None
    BY Zenon, <1>4 DEF Discover, ProcessInv, Loc, CursorInv
  <2>2. \A e \in old' : /\ e.born <= births'[e.stream]
                        /\ e.born = births'[e.stream] => IdLeq(e.id, last'[e.stream])
    <3>1. \A e \in log : e.born \in Nat
      BY Zenon, <1>b
    <3> QED  BY <1>4, <2>1, <3>1 DEF ServerInv
  <2> QED  BY <1>4, <1>b, <2>1, <2>2 DEF NewOnlyInv, OldInv, OnlyNew
<1>5. ASSUME UNCHANGED <<log, last, births>>, NEW partial \in Partials, Rediscover(partial)
      PROVE  NewOnlyInv'
  <2>1. /\ batch' = {} /\ UNCHANGED <<out, old>> /\ blind \subseteq blind'
        /\ ~opts.fromZero => \A s \in Streams : cursors'[s] = cursors[s] \/ s \in blind'
    BY Zenon, <1>5, RediscoverKeeps
  <2> QED  BY Zenon, <1>5, <1>a, <1>b, <2>1 DEF NewOnlyInv, OldInv, OnlyNew
<1>6. ASSUME UNCHANGED <<log, last, births>>, NEW s \in unread, NEW id, Open(s, id)
      PROVE  NewOnlyInv'
  <2>1. out' = <<>> /\ batch' = {} /\ old' = old /\ blind \subseteq blind'
    BY Zenon, <1>6, OpenAt DEF Open, ProcessInv, Loc
  <2>2. ~opts.fromZero => \A e \in old \cap log :
          (cursors'[e.stream] # None /\ e.stream \notin blind') =>
            IdLeq(e.id, cursors'[e.stream])
    <3> SUFFICES ASSUME ~opts.fromZero, NEW e \in old \cap log, cursors'[e.stream] # None,
                        e.stream \notin blind'
                 PROVE  IdLeq(e.id, cursors'[e.stream])
      BY Zenon
    <3>1. CASE e.stream = s
      BY ZenonT(40), <1>6, <3>1, OpenAt
    <3>2. CASE e.stream # s
      <4>1. cursors'[e.stream] = cursors[e.stream]
        BY Zenon, <1>6, <1>b, <3>2, OpenAt
      <4> QED  BY Zenon, <1>a, <2>1, <4>1 DEF OldInv
    <3> QED  BY Zenon, <3>1, <3>2
  <2>3. \A e \in old' : /\ e.born <= births'[e.stream]
                        /\ e.born = births'[e.stream] => IdLeq(e.id, last'[e.stream])
    BY Zenon, <1>6, <2>1 DEF NewOnlyInv, OldInv
  <2>4. opts' = opts /\ log' = log
    BY Zenon, <1>6, <1>a
  <2>5. OldInv'
    BY Zenon, <2>1, <2>2, <2>3, <2>4 DEF OldInv
  <2>6. OnlyNew'
    <3>1. DOMAIN out' = {}
      BY <2>1
    <3> QED  BY Zenon, <3>1 DEF OnlyNew
  <2> QED  BY Zenon, <2>5, <2>6 DEF NewOnlyInv
<1>7. ASSUME UNCHANGED <<log, last, births>>, NEW s \in unread, Poll(s) PROVE NewOnlyInv'
  <2>1. batch' = batch \cup Reply(s) /\ UNCHANGED <<out, old, blind>>
    BY Zenon, <1>7 DEF Poll, history
  <2>2. ~opts.fromZero => \A e \in old \cap Reply(s) : e.stream \in blind
    <3> SUFFICES ASSUME ~opts.fromZero, NEW e \in old \cap Reply(s), e.stream \notin blind
                 PROVE  FALSE
      BY Zenon
    <3>1. /\ e \in log /\ e.stream = s /\ e.id \in Id /\ cursors[s] \in Id /\ cursors[s] # None
          /\ IdLess(cursors[s], e.id)
      BY Zenon, <1>7, PollMovesOn
    <3>2. IdLeq(e.id, cursors[s])
      BY Zenon, <1>a, <3>1 DEF OldInv
    <3> QED  BY Zenon, <3>1, <3>2, IdOrder
  <2>3. ~opts.fromZero => \A e \in old \cap log :
          (cursors'[e.stream] # None /\ e.stream \notin blind) =>
            IdLeq(e.id, cursors'[e.stream])
    <3> SUFFICES ASSUME ~opts.fromZero, NEW e \in old \cap log, cursors'[e.stream] # None,
                        e.stream \notin blind
                 PROVE  IdLeq(e.id, cursors'[e.stream])
      BY Zenon
    <3>1. CASE e.stream = s
      <4>1. /\ cursors[s] \in Id /\ cursors'[s] \in Id /\ cursors[s] # None
            /\ IdLeq(cursors[s], cursors'[s])
        BY Zenon, <1>7, PollMovesOn
      <4>2. IdLeq(e.id, cursors[s]) /\ e.id \in Id
        BY Zenon, <1>a, <1>b, <3>1, <4>1 DEF OldInv
      <4> QED  BY Zenon, <3>1, <4>1, <4>2, IdTransitive
    <3>2. CASE e.stream # s
      <4>1. cursors'[e.stream] = cursors[e.stream]
        BY Zenon, <1>7, <1>b, <3>2, PollMovesOn
      <4> QED  BY Zenon, <1>a, <4>1 DEF OldInv
    <3> QED  BY Zenon, <3>1, <3>2
  <2> QED  BY Zenon, <1>7, <1>a, <2>1, <2>2, <2>3 DEF NewOnlyInv, OldInv, OnlyNew
<1>8. ASSUME UNCHANGED <<log, last, births>>, NEW d \in batch, Deliver(d) PROVE NewOnlyInv'
  <2>1. batch' \subseteq batch /\ UNCHANGED <<cursors, old, blind>>
    BY Zenon, <1>8 DEF Deliver
  <2>2. out \in Seq(Event) /\ out' = Append(out, [entry |-> d, index |-> part])
    BY Zenon, <1>8, <1>a DEF Deliver, TypeOK
  <2>3. \A i \in DOMAIN out' : out'[i].entry = d \/ (i \in DOMAIN out /\ out'[i] = out[i])
    BY <2>2
  <2>4. OnlyNew'
    BY Zenon, <1>a, <2>1, <2>3 DEF OldInv, OnlyNew
  <2> QED  BY Zenon, <1>8, <1>a, <2>1, <2>4 DEF NewOnlyInv, OldInv
<1>9. CASE Rerun
  BY Zenon, <1>9 DEF Rerun, NewProcess, NewOnlyInv, OldInv, OnlyNew
<1>10. ASSUME UNCHANGED <<log, last, births>>,
              UNCHANGED <<covered, cursors, batch, part, seen, history>>
       PROVE  NewOnlyInv'
  BY Zenon, <1>10, <1>a DEF history, NewOnlyInv, OldInv, OnlyNew
<1> QED
  BY Zenon, <1>1, <1>2, <1>3, <1>4, <1>5, <1>6, <1>7, <1>8, <1>9, <1>10, ServerFrame, ReaderFrame

-----------------------------------------------------------------------------
(* The checkpoint file. *)

CheckpointInv == FileInv /\ CheckpointHonest

LEMMA CheckpointInit == Init => CheckpointInv
<1> SUFFICES ASSUME Init PROVE CheckpointInv
  BY Zenon
<1>1. file = Empty /\ run = 1 /\ seen = 0 /\ out = <<>> /\ pc = "discover"
  BY Zenon DEF Init
<1>2. Empty \in Checkpoint /\ Empty.run = 0
  BY Zenon DEF Empty, Checkpoint
<1> QED  BY <1>1, <1>2, TornAssumption DEF CheckpointInv, FileInv, CheckpointHonest

\* What a call of write_consumer_checkpoint has to say.
LEMMA SaveHonest ==
  ASSUME NEW n, NEW S, NEW d \in BOOLEAN, NEW i \in BOOLEAN, NEW p, Save(n, S, d, i, p),
         UNCHANGED run, UNCHANGED opts, n = Len(out'), seen' = n,
         d => p = "exited" /\ (i \/ AtCount(n) \/ covered' = {}),
         i => d /\ opts.idleExit,
         file' = file, file.run <= run,
         CheckpointHonest, pc # "exited", Len(out) \in Nat, n \in Nat, Len(out) <= n,
         file \in Checkpoint
  PROVE  CheckpointInv'
<1>1. /\ ck'.value.run = run /\ ck'.value.events = n
      /\ ck'.value.done = d /\ ck'.value.idle = i /\ ck'.next = p /\ pc' = "write"
  BY Zenon DEF Save
<1>2. AtCount(n) => AtCount(seen)'
  BY Zenon DEF AtCount
<1>3. FileInv'
  BY Zenon, <1>1, <1>2 DEF FileInv
<1>4. file.events \in Nat
  BY Zenon DEF Checkpoint
<1>5. CheckpointHonest'
  BY <1>1, <1>4 DEF CheckpointHonest
<1> QED  BY Zenon, <1>3, <1>5 DEF CheckpointInv

\* Steps of the process that neither write the file nor call for it.
LEMMA QuietHonest ==
  ASSUME CheckpointInv, UNCHANGED <<run, opts, file, ck, seen, out>>,
         \/ UNCHANGED <<pc, covered>>
         \/ pc # "exited" /\ pc' \notin {"write", "rename"}
         \/ pc = "write" /\ pc' = "rename" /\ UNCHANGED covered
  PROVE  CheckpointInv'
<1>1. FileInv'
  BY Zenon DEF CheckpointInv, FileInv, AtCount
<1>2. CheckpointHonest'
  BY Zenon DEF CheckpointInv, CheckpointHonest, AtCount
<1> QED  BY Zenon, <1>1, <1>2 DEF CheckpointInv

LEMMA CheckpointStep ==
  TypeInv /\ ProcessInv /\ CheckpointInv /\ [Next]_vars => CheckpointInv'
<1> SUFFICES ASSUME TypeInv, ProcessInv, CheckpointInv, [Next]_vars PROVE CheckpointInv'
  BY Zenon
<1>a. TypeOK /\ FileInv /\ CheckpointHonest /\ UNCHANGED opts
  BY Zenon, OptionsFixed DEF TypeInv, CheckpointInv
<1>b. /\ seen = Len(out) /\ seen \in Nat /\ file.run <= run /\ file \in Checkpoint
      /\ opts.idleExit \in BOOLEAN
  BY Zenon, <1>a DEF TypeOK, FileInv, Options
<1>1. CASE ServerStep
  BY Zenon, <1>1, QuietHonest
  DEF ServerStep, Write, Trim, Delete, Tick, NodeDown, NodeUp, reader, history, disk
<1>2. ASSUME NEW partial \in Partials, Discover(partial) PROVE CheckpointInv'
  <2>1. CASE covered' = {}
    <3>1. /\ Save(0, {}, TRUE, opts.idleExit, "exited") /\ pc # "exited"
          /\ UNCHANGED <<run, file, seen, out>>
      BY Zenon, <1>2, <2>1 DEF Discover, disk
    <3>2. out = <<>>
      BY Zenon, <1>2 DEF Discover, ProcessInv, Loc
    <3>3. 0 = Len(out') /\ seen' = 0 /\ Len(out) <= 0 /\ Len(out) \in Nat
      BY <1>b, <3>1, <3>2
    <3> QED  BY Zenon, <1>a, <1>b, <2>1, <3>1, <3>3, SaveHonest
  <2>2. CASE covered' # {}
    BY Zenon, <1>2, <2>2, QuietHonest DEF Discover, disk
  <2> QED  BY Zenon, <2>1, <2>2
<1>3. CASE Connect \/ ConnectFails \/ DecodeRound \/ NextRound
  BY Zenon, <1>3, QuietHonest DEF Connect, ConnectFails, DecodeRound, NextRound, reader, history, disk
<1>4. ASSUME NEW s \in unread, NEW id, Open(s, id) PROVE CheckpointInv'
  <2>1. CASE unread = {s}
    <3>1. /\ Save(seen, covered, FALSE, FALSE, "poll") /\ pc # "exited"
          /\ UNCHANGED <<run, file, seen, out>>
      BY Zenon, <1>4, <2>1 DEF Open, disk
    <3>2. seen = Len(out') /\ seen' = seen /\ Len(out) <= seen /\ Len(out) \in Nat
      BY <1>b, <3>1
    <3> QED  BY Zenon, <1>a, <1>b, <3>1, <3>2, SaveHonest
  <2>2. CASE unread # {s}
    BY Zenon, <1>4, <2>2, QuietHonest DEF Open, disk
  <2> QED  BY Zenon, <2>1, <2>2
<1>5. ASSUME NEW s \in unread, Poll(s) PROVE CheckpointInv'
  BY Zenon, <1>5, QuietHonest DEF Poll, history, disk
<1>6. ASSUME NEW d \in batch, Deliver(d) PROVE CheckpointInv'
  <2>1. /\ UNCHANGED <<run, file, covered>> /\ seen' = seen + 1 /\ Len(out') = seen + 1
        /\ pc = "deliver"
    BY <1>6, <1>a, <1>b DEF Deliver, disk, TypeOK
  <2>2. CASE AtCount(seen + 1)
    <3>1. Save(seen + 1, covered, TRUE, FALSE, "exited")
      BY Zenon, <1>6, <2>2 DEF Deliver
    <3>2. seen + 1 \in Nat /\ seen + 1 = Len(out') /\ Len(out) <= seen + 1 /\ Len(out) \in Nat
      BY <1>b, <2>1
    <3> QED  BY Zenon, <1>a, <1>b, <2>1, <2>2, <3>1, <3>2, SaveHonest
  <2>3. CASE ~AtCount(seen + 1)
    <3>1. UNCHANGED <<pc, ck>>
      BY Zenon, <1>6, <2>3 DEF Deliver
    <3>2. FileInv'
      BY Zenon, <1>a, <1>b, <2>1, <3>1 DEF FileInv
    <3>3. file.events \in Nat /\ run \in Nat
      BY Zenon, <1>a, <1>b DEF Checkpoint, TypeOK
    <3>4. CheckpointHonest'
      BY <1>a, <1>b, <2>1, <3>1, <3>3 DEF CheckpointHonest
    <3> QED  BY Zenon, <3>2, <3>4 DEF CheckpointInv
  <2> QED  BY Zenon, <2>2, <2>3
<1>7. CASE EndRound
  <2>1. /\ Save(seen, covered, FALSE, FALSE, "timers") /\ pc # "exited"
        /\ UNCHANGED <<run, file, seen, out>>
    BY Zenon, <1>7 DEF EndRound, history, disk
  <2>2. seen = Len(out') /\ seen' = seen /\ Len(out) <= seen /\ Len(out) \in Nat
    BY <1>b, <2>1
  <2> QED  BY Zenon, <1>a, <1>b, <2>1, <2>2, SaveHonest
<1>8. CASE IdleExit
  <2>1. /\ Save(seen, covered, TRUE, TRUE, "exited") /\ pc # "exited" /\ opts.idleExit
        /\ UNCHANGED <<run, file, seen, out>>
    BY Zenon, <1>8 DEF IdleExit, history, disk
  <2>2. seen = Len(out') /\ seen' = seen /\ Len(out) <= seen /\ Len(out) \in Nat
    BY <1>b, <2>1
  <2> QED  BY Zenon, <1>a, <1>b, <2>1, <2>2, SaveHonest
<1>9. ASSUME NEW partial \in Partials, Rediscover(partial) PROVE CheckpointInv'
  BY Zenon, <1>9, QuietHonest DEF Rediscover, disk
<1>10. CASE WriteTmp
  BY Zenon, <1>10, QuietHonest DEF WriteTmp, reader, history
<1>11. CASE WriteFails \/ RenameFails
  BY Zenon, <1>11, QuietHonest DEF WriteFails, RenameFails, reader, history, disk
<1>12. CASE Crash
  BY Zenon, <1>12, QuietHonest DEF Crash, Running, Ended, reader, history
<1>13. CASE Rename
  <2>1. /\ file' = ck.value /\ pc' = ck.next /\ pc = "rename" /\ ck.value \in Checkpoint
        /\ UNCHANGED <<run, opts, covered, seen, out>>
    BY Zenon, <1>13, <1>a DEF Rename, reader, history, TypeInv, TypeOK
  <2>2. pc' \notin {"write", "rename"}
    BY Zenon, <1>13, <2>1 DEF TypeInv
  <2>3. /\ ck.value.run = run /\ ck.value.events = Len(out)
        /\ ck.value.done => ck.next = "exited" /\ (ck.value.idle \/ AtCount(seen) \/ covered = {})
        /\ ck.value.idle => ck.value.done /\ opts.idleExit
    BY Zenon, <1>a, <2>1 DEF FileInv
  <2>4. FileInv'
    BY <1>a, <1>b, <2>1, <2>2, <2>3 DEF FileInv, TypeOK
  <2>5. file' # Torn
    BY Zenon, <2>1, TornAssumption
  <2>6. CheckpointHonest'
    BY SMTT(60), <1>b, <2>1, <2>3, <2>5 DEF CheckpointHonest, AtCount
  <2> QED  BY Zenon, <2>4, <2>6 DEF CheckpointInv
<1>14. CASE Rerun
  <2>1. /\ run' = run + 1 /\ file' = file /\ seen' = 0 /\ out' = <<>> /\ pc' = "discover"
    BY Zenon, <1>14 DEF Rerun, NewProcess, disk
  <2>2. file.run \in Nat /\ run \in Nat
    BY Zenon, <1>a, <1>b DEF Checkpoint, TypeOK
  <2>3. file.run < run'
    BY <1>b, <2>1, <2>2
  <2> QED
    BY <1>a, <2>1, <2>2, <2>3 DEF CheckpointInv, FileInv, CheckpointHonest
<1>15. CASE UNCHANGED vars
  BY Zenon, <1>15, QuietHonest DEF vars, reader, history, disk
<1> QED
  BY Zenon, <1>1, <1>2, <1>3, <1>4, <1>5, <1>6, <1>7, <1>8, <1>9, <1>10, <1>11, <1>12, <1>13, <1>14,
     <1>15
  DEF Next, ProcessStep, Rediscovery, Failure

-----------------------------------------------------------------------------
(* What XREAD returns, and what is skipped. *)

INSTANCE FiniteSetTheorems

\* XREAD leaves no gap: what lies between the old and the new cursor was read.
LEMMA PollReadsAll ==
  ASSUME TypeInv, ServerInv, ProcessInv, NEW s \in unread, Poll(s),
         NEW e \in log, e.stream = s, IdLess(cursors[s], e.id), IdLeq(e.id, cursors'[s])
  PROVE  e \in Reply(s)
<1>1. TypeOK /\ s \in covered /\ cursors[s] \in Id /\ s \in Streams
  BY Zenon, PollMovesOn DEF TypeInv
<1>2. e.id \in Id /\ e \in After(s)
  BY Zenon, <1>1 DEF After, On, TypeOK, Entry
<1>3. PICK g \in Reply(s) : cursors'[s] = g.id
  <2>1. ~UNCHANGED cursors
    BY Zenon, <1>1, <1>2, IdOrder
  <2> QED  BY Zenon, <1>1, <2>1 DEF Poll, TypeOK
<1>4. g \in After(s) /\ g.id \in Id /\ Answers(s)
      /\ Cardinality({f \in After(s) : IdLess(f.id, g.id)}) < ReadCount
  BY Zenon, <1>1 DEF Reply, After, On, TypeOK, Entry
<1> DEFINE A == {f \in After(s) : IdLess(f.id, e.id)}
           B == {f \in After(s) : IdLess(f.id, g.id)}
<1>5. A \subseteq B
  <2>1. \A f \in After(s) : f.id \in Id
    BY Zenon, <1>1 DEF After, On, TypeOK, Entry
  <2> QED  BY Zenon, <1>2, <1>3, <1>4, <2>1, IdTransitive
<1>6. IsFiniteSet(B)
  <2>1. B \subseteq log /\ IsFiniteSet(log)
    BY Zenon DEF After, On, ServerInv
  <2> HIDE DEF B
  <2> QED  BY Zenon, <2>1, FS_Subset
<1>7. Cardinality(A) \in Nat /\ Cardinality(B) \in Nat /\ Cardinality(A) <= Cardinality(B)
  <2> HIDE DEF A, B
  <2> QED  BY Zenon, <1>5, <1>6, FS_Subset, FS_CardinalityType
<1>8. Cardinality(A) < ReadCount
  <2>1. Cardinality(B) < ReadCount
    BY Zenon, <1>4
  <2> HIDE DEF A, B
  <2> QED  BY <1>7, <2>1, ConsumeAssumption
<1> QED  BY Zenon, <1>2, <1>4, <1>8 DEF Reply

LEMMA SkipStep ==
  TypeInv /\ ServerInv /\ ProcessInv /\ SkipInv /\ [Next]_vars => SkipInv'
<1> SUFFICES ASSUME TypeInv, ServerInv, ProcessInv, SkipInv, [Next]_vars,
                    NEW e \in log', e.stream \in covered', cursors'[e.stream] # None,
                    IdLeq(e.id, cursors'[e.stream])
             PROVE  DeliveredEntry(e)' \/ e \in batch' \/ PassedOver(e)'
  BY Zenon, CursorStep DEF SkipInv, NothingSkipped
<1>a. TypeOK /\ CursorInv /\ NothingSkipped
  BY Zenon DEF TypeInv, SkipInv
<1>b. e \in Entry /\ e.stream \in Streams /\ e.id \in Id
  BY Zenon, TypeStep DEF TypeInv, TypeOK, Entry
<1> DEFINE Held == DeliveredEntry(e) \/ e \in batch \/ PassedOver(e)
<1>c. ASSUME e \in log, e.stream \in covered, cursors[e.stream] # None,
             IdLeq(e.id, cursors[e.stream])
      PROVE  Held
  BY Zenon, <1>a, <1>c DEF NothingSkipped
<1>d. ASSUME UNCHANGED <<covered, cursors, batch, part, seen, history>>, e \in log
      PROVE  DeliveredEntry(e)' \/ e \in batch' \/ PassedOver(e)'
  BY Zenon, <1>c, <1>d DEF history, DeliveredEntry, PassedOver
<1>1. ASSUME NEW f \in Formats, Write(f[1], f[2])
      PROVE  DeliveredEntry(e)' \/ e \in batch' \/ PassedOver(e)'
  <2> DEFINE n == [stream |-> f[1], id |-> NextId(f[1]), kind |-> f[2], born |-> births[f[1]]]
  <2>1. log' = log \cup {n} /\ UNCHANGED <<covered, cursors, batch, part, seen, history>>
    BY Zenon, <1>1 DEF Write, reader
  <2>2. CASE e \in log
    BY Zenon, <1>d, <2>1, <2>2
  <2>3. CASE e = n
    <3>1. /\ e.stream = f[1] /\ e.id = NextId(f[1]) /\ e.born = births[e.stream]
          /\ births[e.stream] \in Nat /\ last[e.stream] \in Id /\ cursors[e.stream] \in Id
          /\ cursors'[e.stream] = cursors[e.stream]
      BY Zenon, <1>a, <1>b, <2>1, <2>3 DEF TypeOK
    <3>2. IdLess(last[e.stream], e.id)
      BY Zenon, <1>a, <1>b, <3>1, NextIdFresh
    <3>3. births[e.stream] # 0
      <4>1. IdLeq(e.id, cursors[e.stream])
        BY Zenon, <3>1
      <4>2. ASSUME IdLeq(cursors[e.stream], last[e.stream]) PROVE FALSE
        BY Zenon, <1>b, <3>1, <3>2, <4>1, <4>2, IdTransitive, IdOrder
      <4> QED  BY Zenon, <1>a, <1>b, <3>1, <4>2, NoneIsNoId DEF CursorInv
    <3>4. e.born > 0 /\ e.id[1] <= cursors'[e.stream][1]
      BY <1>b, <3>1, <3>3, IdOrder
    <3> QED  BY Zenon, <3>4 DEF PassedOver
  <2> QED  BY Zenon, <2>1, <2>2, <2>3
<1>2. ASSUME NEW t \in log, Trim(t)
      PROVE  DeliveredEntry(e)' \/ e \in batch' \/ PassedOver(e)'
  BY Zenon, <1>2, <1>d DEF Trim, reader
<1>3. ASSUME NEW s \in Streams, Delete(s)
      PROVE  DeliveredEntry(e)' \/ e \in batch' \/ PassedOver(e)'
  BY Zenon, <1>3, <1>d DEF Delete, reader
<1>4. ASSUME NEW partial \in Partials, Discover(partial)
      PROVE  DeliveredEntry(e)' \/ e \in batch' \/ PassedOver(e)'
  BY Zenon, <1>4, <1>a, <1>b DEF Discover, CursorInv
<1>5. ASSUME UNCHANGED <<log, last, births>>, NEW partial \in Partials, Rediscover(partial)
      PROVE  DeliveredEntry(e)' \/ e \in batch' \/ PassedOver(e)'
  <2>1. CASE e.stream \in covered
    <3>1. /\ cursors'[e.stream] = cursors[e.stream] /\ base'[e.stream] = base[e.stream]
          /\ UNCHANGED <<batch, out>>
      BY Zenon, <1>5, <2>1, RediscoverKeeps
    <3> QED  BY Zenon, <1>5, <1>c, <2>1, <3>1 DEF DeliveredEntry, PassedOver
  <2>2. CASE e.stream \notin covered
    <3>1. cursors'[e.stream] = Zero /\ base'[e.stream] = Zero
      BY Zenon, <1>5, <1>b, <2>2, RediscoverKeeps
    <3> QED  BY Zenon, <3>1 DEF PassedOver
  <2> QED  BY Zenon, <2>1, <2>2
<1>6. ASSUME UNCHANGED <<log, last, births>>, NEW s \in unread, NEW id, Open(s, id)
      PROVE  DeliveredEntry(e)' \/ e \in batch' \/ PassedOver(e)'
  <2>1. CASE e.stream = s
    <3>1. cursors'[e.stream] = base'[e.stream]
      BY Zenon, <1>6, <2>1, OpenAt
    <3> QED  BY Zenon, <3>1 DEF PassedOver
  <2>2. CASE e.stream # s
    <3>1. /\ cursors'[e.stream] = cursors[e.stream] /\ base'[e.stream] = base[e.stream]
          /\ UNCHANGED <<covered, batch, out>>
      BY Zenon, <1>6, <1>b, <2>2, OpenAt
    <3> QED  BY Zenon, <1>6, <1>c, <3>1 DEF DeliveredEntry, PassedOver
  <2> QED  BY Zenon, <2>1, <2>2
<1>7. ASSUME UNCHANGED <<log, last, births>>, NEW s \in unread, Poll(s)
      PROVE  DeliveredEntry(e)' \/ e \in batch' \/ PassedOver(e)'
  <2>1. batch' = batch \cup Reply(s) /\ UNCHANGED <<covered, out, base>>
    BY Zenon, <1>7 DEF Poll, history
  <2>2. /\ cursors[e.stream] \in Id /\ cursors'[e.stream] \in Id /\ cursors[e.stream] # None
        /\ IdLeq(cursors[e.stream], cursors'[e.stream])
    BY Zenon, <1>7, <2>1, PollMovesOn
  <2>3. CASE IdLeq(e.id, cursors[e.stream])
    <3>1. Held
      BY Zenon, <1>7, <1>c, <2>1, <2>2, <2>3
    <3>2. cursors[e.stream][1] <= cursors'[e.stream][1]
      BY Zenon, <2>2, IdOrder
    <3>3. /\ cursors[e.stream][1] \in Nat /\ cursors'[e.stream][1] \in Nat /\ e.id[1] \in Nat
      BY Zenon, <1>b, <2>2 DEF Id
    <3>4. PassedOver(e) => PassedOver(e)'
      BY <2>1, <3>2, <3>3 DEF PassedOver
    <3>5. DeliveredEntry(e) => DeliveredEntry(e)'
      BY Zenon, <2>1 DEF DeliveredEntry
    <3> QED  BY Zenon, <2>1, <3>1, <3>4, <3>5
  <2>4. CASE IdLess(cursors[e.stream], e.id)
    <3>1. e.stream = s
      <4>1. ASSUME e.stream # s PROVE FALSE
        <5>1. cursors'[e.stream] = cursors[e.stream]
          BY Zenon, <1>7, <1>b, <4>1, PollMovesOn
        <5> QED  BY Zenon, <1>b, <2>2, <2>4, <5>1, IdOrder
      <4> QED  BY Zenon, <4>1
    <3> QED  BY Zenon, <1>7, <2>1, <2>4, <3>1, PollReadsAll
  <2> QED  BY Zenon, <1>b, <2>2, <2>3, <2>4, IdOrder
<1>8. ASSUME UNCHANGED <<log, last, births>>, NEW d \in batch, Deliver(d)
      PROVE  DeliveredEntry(e)' \/ e \in batch' \/ PassedOver(e)'
  <2>1. Held
    BY Zenon, <1>8, <1>c DEF Deliver
  <2>2. /\ out \in Seq(Event) /\ out' = Append(out, [entry |-> d, index |-> part])
        /\ part \in Nat /\ UNCHANGED <<cursors, base>>
    BY Zenon, <1>8, <1>a DEF Deliver, TypeOK
  <2>3. /\ DOMAIN out \subseteq DOMAIN out' /\ \A i \in DOMAIN out : out'[i] = out[i]
        /\ Len(out) + 1 \in DOMAIN out'
        /\ out'[Len(out) + 1] = [entry |-> d, index |-> part]
    BY <2>2
  <2>4. CASE DeliveredEntry(e)
    BY Zenon, <2>3, <2>4 DEF DeliveredEntry
  <2>5. CASE PassedOver(e)
    BY Zenon, <2>2, <2>5 DEF PassedOver
  <2>6. CASE e \in batch
    <3>1. Decode(e.kind) \in Nat
      BY Zenon, <1>b, DecodeType DEF Entry
    <3>2. e \in batch' \/ (e = d /\ part + 1 = Decode(e.kind))
      BY Zenon, <1>8, <2>6 DEF Deliver
    <3>3. e = d /\ part + 1 = Decode(e.kind) => part = Decode(e.kind) - 1
      BY <2>2, <3>1
    <3> QED  BY Zenon, <2>3, <3>2, <3>3 DEF DeliveredEntry
  <2> QED  BY Zenon, <2>1, <2>4, <2>5, <2>6
<1>9. CASE Rerun
  BY Zenon, <1>9 DEF Rerun, NewProcess
<1>10. ASSUME UNCHANGED <<log, last, births>>,
              UNCHANGED <<covered, cursors, batch, part, seen, history>>
       PROVE  DeliveredEntry(e)' \/ e \in batch' \/ PassedOver(e)'
  BY Zenon, <1>10, <1>d
<1> QED
  BY Zenon, <1>1, <1>2, <1>3, <1>4, <1>5, <1>6, <1>7, <1>8, <1>9, <1>10, ServerFrame, ReaderFrame

-----------------------------------------------------------------------------
(* The theorems. *)

ConsumeInv ==
  /\ TypeInv /\ ServerInv /\ ProcessInv
  /\ DeliveryInv /\ SkipInv /\ NewOnlyInv /\ CheckpointInv

LEMMA ConsumeInvariant == Spec => []ConsumeInv
<1>1. Init => ConsumeInv
  BY Zenon, TypeInit, ServerInit, ProcessInit, DeliveryInit, SkipInit, NewOnlyInit, CheckpointInit
  DEF ConsumeInv
<1>2. ConsumeInv /\ [Next]_vars => ConsumeInv'
  <2>1. DeliveryInv => RoundInv
    BY Zenon DEF DeliveryInv
  <2>2. SkipInv => CursorInv
    BY Zenon DEF SkipInv
  <2> QED
    BY Zenon, <2>1, <2>2, TypeStep, ServerStepInv, ProcessStepInv, DeliveryStep, SkipStep, NewOnlyStep,
       CheckpointStep
    DEF ConsumeInv
<1> QED  BY <1>1, <1>2, PTL DEF Spec

\* Every variable of the module keeps its type through every step of the server,
\* of the consume process, of its failures and of its reruns.
THEOREM TypeCorrect == Spec => []TypeOK
<1>1. ConsumeInv => TypeOK
  BY Zenon DEF ConsumeInv, TypeInv
<1> QED  BY <1>1, ConsumeInvariant, PTL

\* Within one process no logical event is delivered twice, and the events of a
\* stream are delivered in the order of their entry ids and array positions.
THEOREM OrderCorrect == Spec => []InOrder
<1>1. ConsumeInv => InOrder
  BY Zenon DEF ConsumeInv, DeliveryInv
<1> QED  BY <1>1, ConsumeInvariant, PTL

\* What a stream retains at or before its cursor was delivered, is in the round
\* in hand, or was passed over by design: outages, trimming, deletion, late
\* discovery and --read-count never make the reader skip an entry.
THEOREM SkipCorrect == Spec => []NothingSkipped
<1>1. ConsumeInv => NothingSkipped
  BY Zenon DEF ConsumeInv, SkipInv
<1> QED  BY <1>1, ConsumeInvariant, PTL

\* A `$` reader delivers an entry that was there at its first discovery only from
\* a stream whose last_id query went unanswered or that it discovered later.
THEOREM OnlyNewCorrect == Spec => []OnlyNew
<1>1. ConsumeInv => OnlyNew
  BY Zenon DEF ConsumeInv, NewOnlyInv
<1> QED  BY <1>1, ConsumeInvariant, PTL

\* The checkpoint file is never torn, never counts an event that was not
\* delivered, and says done only once the process is over, through crashes and
\* failed writes at every step of write_consumer_checkpoint.
THEOREM CheckpointCorrect == Spec => []CheckpointHonest
<1>1. ConsumeInv => CheckpointHonest
  BY Zenon DEF ConsumeInv, CheckpointInv
<1> QED  BY <1>1, ConsumeInvariant, PTL

=============================================================================
