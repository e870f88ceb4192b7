------------------------------ MODULE Boundaries ------------------------------
(***************************************************************************)
(* The client's reading of the control stream: assess_restart_boundaries   *)
(* infers from the markers how one generation of the module followed the   *)
(* other.  It is applied here to what Markers really writes, so the        *)
(* consumer's rule is checked against the module's life cycle.             *)
(***************************************************************************)
EXTENDS Markers

\* The control entries since the last flush (SWAPDB, which exchanges the control stream
\* for another, is left out of the instances), in the order of their ids.
ControlStream ==
  LET flushes == {i \in DOMAIN log : Is(i, "flush")}
      kept    == {i \in DOMAIN log : \A f \in flushes : f < i}
      control == {i \in kept : log[i].item.kind \in {"marker", "checkpoint"}}
  IN  [n \in 1..Cardinality(control) |->
         log[CHOOSE i \in control : Cardinality({j \in control : j <= i}) = n]]

(***************************************************************************)
(* read_gap_markers sorts what it has read by id, as text: milliseconds    *)
(* are of one width, but within a millisecond 10 sorts ahead of 2 to 9.    *)
(* Here the first p entries read have one digit, and those up to q, of the *)
(* same millisecond, have two.                                             *)
(***************************************************************************)
SortedAsText(cs, p, q) ==
  SubSeq(cs, p + 1, q) \o SubSeq(cs, 1, p) \o SubSeq(cs, q + 1, Len(cs))

Action(m) == IF m.item.kind = "marker" THEN m.item.action ELSE "checkpoint"

\* The state kept per control stream, and the boundaries found so far.
Unread == [gen |-> 0, closed |-> FALSE, out |-> <<>>]

Boundary(st, m) == [previous |-> st.gen, gen |-> m.gen,
                    kind |-> IF st.closed THEN "graceful" ELSE "uncertain"]

\* Mutant: the state moves on to the new generation before it is judged.
AssessLate(st, m) ==
  LET new == st.gen # 0 /\ st.gen # m.gen
      fresh == [st EXCEPT !.closed = IF new THEN FALSE ELSE @]
  IN  [gen    |-> m.gen,
       closed |-> fresh.closed \/ Action(m) = "unloading",
       out    |-> IF new /\ Action(m) = "loaded"
                    THEN Append(st.out, Boundary(fresh, m)) ELSE st.out]

\* One marker of the loop in assess_restart_boundaries.
Assess(st, m) ==
  LET new == st.gen # 0 /\ st.gen # m.gen
  IN  [gen    |-> m.gen,
       closed |-> (st.closed /\ ~new) \/ Action(m) = "unloading",
       out    |-> IF new /\ Action(m) = "loaded"
                    THEN Append(st.out, Boundary(st, m)) ELSE st.out]

RestartBoundaries(markers) ==
  LET st[n \in 0..Len(markers)] ==
        IF n = 0 THEN Unread ELSE Assess(st[n - 1], markers[n])
  IN  st[Len(markers)].out

Closed(cs, g) == \E i \in DOMAIN cs : cs[i].gen = g /\ Action(cs[i]) = "unloading"

\* What a consumer that reads between commands and classifies restarts may rely on.  It
\* never takes a restart for graceful unless the closing marker of the generation before
\* is on the stream, however the sort by id as text has shuffled one millisecond.  Where
\* that sort keeps the order of the ids the reading is exact: every reload it can see is
\* found once, and is graceful exactly if the generation before was closed.
BoundariesHonest ==
  at \in {"idle", "unloaded"} =>
    LET cs    == ControlStream
        exact == RestartBoundaries(cs)
    IN  /\ \A p, q \in 1..Len(cs) :
             p < q =>
               LET out == RestartBoundaries(SortedAsText(cs, p, q))
               IN  \A b \in DOMAIN out :
                     out[b].kind = "graceful" => Closed(cs, out[b].previous)
        /\ \A b \in DOMAIN exact :
             /\ exact[b].previous < exact[b].gen
             /\ exact[b].kind = "graceful" <=> Closed(cs, exact[b].previous)
        /\ \A j \in DOMAIN cs :
             (Action(cs[j]) = "loaded" /\ \E i \in 1..j : cs[i].gen # cs[j].gen) =>
               Cardinality({b \in DOMAIN exact : exact[b].gen = cs[j].gen}) = 1
=============================================================================
