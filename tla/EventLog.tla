------------------------------ MODULE EventLog ------------------------------
(***************************************************************************)
(* What the dispatch layer promises, with the threads, the queue and the   *)
(* jobs left out: captured events are settled in notification order, each  *)
(* exactly once, and the module is not gone before all of them are         *)
(* settled.  SPEC.md section 9 states it: "exactly one" record per event   *)
(* and "logical events appear in exactly notification order"; an event     *)
(* that cannot be written is counted in EVENTS_LOST.                       *)
(***************************************************************************)
EXTENDS Integers

VARIABLES
  notified,   \* how many events were notified: they are 0 .. notified - 1
  written,    \* the ones that are in a stream
  counted,    \* the ones counted as lost
  closed      \* the module is unloaded

vars == <<notified, written, counted, closed>>

Init == notified = 0 /\ written = {} /\ counted = {} /\ closed = FALSE

Unsettled == (0 .. notified - 1) \ (written \cup counted)

\* A captured event is accepted, or at once counted as lost.
Notify ==
  /\ ~closed
  /\ notified' = notified + 1
  /\ counted' \in {counted, counted \cup {notified}}
  /\ UNCHANGED <<written, closed>>

\* The oldest unsettled events, as many as one stream entry holds, are written
\* or counted.
Settle ==
  /\ ~closed
  /\ \E es \in SUBSET Unsettled :
       /\ es # {}
       /\ \A e \in es : \A o \in Unsettled \ es : e < o
       /\ \/ written' = written \cup es /\ UNCHANGED counted
          \/ counted' = counted \cup es /\ UNCHANGED written
  /\ UNCHANGED <<notified, closed>>

Close ==
  /\ ~closed /\ Unsettled = {}
  /\ closed' = TRUE
  /\ UNCHANGED <<notified, written, counted>>

Next == Notify \/ Settle \/ Close

Spec == Init /\ [][Next]_vars
=============================================================================
