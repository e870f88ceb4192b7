------------------------------- MODULE MCConsume -------------------------------
(* Instances of Consume for TLC.                                              *)
EXTENDS Consume, TLC

CONSTANTS n1, n2, s1, s2, ctl

MCHome == s1 :> n1 @@ s2 :> n2 @@ ctl :> n1

\* The control stream's entries do not decode as events.
MCFormats ==
  ({s1, s2} \X {"fixed", "batch"}) \cup {<<s2, "bad">>, <<ctl, "bad">>}

\* On a cluster: `--from 0`, and the default `--from $` with --idle-exit-ms.  On a
\* standalone master: `--from 0 --count 2`.
MCOptions ==
  {[fromZero |-> TRUE, count |-> NoLimit, idleExit |-> FALSE, cluster |-> TRUE],
   [fromZero |-> FALSE, count |-> NoLimit, idleExit |-> TRUE, cluster |-> TRUE],
   [fromZero |-> TRUE, count |-> 2, idleExit |-> FALSE, cluster |-> FALSE]}
=============================================================================
