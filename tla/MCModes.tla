------------------------------ MODULE MCModes -------------------------------
(* Instances of Dispatch for TLC that start in a worker mode or in "sync".     *)
(* The write-mode is read once, at load.  In "sync" no worker is started, and  *)
(* only the worker's steps look at Mode again, so one next-state relation      *)
(* serves both.                                                                *)
EXTENDS Dispatch, TLC

Sync == INSTANCE Dispatch WITH Mode <- "sync"

MCSpec == (Init \/ Sync!Init) /\ [][Next]_vars

=============================================================================
