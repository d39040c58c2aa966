---------------------------- MODULE MCScheduler ----------------------------
(***************************************************************************)
(* Instances of Scheduler for model checking.                              *)
(***************************************************************************)
EXTENDS Scheduler

CONSTANTS v1, v2, main

OneVM  == {v1}
TwoVMs == {v1, v2}
NoVM   == {}

NoCode    == {}
UserOnly  == {"user"}
EveryCode == {"user", "empty", "broken"}

=============================================================================
