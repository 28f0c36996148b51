-------------------------- MODULE MCSchedulerLeader --------------------------
(* Instances of SchedulerLeader for TLC. *)
EXTENDS SchedulerLeader

CONSTANTS i1, i2

TwoInstances == {i1, i2}
=============================================================================
