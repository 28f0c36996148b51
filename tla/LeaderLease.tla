----------------------------- MODULE LeaderLease -----------------------------
(***************************************************************************)
(* What leader gating of the scheduler promises: an instance is elected    *)
(* only while nobody leads, and leadership is given up before it can be    *)
(* taken again.  SchedulerLeader is shown to implement it.                 *)
(***************************************************************************)
CONSTANT Instances \* processes

VARIABLE leaders   \* the instances that lead

Init == leaders = {}

Elect(i) == leaders = {} /\ leaders' = {i}

Resign == leaders # {} /\ leaders' = {}

Next == Resign \/ \E i \in Instances : Elect(i)

Spec == Init /\ [][Next]_leaders
=============================================================================
