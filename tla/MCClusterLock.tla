---------------------------- MODULE MCClusterLock ----------------------------
(* Instances of ClusterLock for TLC. *)
EXTENDS ClusterLock

CONSTANTS p1, p2

\* in ticks of 10 s
AMinute == {6}

TwoProcs == {p1, p2}
AllButRelease == {"acquire", "beat", "force", "crash"}
=============================================================================
