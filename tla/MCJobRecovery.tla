---------------------------- MODULE MCJobRecovery ----------------------------
(* Instances of JobRecovery for TLC. *)
EXTENDS JobRecovery, TLC

CONSTANTS j1, j2, r1, r2

OneJob == {j1}
TwoJobs == {j1, j2}
OneRun == {r1}
TwoRuns == {r1, r2}
=============================================================================
