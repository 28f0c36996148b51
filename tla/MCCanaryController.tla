------------------------ MODULE MCCanaryController ------------------------
(* Instances of CanaryController for TLC. *)
EXTENDS CanaryController

CONSTANTS v2, c1, c2

OnlyCanary == {v2}
OneCall == {c1}
TwoCalls == {c1, c2}
=============================================================================
