------------------------- MODULE MCScheduleRunner -------------------------
(* Instances of ScheduleRunner for TLC. *)
EXTENDS ScheduleRunner

CONSTANTS s1, s2

Cfg(e, r, p, b) == [enabled |-> e, runOnStart |-> r, repeats |-> p, backoff |-> b]

Interval   == Cfg(TRUE, FALSE, TRUE, FALSE)
OnStart    == Cfg(TRUE, TRUE, TRUE, TRUE)
ManualOnly == Cfg(TRUE, FALSE, FALSE, FALSE)
RetryOnly  == Cfg(TRUE, TRUE, FALSE, TRUE)
Disabled   == Cfg(FALSE, FALSE, TRUE, FALSE)

OneSchedule == {s1}
TwoSchedules == {s1, s2}
AllConfigs == {Interval, OnStart, ManualOnly, RetryOnly, Disabled}
NoNames == {}
=============================================================================
