---------------------------- MODULE MCQueueWorker ----------------------------
(* Instances of QueueWorker for TLC. *)
EXTENDS QueueWorker

CONSTANTS j1, j2, w1, w2

OneJob == {j1}
TwoJobs == {j1, j2}
TwoWorkers == {w1, w2}
None == {}
BothDrivers == {"memory", "redis"}
InMemory == {"memory"}
OnlyRedis == {"redis"}
TwoInMemory == [memory |-> TwoJobs, redis |-> OneJob]
OneInRedis == [redis |-> OneJob]
AllFaults == {"crash", "start", "enqueue"}
=============================================================================
