\* Finding: a shard handed out after the abort.
CONSTANTS
    w1 = w1
    w2 = w2
    Workers <- MCWorkers
    Expected = 2
    MaxAborts = 1
    MaxSessions = 1
    MaxCrashes = 0
    MaxDrops = 0
    MaxRestarts = 0
SPECIFICATION Spec
PROPERTIES
    NoShardAfterAbort
CHECK_DEADLOCK FALSE
