\* Finding: a launch given up half way keeps its other workers reserved.
CONSTANTS
    w1 = w1
    w2 = w2
    r1 = r1
    r2 = r2
    Workers <- MCWorkers
    Runs <- MCRuns
    WorkerCap = 2
    MaxSessions = 1
    MaxExcludes = 0
    MaxAborts = 0
    MaxBreaks = 0
SPECIFICATION FairSpec
PROPERTIES
    FailedLaunchFreesWorkers
CHECK_DEADLOCK FALSE
