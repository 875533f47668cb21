\* Finding: the end of a session a worker has left removes its new entry.
CONSTANTS
    w1 = w1
    w2 = w2
    r1 = r1
    r2 = r2
    Workers <- MCWorkers
    Runs <- MCRuns
    WorkerCap = 2
    MaxSessions = 2
    MaxExcludes = 0
    MaxAborts = 0
    MaxBreaks = 0
SPECIFICATION Spec
INVARIANTS
    WaitingWorkerIsInPool
CHECK_DEADLOCK FALSE
