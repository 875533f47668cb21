\* Finding: a ramp longer than the startup grace hides a healthy run.
CONSTANTS
    w1 = w1
    w2 = w2
    r1 = r1
    r2 = r2
    Workers <- MCWorkers
    Runs <- MCRuns
    WorkerCap = 2
    MaxSessions = 1
    MaxExcludes = 0
    MaxAborts = 0
    MaxBreaks = 0
    MaxU32 = 5
    MaxWorkers = 1
    MaxCap = 3
    Profiles <- SlowRamps
    StartupFloor = 90
    Margin = 15
    BackstopGrace = 120
    FlushDelay = 3
    MaxOpenLoopWorkers = 3
    WorkerCapacity = 2000
    MaxPool = 1
    Requests = {1, 2}
    Intervals = {1, 2, 3}
    Timeouts = {2, 3, 4}
    Seeds <- MCSeeds
    MaxEdits = 3
    MaxStarts = 1
    Clients = {1, 2, 3}
    Asks <- MCAsks
    Worlds <- MCWorlds
    Files <- MCFiles
    scn = scn
    env1 = env1
    env2 = env2
    env3 = env3
    brd1 = brd1
    brd2 = brd2
    oldText = oldText
    newText = newText
SPECIFICATION MCSpec
INVARIANTS
    NoHealthyRunIsHung
CHECK_DEADLOCK FALSE
