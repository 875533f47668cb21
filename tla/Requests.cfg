\* The pool: two launches, an exclusion, a user abort and a broken connection,
\* in the first connection of each worker.  The shards: up to three workers and
\* numbers up to 5.  The profiles: MCProfiles.  The settings: two requests at a
\* time, three edits, a restart.  The catalogue: three clients with one request
\* each.  Everything may come to rest.
CONSTANTS
    w1 = w1
    w2 = w2
    r1 = r1
    r2 = r2
    Workers <- MCWorkers
    Runs <- MCRuns
    WorkerCap = 2
    MaxSessions = 1
    MaxExcludes = 1
    MaxAborts = 1
    MaxBreaks = 1
    MaxU32 = 5
    MaxWorkers = 3
    MaxCap = 3
    Profiles <- MCProfiles
    StartupFloor = 90
    Margin = 15
    BackstopGrace = 120
    FlushDelay = 3
    MaxOpenLoopWorkers = 3
    WorkerCapacity = 2
    MaxPool = 3
    Requests = {1, 2}
    Intervals = {1, 2, 3}
    Timeouts = {2, 3, 4}
    Seeds <- MCSeeds
    MaxEdits = 3
    MaxStarts = 1
    Clients = {1, 2, 3}
    Asks <- MCAsks
    Worlds <- MCWorlds
    Files <- MCFiles
    scn = scn
    env1 = env1
    env2 = env2
    env3 = env3
    brd1 = brd1
    brd2 = brd2
    oldText = oldText
    newText = newText
SPECIFICATION MCSpec
SYMMETRY PoolSymmetry
INVARIANTS
    TypesOK
    ReservationIsExclusive
    
    
    LoadIsAsPosted
    WatchdogSparesTheRun
    HeartbeatPairHolds
    DeletionsAreAnnounced
PROPERTIES
    EditsReplaceWhatWasSeen
    ImportsAreWhole
CHECK_DEADLOCK FALSE
