\* A connection breaks and the worker reconnects, or a user aborts and a
\* worker dies; the controller may restart.
\* The run may end in a quiet state: no deadlock check.
CONSTANTS
    w1 = w1
    w2 = w2
    Workers <- MCWorkers
    Expected = 2
    MaxAborts = 1
    MaxSessions = 2
    MaxCrashes = 1
    MaxDrops = 1
    MaxRestarts = 1
SPECIFICATION Spec
CONSTRAINT OneFamilyOfFaults
SYMMETRY WorkerSymmetry
INVARIANTS
    TypeOK
    CompletedCoversAllShards
    NoSharedShard
    AtMostOneFinalizer
PROPERTIES
    ImplementsRunOutcome
    AbortedRowStays
CHECK_DEADLOCK FALSE
