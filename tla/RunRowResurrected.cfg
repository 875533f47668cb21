\* Finding: a terminal run whose row is running again.
CONSTANTS
    w1 = w1
    w2 = w2
    Workers <- MCWorkers
    Expected = 2
    MaxAborts = 0
    MaxSessions = 1
    MaxCrashes = 1
    MaxDrops = 0
    MaxRestarts = 0
SPECIFICATION FairSpec
PROPERTIES
    TerminalRunHasTerminalRow
CHECK_DEADLOCK FALSE
