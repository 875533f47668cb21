\* The schedules: a PUT or a DELETE, and a restart, against the loop.  The
\* monitor: the reconcile of startup and one more, or two edits of a disabled
\* board, with a shutdown at any time; two units contend for one permit.  All
\* comes to rest when the clock and the users do.
CONSTANTS
    s1 = s1
    s2 = s2
    Schedules <- MCSchedules
    Period = 1
    MissGrace = 0
    MaxTime = 2
    MaxRuns = 2
    MaxEdits = 1
    MaxCrashes = 1
    b1 = b1
    p1 = p1
    p2 = p2
    k1 = k1
    k2 = k2
    Boards <- MCBoards
    Panels <- MCPanels
    Calls <- MCCalls
    MaxChecks = 1
SPECIFICATION MCSpec
INVARIANTS
    TypesOK
    NoOverlappingRuns
    SlotFiresOnce
    PanelsAreServedOnce
    BoardsSettle
PROPERTIES
    SlotsSettleInOrder
    ServicesMoveOn
CHECK_DEADLOCK FALSE
