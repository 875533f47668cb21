CONSTANTS
    Capacity = 1
    LinkCap = 1
    MaxRecords = 2
    MaxSecond = 2
    MaxBreaks = 1
    MaxDbErrors = 1
    Actors = {1, 2}
    Deadline = 2
    RowCounts = {0, 1, 3}
    Schedules <- MCSchedules
    Ramps = {0, 1, 3}
    MaxPanics = 1
    Workers = {1, 2}
    Bindings <- MCBindings
    Batch = 2
    ChanCap = 1
    MaxFaults = 1
SPECIFICATION MCSpec
INVARIANTS
    TypesOK
    CompletedRunIsFullyStored
    SlotsAndRowsAreHeldOnce
    VerdictIsTrue
    NoEngineOnPartialData
PROPERTIES
    NothingWaitsForEver
CHECK_DEADLOCK FALSE
