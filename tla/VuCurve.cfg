\* Two VUs, all three ramp-down modes; a cap of two ticks, and a run long
\* enough to retire a VU, reach it again and retire it once more.
CONSTANTS
    MaxVus = 2
    Cap = 2
    Duration = 4
SPECIFICATION FairSpec
INVARIANTS
    TypeOK
    NoneOutlivesItsRetirement
    CountsAreTrue
PROPERTIES
    CapIsGranted
    RunEnds
CHECK_DEADLOCK FALSE
