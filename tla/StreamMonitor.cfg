SPECIFICATION FairSpec
CONSTANTS
    StreamNames <- MCStreams
    LevelsOf <- MCLevels
    SeedCount = 2
    ReadCount = 1
    Window = 0
    MaxEntries = 3
    MaxClock = 1
    MaxFaults = 1
INVARIANTS
    AppliedInOrder
    ErrorsShown
    DashboardCurrent
PROPERTIES
    EntriesReach
CHECK_DEADLOCK FALSE
