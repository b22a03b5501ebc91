SPECIFICATION FairSpec
CONSTANTS
    MaxCalls = 1
    MaxServers = 2
    MaxFaults = 1
    MaxTasks = 7
INVARIANTS
    ConnectedHasStream
PROPERTIES
    DeathNoticed
    EverythingEnds
CHECK_DEADLOCK FALSE
