SPECIFICATION FairSpec
CONSTANTS
    MaxOps = 2
    MaxTurns = 1
    MaxWrites = 1
    MaxMsgs = 0
    MaxAborts = 1
    MaxFails = 1
    Host = "eager"
    Structural = "yes"
INVARIANTS OneOperation
PROPERTIES OperationsEnd
CHECK_DEADLOCK FALSE
