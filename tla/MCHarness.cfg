SPECIFICATION Spec
CONSTANTS
    MaxOps = 2
    MaxTurns = 1
    MaxWrites = 2
    MaxMsgs = 1
    MaxAborts = 1
    MaxFails = 2
    Host = "serial"
    Structural = "no"
INVARIANTS WritesOnce NothingLeftByLoops WritesBetweenTurns MessagesKept
CHECK_DEADLOCK FALSE
