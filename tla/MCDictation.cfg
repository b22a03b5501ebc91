SPECIFICATION FairSpec
CONSTANTS
    MaxPresses = 4
    MaxWords = 2
    MaxFailures = 1
    MayDisable = "yes"
INVARIANTS MicIsShown OwnWords
PROPERTY PressEnds
CHECK_DEADLOCK FALSE
