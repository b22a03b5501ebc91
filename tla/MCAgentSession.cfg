SPECIFICATION FairSpec
CONSTANTS
    Prompts = 1
    MaxRetries = 1
    Budget = 5
    ToolTurns = 1
    Overlap = "no"
INVARIANTS
    AttemptsBounded
    ResultsFollowCalls
    BashKept
    ContextIsSession
PROPERTY EverythingEnds
CHECK_DEADLOCK FALSE
