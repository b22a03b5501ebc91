SPECIFICATION FairSpec
CONSTANTS
    p1 = p1
    p2 = p2
    Processes = {p1, p2}
    MaxSets = 1
    MaxRefreshes = 2
    MaxFaults = 1
INVARIANTS
    TokensUsedOnce
    ChangesKept
    TokenKept
PROPERTY EverythingEnds
CHECK_DEADLOCK FALSE
