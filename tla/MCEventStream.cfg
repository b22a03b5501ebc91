SPECIFICATION StreamFairSpec
CONSTANTS
    Consumers = {c1, c2, c3}
    MaxPushes = 3
INVARIANTS EachEventOnce NoLostWakeup CompletionIsFinal
PROPERTIES EndReleases
CHECK_DEADLOCK FALSE
