SPECIFICATION Spec
CONSTANTS
    KeepRecent = 2
    Weight <- Weights
    MaxEntries = 4
    MaxDisturbances = 1
INVARIANTS ReopenIsMemory ResultsHaveCalls CompactionBounded ForkKeepsContextButForLabels
PROPERTY ImplementsTree
CHECK_DEADLOCK FALSE
