SPECIFICATION FairSpec
CONSTANTS
    Provider = "piper"
    MaxTexts = 2
    MaxWorkers = 3
    MaxKills = 1
    MaxCrashes = 0
PROPERTIES ChainDrains
CHECK_DEADLOCK FALSE
