SPECIFICATION FairSpec
CONSTANTS
    Provider = "piper"
    MaxTexts = 4
    MaxWorkers = 5
    MaxKills = 2
    MaxCrashes = 2
INVARIANTS SlotIsOfLink AnswersAreOwn PlayedInOrder
PROPERTIES ChainSurvivesFailures
CHECK_DEADLOCK FALSE
