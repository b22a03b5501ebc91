SPECIFICATION FairSpec
CONSTANTS
    MaxMsgs = 2
    MaxCalls = 2
    MaxToolTurns = 1
    MaxRuns = 2
    MaxResets = 1
    StopHook = "yes"
INVARIANTS PendingCallsExact ResultsAnswerCalls
PROPERTIES RunSettles
