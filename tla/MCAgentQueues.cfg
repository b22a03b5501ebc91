SPECIFICATION Spec
CONSTANTS
    MaxMsgs = 3
    MaxCalls = 1
    MaxToolTurns = 1
    MaxRuns = 2
    MaxResets = 0
    StopHook = "no"
INVARIANTS OrderedDelivery ContextIsTranscript
PROPERTIES NoSilentLoss
