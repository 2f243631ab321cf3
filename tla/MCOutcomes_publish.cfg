SPECIFICATION OutcomesSpec
CONSTANTS
    MaxIntents = 2
    SearchTail = 1
    Proven = {2}
    MaxOutcomeFaults = 1
    MaxCrashes = 1
CONSTRAINT OneMishap
INVARIANTS
    OutcomesInv
PROPERTIES
    RevisionsKeepFills
CHECK_DEADLOCK FALSE
