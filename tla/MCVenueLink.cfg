SPECIFICATION LinkSpec
CONSTANTS
    \* HubRecovery
    MaxHubFaults = 2
    MaxSleepers = 2
    \* Rest
    Calls = {"retrieveBars", "place"}
    MaxConcurrent = 1
    MaxAttempts = 2
    FailureThreshold = 2
    Cooldown = 2
    MaxRestFaults = 2
    \* Evidence
    Keys <- Quotes
    HighWater = 2
    CoalesceAt = 1
    LowWater = 0
    BatchSize = 2
    LoadLimit = 2
    DrainLimit = 2
    MaxEvents = 3
    MaxEvidenceFaults = 2
    MaxCrashes = 1
INVARIANTS
    HubInv
    RestInv
    EvidenceInv
PROPERTIES
    HubsComeBack
    CriticalCallsReturn
    AppliedInOrder
    QueueEnds
CHECK_DEADLOCK FALSE
