SPECIFICATION FairOperatorSpec
CONSTANTS
    pause = pause
    resume = resume
    arm = arm
    flat = flat
    h1 = h1
    h2 = h2
    x1 = x1
    None = None
    Nothing = Nothing
    Controls = {flat}
    Command <- FlattenOwn
    Handlers = {h1, h2}
    Starts = {"armed"}
    MaxFaults = 2
    Tranches = {1}
    Qty <- TwoOnly
    Exits = {x1}
    MaxProtectionFaults = 1
INVARIANTS
    ExitAtMostOnce
PROPERTIES
    EveryControlDecided
    WaitingFlattenEnds
    NakedBlocksEntries
    NakedIsFlattened
    FlatIsSwept
CHECK_DEADLOCK FALSE
