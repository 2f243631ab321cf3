SPECIFICATION FairSpec
CONSTANTS
    e1 = e1
    e2 = e2
    f1 = f1
    r1 = r1
    m1 = m1
    x1 = x1
    b1 = b1
    b2 = b2
    None = None
    Intents = {e1, f1}
    Kind <- KindEntryFlatten
    FlattenId <- FlattenOf1
    Bodies = {b1}
    MaxFaults = 2
INVARIANTS
    SubmittedAtMostOnce
PROPERTIES
    EveryIntentAnswered
    AcceptedIsDiscovered
    LatchIsReleased
