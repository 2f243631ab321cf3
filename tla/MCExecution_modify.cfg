SPECIFICATION Spec
CONSTANTS
    e1 = e1
    e2 = e2
    f1 = f1
    r1 = r1
    m1 = m1
    x1 = x1
    b1 = b1
    b2 = b2
    None = None
    Intents = {e1, m1}
    Kind <- KindEntryModify
    FlattenId <- NoFlatten
    Bodies = {b1, b2}
    MaxFaults = 1
CONSTRAINT KnownFirst
INVARIANTS
    RefusalIsFinal
PROPERTIES
    ImplementsSubmitOnce
