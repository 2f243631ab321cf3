SPECIFICATION Spec
CONSTANTS
    e1 = e1
    e2 = e2
    f1 = f1
    r1 = r1
    m1 = m1
    x1 = x1
    b1 = b1
    b2 = b2
    None = None
    Intents = {e1, e2}
    Kind <- KindTwoEntries
    FlattenId <- NoFlatten
    Bodies = {b1}
    MaxFaults = 1
SYMMETRY EntrySymmetry
INVARIANTS
    TypeOK
    OneUncertainEntry
    UncertainEntryBlocks
