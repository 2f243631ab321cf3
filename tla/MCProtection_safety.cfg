SPECIFICATION SceneSpec
CONSTANTS
    x1 = x1
    Nothing = Nothing
    Tranches = {1, 2}
    Qty <- OneEach
    Exits = {x1}
    MaxProtectionFaults = 1
CONSTRAINTS
    Scenes
INVARIANTS
    ProtectionInv
PROPERTIES
    RearmOnlyNaked
CHECK_DEADLOCK FALSE
