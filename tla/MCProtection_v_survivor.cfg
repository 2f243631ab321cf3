SPECIFICATION SceneSpec
CONSTANTS
    x1 = x1
    Nothing = Nothing
    Tranches = {1, 2}
    Qty <- TwoAndOne
    Exits = {x1}
    MaxProtectionFaults = 0
PROPERTIES
    SurvivorsKeepTheirStop
CHECK_DEADLOCK FALSE
