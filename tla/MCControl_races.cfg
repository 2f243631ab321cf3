SPECIFICATION Spec
CONSTANTS
    pause = pause
    resume = resume
    arm = arm
    flat = flat
    h1 = h1
    h2 = h2
    None = None
    Controls = {pause, resume, arm, flat}
    Command <- FlattenOwn
    Handlers = {h1, h2}
    Starts = {"disabled", "shadow", "armed"}
    MaxFaults = 1
CONSTRAINT FlattenAlone
SYMMETRY HandlerSymmetry
INVARIANTS
    NeverArmedBeyondStart
    LastPauseHolds
PROPERTIES
    DecidedStaysDecided
