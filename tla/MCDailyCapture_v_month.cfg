SPECIFICATION CaptureSpec
CONSTANTS
    Hours = 4
    Days = 3
    Noon = 2
    Reset = 3
    MustFlat = 2
    EntryOpen = 1
    West = 2
    Spring = 0
    Trades = {"win", "loss"}
    Pnl <- WinAndLoss
    Objective = 1
    FirstHour = 10
    LastHour = 15
    MaxRestarts = 0
INVARIANT LockEarned
CHECK_DEADLOCK FALSE
