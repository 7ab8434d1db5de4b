SPECIFICATION Spec
CONSTANTS
    p = p
    o = o
    Timers = {p, o}
    Root = Root
    Periodic = {p}
    InitTick <- MCInitTick
    Ticks = 16
    Lag = 2
    Pause = 1
    Callers = {"below", "callback"}
    Starters <- MCAny
    MaxCalls = 3
CHECK_DEADLOCK FALSE
INVARIANTS
    ListIsSound
