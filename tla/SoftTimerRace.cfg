SPECIFICATION Spec
CONSTANTS
    p = p
    o = o
    Timers = {p, o}
    Root = Root
    Periodic = {p}
    InitTick <- MCInitTick
    Ticks = 16
    Lag = 2
    Pause = 1
    Callers = {"below", "preempting"}
    Starters <- MCAny
    MaxCalls = 2
CHECK_DEADLOCK FALSE
INVARIANTS
    SleepsInTime
