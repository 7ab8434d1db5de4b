SPECIFICATION Spec
CONSTANTS
    p = p
    o = o
    q = q
    Timers = {q}
    Root = Root
    Periodic = {q}
    InitTick <- MCInitTick
    Ticks = 16
    Lag = 2
    Pause = 1
    Callers = {"below", "preempting"}
    Starters <- MCOne
    MaxCalls = 3
CHECK_DEADLOCK FALSE
INVARIANTS
    StateIsTrue
