SPECIFICATION Spec
CONSTANTS
    p = p
    o = o
    q = q
    Timers = {p, o, q}
    Root = Root
    Periodic = {p}
    InitTick <- MCInitTick
    Ticks = 16
    Lag = 2
    Pause = 1
    Callers = {"callback", "preempting", "below"}
    Starters <- MCOne
    MaxCalls = 3
CHECK_DEADLOCK FALSE
INVARIANTS
    ListIsSound
    InOrder
PROPERTIES
    NeverEarly
