SPECIFICATION Spec
CONSTANTS
    t1 = t1
    t2 = t2
    t3 = t3
    a = a
    b = b
    Thread = {t1, t2, t3}
    Bit = {a, b}
    Request <- MCRequest
    Prio <- MCPrio
    Flag = "PRIO"
    MayDetach = TRUE
INVARIANTS
    NoLostWakeup
    WaitersAreListed
PROPERTIES
    UrgentFirst
    ServesCallers
CHECK_DEADLOCK FALSE
