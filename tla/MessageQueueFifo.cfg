SPECIFICATION Spec
CONSTANTS
  t1 = t1
  t2 = t2
  t3 = t3
  Thread = {t1, t2, t3}
  Slot = {s1, s2}
  Msg = {m1, m2}
  Timeout <- MCTimeout
  Flag = "FIFO"
  Prio <- MCPrio
  MayReset = TRUE
  MayDetach = FALSE
  NoSlot = NoSlot
  NoMsg = NoMsg
SYMMETRY Symmetry
INVARIANTS PoolConserved NoLostWakeup NoMutualWait
PROPERTIES WakesForReason ImplementsQueueService
CHECK_DEADLOCK FALSE
