SPECIFICATION Spec
CONSTANTS
  t1 = t1
  t2 = t2
  t3 = t3
  Thread = {t1, t2, t3}
  Slot = {s1}
  Msg = {m1}
  Timeout <- MCTimeout
  Flag = "FIFO"
  Prio <- MCPrio
  MayReset = FALSE
  MayDetach = TRUE
  NoSlot = NoSlot
  NoMsg = NoMsg
SYMMETRY Symmetry
INVARIANTS NeverHalts
CHECK_DEADLOCK FALSE
