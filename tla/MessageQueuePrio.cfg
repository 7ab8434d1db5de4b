SPECIFICATION FairSpec
CONSTANTS
  t1 = t1
  t2 = t2
  t3 = t3
  Thread = {t1, t2, t3}
  Slot = {s1}
  Msg = {m1}
  Timeout <- MCWait
  Flag = "PRIO"
  Prio <- MCPrio
  MayReset = FALSE
  MayDetach = TRUE
  NoSlot = NoSlot
  NoMsg = NoMsg
INVARIANTS WaitLists
PROPERTIES TimedCallReturns
CHECK_DEADLOCK FALSE
