SPECIFICATION FairSpec
CONSTANTS
  p1 = p1
  p2 = p2
  p3 = p3
  Proc <- MCProc
  Sector = {"a", "b", "c"}
  Value = {0, 1}
  LOGSIZE = 2
INVARIANTS OneTransaction NoLostWakeup ReadsSeeWrites
PROPERTIES IsTransactional Settles
