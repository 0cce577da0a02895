SPECIFICATION Spec
CONSTANTS
  p1 = p1
  p2 = p2
  Proc <- MCProc
  NoProc = NoProc
  Inum = {1, 2, 3}
  Block = {1, 2, 3}
  Name = {"a", "b"}
  Path <- MCPath
  Calls <- MCCalls
INVARIANT WritesInTransactions
CHECK_DEADLOCK FALSE
