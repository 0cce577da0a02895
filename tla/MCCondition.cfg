SPECIFICATION FairSpec
CONSTANTS
  p1 = p1
  p2 = p2
  p3 = p3
  p4 = p4
  Proc <- MCProc
  Values = {0, 1}
  Disciplined = TRUE
INVARIANTS MutexInv TokenInv NoLostWakeup
PROPERTIES TokensAreUsed MutexIsTaken
