SPECIFICATION Spec
CONSTANTS
  p1 = p1
  p2 = p2
  p3 = p3
  Proc <- MCProc
  Nobody = Nobody
  Byte = {0, 1}
  PIPESIZE = 2
  Width = 4
  MaxCall = 3
  MaxKills = 1
INVARIANTS NoLostWakeup NoUseAfterFree
PROPERTY IsByteStream
SYMMETRY Symmetry
CHECK_DEADLOCK FALSE
