SPECIFICATION Spec
CONSTANTS
  p1 = p1
  p2 = p2
  p3 = p3
  b1 = b1
  b2 = b2
  b3 = b3
  Proc <- MCProc
  NoProc = NoProc
  Home = {"a", "b"}
  Header = "h"
  Slot <- MCSlot
  NoSector = "none"
  Buf <- MCBuf
  NoBuf = NoBuf
  Content <- MCContent
INVARIANTS  NoLostWakeup NoCircularWait
PROPERTIES Implements
SYMMETRY Symmetry
