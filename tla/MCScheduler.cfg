SPECIFICATION Spec
CONSTANTS
  c1 = c1
  c2 = c2
  Nobody = Nobody
  CPU <- MCCPU
  NPROC = 4
  MaxKilled = 1
INVARIANTS OneStackOneCPU SchedNeverPanics NoLostWakeup ParentsAreWoken
SYMMETRY Symmetry
