---------------------------- MODULE MCScheduler ----------------------------
EXTENDS Scheduler, TLC
CONSTANTS c1, c2
MCCPU == {c1, c2}
Symmetry == Permutations(MCCPU)
=============================================================================
