------------------------------ MODULE MCPipe ------------------------------
EXTENDS Pipe, TLC
CONSTANTS p1, p2, p3
MCProc == {p1, p2, p3}
Symmetry == Permutations(MCProc)
=============================================================================
