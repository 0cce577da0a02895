------------------------------- MODULE MCLog -------------------------------
EXTENDS Log
CONSTANTS p1, p2, p3
MCProc == {p1, p2, p3}
=============================================================================
