---------------------------- MODULE MCCondition ----------------------------
(* Four processes that call the functions of one condition in any order.    *)
EXTENDS Condition

CONSTANTS p1, p2, p3, p4

MCProc == {p1, p2, p3, p4}
=============================================================================
