--------------------------- MODULE MCBufferCache ---------------------------
(* A transaction and two readers, as many buffers as they need. *)
EXTENDS BufferCache
CONSTANTS p1, p2, p3, b1, b2, b3
MCProc   == {p1, p2, p3}
MCBuf    == {b1, b2, b3}
MCSlot   == <<"l1", "l2">>
Symmetry == Permutations(MCBuf) \cup Permutations(MCProc)
MCContent == [s \in Sector |-> IF s = "a" THEN {0, 1} ELSE {0}]
=============================================================================
