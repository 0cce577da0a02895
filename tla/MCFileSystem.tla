---------------------------- MODULE MCFileSystem ----------------------------
(* One process makes, links and removes files; the other walks and removes. *)
EXTENDS FileSystem, TLC
CONSTANTS p1, p2
MCProc == {p1, p2}
Root == [abs |-> TRUE, elems |-> <<>>]
A    == [abs |-> TRUE, elems |-> <<"a">>]
AB   == [abs |-> TRUE, elems |-> <<"a", "b">>]
B    == [abs |-> FALSE, elems |-> <<"b">>]
Up   == [abs |-> FALSE, elems |-> <<"..">>]
MCPath == {Root, A, AB, B, Up}
MCCalls ==
  p1 :> {Create(A, "dir"), Create(A, "file"), Create(AB, "dir"),
         Unlink(A), Unlink(AB), Unlink(B), Link(A, B), Open(A), Write, Close} @@
  p2 :> {Chdir(Root), Chdir(A), Chdir(B), Chdir(Up), Unlink(A), Unlink(B), Create(B, "dir")}
=============================================================================
