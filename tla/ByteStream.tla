----------------------------- MODULE ByteStream -----------------------------
(***************************************************************************)
(* What a pipe promises: the bytes come out once each, in the order in     *)
(* which they went in, at most Size of them are under way, and nothing     *)
(* goes in once the write end is closed.                                   *)
(***************************************************************************)
EXTENDS Integers, Sequences

CONSTANTS Byte, Size

VARIABLES queue,  \* the bytes under way
          open,   \* somebody can still write
          taken   \* the byte read last

vars == <<queue, open, taken>>

Init == queue = <<>> /\ open = TRUE /\ taken \in Byte

Put(b) == /\ open /\ Len(queue) < Size /\ queue' = Append(queue, b)
          /\ UNCHANGED <<open, taken>>

Take == /\ queue # <<>> /\ taken' = Head(queue) /\ queue' = Tail(queue)
        /\ UNCHANGED open

Close == open' = FALSE /\ UNCHANGED <<queue, taken>>

\* a new pipe in the place of one that nobody can write to
Renew == ~open /\ queue' = <<>> /\ open' = TRUE /\ UNCHANGED taken

Next == (\E b \in Byte : Put(b)) \/ Take \/ Close \/ Renew

Spec == Init /\ [][Next]_vars
=============================================================================
