------------------------------- MODULE Rounds -------------------------------
(***************************************************************************)
(* What the three synchronisation schemes of lab12es01 promise: a producer *)
(* hands its values one after the other to all consumers, each consumer    *)
(* works on every value once and in order, the next value is not read      *)
(* before everybody has worked on the last one, and all of them leave when *)
(* the values are finished.                                                *)
(***************************************************************************)
EXTENDS Integers, Sequences

CONSTANTS Consumer,
          Last  \* bound: the records of the file are 1, 2, ... up to Last

VARIABLES number,  \* the record read last, 0 before the first
          done,    \* the file is finished
          got,     \* the records each consumer has worked on
          left     \* the consumers that have ended

vars == <<number, done, got, left>>

Init == number = 0 /\ done = FALSE /\ got = [c \in Consumer |-> <<>>] /\ left = {}

AllDone == \A c \in Consumer : Len(got[c]) = number

Publish == ~done /\ number < Last /\ AllDone /\ number' = number + 1
           /\ UNCHANGED <<done, got, left>>

Finish  == ~done /\ AllDone /\ done' = TRUE /\ UNCHANGED <<number, got, left>>

Work(c) == /\ Len(got[c]) = number - 1
           /\ got' = [got EXCEPT ![c] = Append(@, number)]
           /\ UNCHANGED <<number, done, left>>

Leave(c) == done /\ c \notin left /\ left' = left \cup {c}
            /\ UNCHANGED <<number, done, got>>

Next == Publish \/ Finish \/ \E c \in Consumer : Work(c) \/ Leave(c)

Spec == Init /\ [][Next]_vars

=============================================================================
