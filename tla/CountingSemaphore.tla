------------------------- MODULE CountingSemaphore -------------------------
(***************************************************************************)
(* What a counting semaphore promises its users: a call of sem_wait asks   *)
(* for a permit and returns when it is granted one, a call of sem_post     *)
(* makes one more permit available, and every permit is granted once.      *)
(* Nothing is said about who is served first.                              *)
(***************************************************************************)
EXTENDS Naturals

CONSTANTS Proc, InitCount

VARIABLES permits,  \* permits nobody has been granted
          waiting   \* the processes inside sem_wait

vars == <<permits, waiting>>

Init == permits = InitCount /\ waiting = {}

Ask(p) ==
  /\ p \notin waiting
  /\ waiting' = waiting \cup {p}
  /\ UNCHANGED permits

Grant(p) ==
  /\ p \in waiting /\ permits > 0
  /\ waiting' = waiting \ {p}
  /\ permits' = permits - 1

Release(p) ==
  /\ p \notin waiting
  /\ permits' = permits + 1
  /\ UNCHANGED waiting

Next == \E p \in Proc : Ask(p) \/ Grant(p) \/ Release(p)

Spec == Init /\ [][Next]_vars

\* A permit and a process that wants one find each other.
FairSpec == Spec /\ WF_vars(\E p \in Proc : Grant(p))
=============================================================================
