---------------------------- MODULE BarrierSort ----------------------------
(***************************************************************************)
(* lab04/lab4.2.c: threads that sort an array together.  Each sorts its    *)
(* own region; the last one to finish swaps across the boundaries of the   *)
(* regions; and they all repeat this until a turn needs no swap.  Two      *)
(* barriers, made of a counter under a mutex and a semaphore each, keep    *)
(* the threads in the same turn.                                           *)
(***************************************************************************)
EXTENDS Integers, FiniteSets

CONSTANTS nthreads,
          Size,    \* the elements of a region: at least 2, so that a swap at
                   \* one boundary has nothing to do with another
          Element  \* the values in the array

SortAssumption == nthreads \in Nat \ {0} /\ Size \in Nat \ {0, 1} /\ Element \subseteq Int

VARIABLES vet,                    \* the array
          runningThreadsSorting,
          sem1, sem2,
          swapsCount,
          at,                     \* where each thread is
          posts                   \* the sem_post() calls that it still has to make

shared == <<vet, runningThreadsSorting, sem1, sem2, swapsCount>>
vars   == <<shared, at, posts>>

Thread     == 1..nthreads
Index      == 1..nthreads * Size
Region(t)  == (t - 1) * Size + 1 .. t * Size
Boundaries == {t * Size : t \in 1..nthreads - 1}  \* the last index of a region

Goto(t, l) == at' = [at EXCEPT ![t] = l]

Init ==
  /\ vet \in [Index -> Element]
  /\ runningThreadsSorting = nthreads /\ sem1 = 0 /\ sem2 = 0 /\ swapsCount = 0
  /\ at = [t \in Thread |-> "sorts"] /\ posts = [t \in Thread |-> 0]

-----------------------------------------------------------------------------
(* threadFunction *)

\* what the sorted region has at its i-th place
Ranked(t, i) ==
  LET upTo(x) == Cardinality({j \in Region(t) : vet[j] <= x})
      least   == {x \in {vet[j] : j \in Region(t)} : upTo(x) >= i - (t - 1) * Size}
  IN  CHOOSE x \in least : \A y \in least : x <= y

BubbleSort(t) ==
  /\ at[t] = "sorts" /\ Goto(t, "arrives")
  /\ vet' = [i \in Index |-> IF i \in Region(t) THEN Ranked(t, i) ELSE vet[i]]
  /\ UNCHANGED <<runningThreadsSorting, sem1, sem2, swapsCount, posts>>

\* the first barrier: the last thread to arrive goes on
Arrive(t) ==
  /\ at[t] = "arrives" /\ runningThreadsSorting' = runningThreadsSorting - 1
  /\ Goto(t, IF runningThreadsSorting' = 0 THEN "swaps" ELSE "waits1")
  /\ UNCHANGED <<vet, sem1, sem2, swapsCount, posts>>

Swap(t) ==
  LET wrong == {b \in Boundaries : vet[b] > vet[b + 1]}
  IN  /\ at[t] = "swaps"
      /\ vet' = [i \in Index |-> CASE i \in wrong     -> vet[i + 1]
                                   [] i - 1 \in wrong -> vet[i - 1]
                                   [] OTHER           -> vet[i]]
      /\ swapsCount' = Cardinality(wrong)
      /\ Goto(t, "waits1") /\ posts' = [posts EXCEPT ![t] = nthreads]
      /\ UNCHANGED <<runningThreadsSorting, sem1, sem2>>

\* one of the nthreads posts of either barrier
Post1(t) ==
  /\ at[t] = "waits1" /\ posts[t] > 0 /\ posts' = [posts EXCEPT ![t] = @ - 1]
  /\ sem1' = sem1 + 1
  /\ UNCHANGED <<vet, runningThreadsSorting, sem2, swapsCount, at>>

Post2(t) ==
  /\ at[t] = "waits2" /\ posts[t] > 0 /\ posts' = [posts EXCEPT ![t] = @ - 1]
  /\ sem2' = sem2 + 1
  /\ UNCHANGED <<vet, runningThreadsSorting, sem1, swapsCount, at>>

Wait1(t) ==
  /\ at[t] = "waits1" /\ posts[t] = 0 /\ sem1 > 0 /\ sem1' = sem1 - 1 /\ Goto(t, "leaves")
  /\ UNCHANGED <<vet, runningThreadsSorting, sem2, swapsCount, posts>>

\* without the second barrier
Leave_Goes(t) ==
  /\ at[t] = "leaves" /\ runningThreadsSorting' = runningThreadsSorting + 1 /\ Goto(t, "tests")
  /\ UNCHANGED <<vet, sem1, sem2, swapsCount, posts>>

\* the second barrier: the last thread to leave the first one opens it
Leave(t) ==
  /\ at[t] = "leaves" /\ runningThreadsSorting' = runningThreadsSorting + 1 /\ Goto(t, "waits2")
  /\ posts' = [posts EXCEPT ![t] = IF runningThreadsSorting' = nthreads THEN nthreads ELSE 0]
  /\ UNCHANGED <<vet, sem1, sem2, swapsCount>>

Wait2(t) ==
  /\ at[t] = "waits2" /\ posts[t] = 0 /\ sem2 > 0 /\ sem2' = sem2 - 1 /\ Goto(t, "tests")
  /\ UNCHANGED <<vet, runningThreadsSorting, sem1, swapsCount, posts>>

\* while (swapsCount)
Test(t) ==
  /\ at[t] = "tests" /\ Goto(t, IF swapsCount > 0 THEN "sorts" ELSE "ends")
  /\ UNCHANGED <<shared, posts>>

Step(t) == \/ BubbleSort(t) \/ Arrive(t) \/ Swap(t) \/ Post1(t) \/ Wait1(t)
           \/ Leave(t) \/ Post2(t) \/ Wait2(t) \/ Test(t)

Next == \E t \in Thread : Step(t)
Spec == Init /\ [][Next]_vars
Fairness == \A t \in Thread : WF_vars(Step(t))
-----------------------------------------------------------------------------
Sorted == \A i \in Index \ {nthreads * Size} : vet[i] <= vet[i + 1]

\* Nobody works on the array while the last thread swaps, nobody leaves while
\* another goes on for a turn, and what they leave behind is sorted.
InTheSameTurn ==
  /\ \A t, u \in Thread : t # u /\ at[t] = "swaps" => at[u] = "waits1"
  /\ (\E t \in Thread : at[t] = "ends") =>
       /\ \A t \in Thread : at[t] \in {"waits2", "tests", "ends"}
       /\ Sorted /\ swapsCount = 0

AllEnd == \A t \in Thread : at[t] = "ends"
=============================================================================
