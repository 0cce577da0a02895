-------------------------- MODULE RoundsSemaphores --------------------------
(***************************************************************************)
(* Version A of lab12es01: a semaphore of maximum 1 for each consumer and  *)
(* one of maximum N for the producer, which waits N times for it.          *)
(* ReleaseSemaphore fails when the count would exceed the maximum.         *)
(***************************************************************************)
EXTENDS RoundsProgram

VARIABLES producerSem, consumerSems,
          i  \* the loop variable of producerSignal and producerWait

sems == <<producerSem, consumerSems>>
vars == <<common, sems, i>>

\* the consumers in the order of the array
Order == CHOOSE s \in [1..N -> Consumer] : \A c \in Consumer : \E k \in 1..N : s[k] = c

Init ==
  /\ InitProgram
  /\ producerSem = 0 /\ consumerSems = [c \in Consumer |-> 0] /\ i = 1

\* the end of each of the N iterations of a loop of main
Loop(next) ==
  /\ i' = IF i = N THEN 1 ELSE i + 1
  /\ PGoto(IF i = N THEN next ELSE ppc)

\* a failed release makes main (or the consumer) return an error
ProducerSignal ==
  /\ ppc = "signal"
  /\ IF consumerSems[Order[i]] < 1
     THEN /\ consumerSems' = [consumerSems EXCEPT ![Order[i]] = @ + 1]
          /\ Loop(AfterSignal)
     ELSE PGoto("failed") /\ UNCHANGED <<consumerSems, i>>
  /\ UNCHANGED <<number, done, got, cpc, producerSem>>

\* the producer waits for one consumer only
ProducerWait_Once ==
  /\ ppc = "wait" /\ producerSem > 0 /\ producerSem' = producerSem - 1
  /\ PGoto("read")
  /\ UNCHANGED <<number, done, got, cpc, consumerSems, i>>

ProducerWait ==
  /\ ppc = "wait" /\ producerSem > 0 /\ producerSem' = producerSem - 1
  /\ Loop("read")
  /\ UNCHANGED <<number, done, got, cpc, consumerSems>>

ConsumerWait(c) ==
  /\ cpc[c] = "wait" /\ consumerSems[c] > 0
  /\ consumerSems' = [consumerSems EXCEPT ![c] = @ - 1] /\ CGoto(c, "job")
  /\ UNCHANGED <<number, done, got, ppc, producerSem, i>>

ConsumerSignal(c) ==
  /\ cpc[c] = "signal"
  /\ IF producerSem < N
     THEN producerSem' = producerSem + 1 /\ CGoto(c, "wait")
     ELSE CGoto(c, "failed") /\ UNCHANGED producerSem
  /\ UNCHANGED <<number, done, got, ppc, consumerSems, i>>

Next ==
  \/ Program /\ UNCHANGED <<sems, i>>
  \/ ProducerSignal \/ ProducerWait
  \/ \E c \in Consumer : ConsumerWait(c) \/ ConsumerSignal(c)

Spec == Init /\ [][Next]_vars
-----------------------------------------------------------------------------
\* No release ever exceeds the maximum of its semaphore, so that main and the
\* consumers never take their error exits; and the releases that the producer
\* still waits for come from consumers that have not given theirs yet.
ReleasesFit ==
  /\ ppc # "failed" /\ \A c \in Consumer : cpc[c] # "failed"
  /\ ppc = "wait" => N - i + 1 = producerSem + Cardinality(
                       {c \in Consumer : consumerSems[c] = 1 \/ cpc[c] # "wait"})
=============================================================================
