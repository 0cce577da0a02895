---------------------------- MODULE RoundsEvents ----------------------------
(***************************************************************************)
(* Version B of lab12es01: two AUTO_RESET events for each consumer.  The   *)
(* wait of the producer takes all its events at once, when all are set.    *)
(* SetEvent on an event that is already set changes nothing: that would    *)
(* lose a signal.                                                          *)
(***************************************************************************)
EXTENDS RoundsProgram

VARIABLES consumerEvents, producerEvents,
          i  \* the loop variable of producerSignal

events == <<consumerEvents, producerEvents>>
vars == <<common, events, i>>

Order == CHOOSE s \in [1..N -> Consumer] : \A c \in Consumer : \E k \in 1..N : s[k] = c

Init ==
  /\ InitProgram
  /\ consumerEvents = [c \in Consumer |-> FALSE]
  /\ producerEvents = [c \in Consumer |-> FALSE] /\ i = 1

ProducerSignal ==
  /\ ppc = "signal"
  /\ consumerEvents' = [consumerEvents EXCEPT ![Order[i]] = TRUE]
  /\ i' = IF i = N THEN 1 ELSE i + 1
  /\ PGoto(IF i = N THEN AfterSignal ELSE "signal")
  /\ UNCHANGED <<number, done, got, cpc, producerEvents>>

\* WaitForMultipleObjects with bWaitAll FALSE: one event is enough
ProducerWait_Any ==
  /\ ppc = "wait" /\ PGoto("read")
  /\ \E c \in Consumer : /\ producerEvents[c]
                         /\ producerEvents' = [producerEvents EXCEPT ![c] = FALSE]
  /\ UNCHANGED <<number, done, got, cpc, consumerEvents, i>>

ProducerWait ==
  /\ ppc = "wait" /\ PGoto("read")
  /\ \A c \in Consumer : producerEvents[c]
  /\ producerEvents' = [c \in Consumer |-> FALSE]
  /\ UNCHANGED <<number, done, got, cpc, consumerEvents, i>>

ConsumerWait(c) ==
  /\ cpc[c] = "wait" /\ consumerEvents[c]
  /\ consumerEvents' = [consumerEvents EXCEPT ![c] = FALSE] /\ CGoto(c, "job")
  /\ UNCHANGED <<number, done, got, ppc, producerEvents, i>>

ConsumerSignal(c) ==
  /\ cpc[c] = "signal"
  /\ producerEvents' = [producerEvents EXCEPT ![c] = TRUE] /\ CGoto(c, "wait")
  /\ UNCHANGED <<number, done, got, ppc, consumerEvents, i>>

Next ==
  \/ Program /\ UNCHANGED <<events, i>>
  \/ ProducerSignal \/ ProducerWait
  \/ \E c \in Consumer : ConsumerWait(c) \/ ConsumerSignal(c)

Spec == Init /\ [][Next]_vars
-----------------------------------------------------------------------------
\* No signal is lost: an event is never set while it is still set, although
\* nothing in the code tests for it.
NoLostSignal ==
  [][/\ ProducerSignal => ~consumerEvents[Order[i]]
     /\ \A c \in Consumer : ConsumerSignal(c) => ~producerEvents[c]]_vars
=============================================================================
