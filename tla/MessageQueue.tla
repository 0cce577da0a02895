---------------------------- MODULE MessageQueue ----------------------------
(***************************************************************************)
(* lab11es02: a circular queue of messages between producers and           *)
(* consumers, guarded by one CRITICAL_SECTION and two condition variables  *)
(* (enqueue sleeps on full, dequeue on empty).  The body of enqueue and    *)
(* dequeue runs inside the critical section except while it sleeps, so an  *)
(* action goes from the entry (or a wakeup) to the next sleep or to the    *)
(* exit.  A message is its id.                                             *)
(***************************************************************************)
EXTENDS Integers, Sequences, FiniteSets

CONSTANTS Producer, Consumer,
          Dimension,  \* places of the queue, N on the command line
          Iterations  \* MAX_THREAD_ITERATIONS

QueueAssumption ==
  /\ IsFiniteSet(Producer) /\ IsFiniteSet(Consumer) /\ Producer \cap Consumer = {}
  /\ Dimension \in Nat \ {0} /\ Iterations \in Nat

VARIABLES
  messages, insertPosition, removePosition, nMessages,  \* struct _queue
  message_id,      \* the next id
  hand,            \* the id that each producer is about to enqueue
  iter,            \* the iterations each thread has finished
  sleeping,        \* the threads inside SleepConditionVariableCS
  received         \* what the consumers got, in the order of their dequeues
                   \* (history)

ring == <<messages, insertPosition, removePosition, nMessages>>
vars == <<ring, message_id, hand, iter, sleeping, received>>

Thread == Producer \cup Consumer
None == -1

Init ==
  /\ messages = [k \in 0..Dimension - 1 |-> None]
  /\ insertPosition = 0 /\ removePosition = 0 /\ nMessages = 0
  /\ message_id = 0
  /\ hand = [p \in Producer |-> None]
  /\ iter = [t \in Thread |-> 0]
  /\ sleeping = {} /\ received = <<>>

Active(t) == iter[t] < Iterations /\ t \notin sleeping

\* WakeConditionVariable: one of the threads in S, if there is one
WakeOne(S) == \/ \E t \in sleeping \cap S : sleeping' = sleeping \ {t}
              \/ sleeping \cap S = {} /\ UNCHANGED sleeping

NextTurn(t) == iter' = [iter EXCEPT ![t] = @ + 1]

-----------------------------------------------------------------------------
(* A producer *)

\* writeMessage: an id of its own, under message_cs
WriteMessage(p) ==
  /\ Active(p) /\ hand[p] = None
  /\ hand' = [hand EXCEPT ![p] = message_id] /\ message_id' = message_id + 1
  /\ UNCHANGED <<ring, iter, sleeping, received>>

EnqueueSleeps(p) ==
  /\ Active(p) /\ hand[p] # None /\ nMessages = Dimension
  /\ sleeping' = sleeping \cup {p}
  /\ UNCHANGED <<ring, message_id, hand, iter, received>>

\* enqueue without its while: the queue may be full
Enqueue_NoTest(p) ==
  /\ Active(p) /\ hand[p] # None
  /\ messages' = [messages EXCEPT ![insertPosition] = hand[p]]
  /\ insertPosition' = (insertPosition + 1) % Dimension
  /\ nMessages' = nMessages + 1
  /\ hand' = [hand EXCEPT ![p] = None] /\ NextTurn(p)
  /\ WakeOne(Consumer)
  /\ UNCHANGED <<removePosition, message_id, received>>

Enqueue(p) ==
  /\ Active(p) /\ hand[p] # None /\ nMessages # Dimension
  /\ messages' = [messages EXCEPT ![insertPosition] = hand[p]]
  /\ insertPosition' = (insertPosition + 1) % Dimension
  /\ nMessages' = nMessages + 1
  /\ hand' = [hand EXCEPT ![p] = None] /\ NextTurn(p)
  /\ WakeOne(Consumer)
  /\ UNCHANGED <<removePosition, message_id, received>>

-----------------------------------------------------------------------------
(* A consumer *)

DequeueSleeps(c) ==
  /\ Active(c) /\ nMessages = 0
  /\ sleeping' = sleeping \cup {c}
  /\ UNCHANGED <<ring, message_id, hand, iter, received>>


Dequeue(c) ==
  /\ Active(c) /\ nMessages # 0
  /\ received' = Append(received, messages[removePosition])
  /\ removePosition' = (removePosition + 1) % Dimension
  /\ nMessages' = nMessages - 1 /\ NextTurn(c)
  /\ WakeOne(Producer)
  /\ UNCHANGED <<messages, insertPosition, message_id, hand>>

\* SleepConditionVariableCS may also return without a wakeup
SpuriousWakeup(t) ==
  /\ t \in sleeping /\ sleeping' = sleeping \ {t}
  /\ UNCHANGED <<ring, message_id, hand, iter, received>>

-----------------------------------------------------------------------------
Produce(p) == WriteMessage(p) \/ EnqueueSleeps(p) \/ Enqueue(p)
Consume(c) == DequeueSleeps(c) \/ Dequeue(c)

Next == \/ \E p \in Producer : Produce(p)
        \/ \E c \in Consumer : Consume(c)
        \/ \E t \in Thread : SpuriousWakeup(t)

Spec == Init /\ [][Next]_vars

\* Every thread that is not asleep runs; nobody is owed a spurious wakeup.
FairSpec == /\ Spec
            /\ \A p \in Producer : WF_vars(Produce(p))
            /\ \A c \in Consumer : WF_vars(Consume(c))
-----------------------------------------------------------------------------
\* The queue itself, oldest message first.
Queue == [k \in 1..nMessages |-> messages[(removePosition + k - 1) % Dimension]]

\* No message is lost, doubled or overwritten: the ids that were handed out
\* are those received, those in the queue and those in the producers' hands.
ExactlyOnce ==
  LET held == {hand[p] : p \in Producer} \ {None}
      seen == {received[k] : k \in 1..Len(received)}
      kept == {Queue[k] : k \in 1..nMessages}
  IN  /\ seen \cup kept \cup held = 0..message_id - 1
      /\ Len(received) + nMessages + Cardinality(held) = message_id

\* The messages come out in the order in which they went in.
Fifo == INSTANCE ByteStream WITH
          Byte <- Int, Size <- Dimension, queue <- Queue, open <- TRUE,
          taken <- IF received = <<>> THEN None ELSE received[Len(received)]
IsFifo == Fifo!Init /\ [][\E m \in 0..message_id : Fifo!Put(m) \/ Fifo!Take]_(Fifo!vars)

\* However many producers and consumers there are, the messages that both
\* sides have a thread for do get through.
Least(a, b) == IF a < b THEN a ELSE b
Delivered ==
  Len(received) = Iterations * Least(Cardinality(Producer), Cardinality(Consumer))
=============================================================================
