--------------------------- MODULE HandoverProofs ---------------------------
(***************************************************************************)
(* The theorems about the programs of labs 11 to 13, which hand data from  *)
(* thread to thread, each for every value of its constants: the circular   *)
(* queue of lab11es02, the rounds of lab12es01, the locks of lines of      *)
(* lab12es03, the accounts of lab11es01 and the collector of lab13es01.    *)
(* What a program does by itself it does in module LabPrograms.            *)
(***************************************************************************)
EXTENDS LabPrograms, FiniteSetTheorems, SequenceTheorems, TLAPS

-----------------------------------------------------------------------------
(* Facts that the programs need. *)

\* A function that is changed in one place.
LEMMA Update ==
  ASSUME NEW D, NEW E, NEW f \in [D -> E], NEW x \in D, NEW y \in E, NEW g,
         g = [f EXCEPT ![x] = y]
  PROVE  g \in [D -> E] /\ g[x] = y /\ \A z \in D \ {x} : g[z] = f[z]
OBVIOUS

\* A finite set of numbers has a least one.
LEMMA LeastExists ==
  ASSUME NEW S \in SUBSET Int, IsFiniteSet(S), S # {}
  PROVE  \E x \in S : \A y \in S : x <= y
<1> DEFINE To(x) == {y \in S : y <= x}
           T     == {To(x) : x \in S}
<1>1. IsWellFoundedOn(StrictSubsetOrdering(S), SUBSET S)
  BY FS_StrictSubsetOrderingWellFounded, FS_FiniteSubsetsOfFinite, Zenon
<1>2. T \subseteq SUBSET S /\ T # {}
  OBVIOUS
<1>3. PICK U \in T : \A V \in T : <<V, U>> \notin StrictSubsetOrdering(S)
  <2> HIDE DEF T
  <2> QED BY <1>1, <1>2, WFMin, Zenon
<1>4. PICK x \in S : U = To(x)
  BY <1>3
<1>5. ASSUME NEW y \in S, y < x PROVE FALSE
  <2>1. To(y) \in T /\ To(y) \subseteq S /\ To(x) \subseteq S
    OBVIOUS
  <2>2. x \in To(x) /\ x \notin To(y)
    BY <1>5
  <2>3. To(y) \subseteq To(x)
    <3>1. ASSUME NEW z \in S, z <= y PROVE z <= x
      <4>1. z \in Int /\ y \in Int /\ x \in Int
        OBVIOUS
      <4> QED BY <1>5, <3>1, <4>1
    <3> QED BY <3>1
  <2>4. To(y) # To(x)
    BY <2>2
  <2> HIDE DEF To
  <2>5. <<To(y), To(x)>> \in StrictSubsetOrdering(S)
    BY <2>1, <2>3, <2>4 DEF StrictSubsetOrdering
  <2> QED BY <1>3, <1>4, <2>1, <2>5
<1>6. \A y \in S : x <= y
  BY <1>4, <1>5
<1> QED BY <1>4, <1>6

\* The same of the greatest.
LEMMA GreatestExists ==
  ASSUME NEW S \in SUBSET Int, IsFiniteSet(S), S # {}
  PROVE  \E x \in S : \A y \in S : y <= x
<1> DEFINE To(x) == {y \in S : y >= x}
           T     == {To(x) : x \in S}
<1>1. IsWellFoundedOn(StrictSubsetOrdering(S), SUBSET S)
  BY FS_StrictSubsetOrderingWellFounded, FS_FiniteSubsetsOfFinite, Zenon
<1>2. T \subseteq SUBSET S /\ T # {}
  OBVIOUS
<1>3. PICK U \in T : \A V \in T : <<V, U>> \notin StrictSubsetOrdering(S)
  <2> HIDE DEF T
  <2> QED BY <1>1, <1>2, WFMin, Zenon
<1>4. PICK x \in S : U = To(x)
  BY <1>3
<1>5. ASSUME NEW y \in S, y > x PROVE FALSE
  <2>1. To(y) \in T /\ To(y) \subseteq S /\ To(x) \subseteq S
    OBVIOUS
  <2>2. x \in To(x) /\ x \notin To(y)
    BY <1>5
  <2>3. To(y) \subseteq To(x)
    <3>1. ASSUME NEW z \in S, z >= y PROVE z >= x
      <4>1. z \in Int /\ y \in Int /\ x \in Int
        OBVIOUS
      <4> QED BY <1>5, <3>1, <4>1
    <3> QED BY <3>1
  <2>4. To(y) # To(x)
    BY <2>2
  <2> HIDE DEF To
  <2>5. <<To(y), To(x)>> \in StrictSubsetOrdering(S)
    BY <2>1, <2>3, <2>4 DEF StrictSubsetOrdering
  <2> QED BY <1>3, <1>4, <2>1, <2>5
<1>6. \A y \in S : y <= x
  BY <1>4, <1>5
<1> QED BY <1>4, <1>6

-----------------------------------------------------------------------------
(* lab11es02: the circular queue of messages. *)

\* Division with a remainder.
LEMMA DivMod ==
  ASSUME NEW x \in Int, NEW n \in Nat \ {0}
  PROVE /\ x % n \in 0..n - 1 /\ x \div n \in Int
        /\ x = (n * (x \div n)) + (x % n)
OBVIOUS

\* The remainder is unique.
LEMMA ModUnique ==
  ASSUME NEW q \in Int, NEW n \in Nat \ {0}, NEW r \in 0..n - 1
  PROVE (n * q + r) % n = r
OBVIOUS

\* The place in a ring of n that is reached in less than two turns.
LEMMA Wrapped ==
  ASSUME NEW n \in Nat \ {0}, NEW x \in 0..2 * n - 1
  PROVE x % n = (IF x < n THEN x ELSE x - n) /\ x % n \in 0..n - 1
<1>1. CASE x < n
  <2>1. x \in 0..n - 1
    BY <1>1
  <2>2. (n * 0 + x) % n = x
    BY <2>1, ModUnique
  <2>3. n * 0 + x = x
    OBVIOUS
  <2> QED BY <1>1, <2>1, <2>2, <2>3
<1>2. CASE x >= n
  <2>1. x - n \in 0..n - 1
    BY <1>2
  <2>2. (n * 1 + (x - n)) % n = x - n
    BY <2>1, ModUnique
  <2>3. n * 1 + (x - n) = x
    OBVIOUS
  <2> QED BY <1>2, <2>1, <2>2, <2>3
<1> QED BY <1>1, <1>2

\* The messages in the producers' hands, those received and those in the queue.
Held == {hand[p] : p \in Producer} \ {Q!None}
Seen == {received[k] : k \in 1..Len(received)}
Kept == {Q!Queue[k] : k \in 1..nMessages}

RingInv ==
  /\ messages \in [0..Dimension - 1 -> Int]
  /\ insertPosition \in 0..Dimension - 1 /\ removePosition \in 0..Dimension - 1
  /\ nMessages \in 0..Dimension
  /\ insertPosition = (removePosition + nMessages) % Dimension

HandsInv ==
  /\ message_id \in Nat /\ hand \in [Producer -> Int] /\ received \in Seq(Int)
  /\ \A p \in Producer : hand[p] # Q!None => hand[p] \in 0..message_id - 1
  /\ \A p, q \in Producer : p # q /\ hand[p] # Q!None => hand[p] # hand[q]

OnceInv ==
  /\ Seen \cup Kept \cup Held = 0..message_id - 1
  /\ Len(received) + nMessages + Cardinality(Held) = message_id

QueueInv == RingInv /\ HandsInv /\ OnceInv

\* What module MessageQueue assumes of the number of places and of the producers.
LEMMA QueueConstants == Dimension \in Nat /\ Dimension > 0 /\ IsFiniteSet(Producer)
<1>1. Q!IsFiniteSet(Producer) = IsFiniteSet(Producer)
  BY Zenon DEF Q!IsFiniteSet, IsFiniteSet
<1> QED BY <1>1, LabAssumption DEF Q!QueueAssumption

\* The places of the ring, for less than two turns.
Turn(x) == IF x < Dimension THEN x ELSE x - Dimension

\* The remainder is this place of the ring.
LEMMA RingPlace ==
  ASSUME NEW x \in 0..2 * Dimension - 1
  PROVE  x % Dimension = Turn(x) /\ Turn(x) \in 0..Dimension - 1
<1>1. Dimension \in Nat \ {0}
  BY QueueConstants
<1>2. x % Dimension = (IF x < Dimension THEN x ELSE x - Dimension) /\ x % Dimension \in 0..Dimension - 1
  BY <1>1, Wrapped
<1> QED BY <1>2, Zenon DEF Turn

\* The queue is a sequence of the messages from removePosition on.
QueueIsRing ==
  /\ Q!Queue \in Seq(Int) /\ Len(Q!Queue) = nMessages /\ nMessages \in Nat
  /\ \A k \in 1..nMessages : Q!Queue[k] = messages[(removePosition + k - 1) % Dimension]

\* Before a step.
LEMMA QueueIs == RingInv => QueueIsRing
<1> SUFFICES ASSUME RingInv PROVE QueueIsRing
  OBVIOUS
<1>1. nMessages \in Nat /\ Dimension \in Nat /\ Dimension > 0
  BY QueueConstants DEF RingInv
<1>2. ASSUME NEW k \in 1..nMessages PROVE messages[(removePosition + k - 1) % Dimension] \in Int
  <2>1. removePosition + k - 1 \in 0..2 * Dimension - 1
    BY <1>1 DEF RingInv
  <2>2. (removePosition + k - 1) % Dimension \in 0..Dimension - 1
    BY <1>1, <2>1, RingPlace, Zenon
  <2> QED BY <2>2 DEF RingInv
<1>3. Q!Queue = [k \in 1..nMessages |-> messages[(removePosition + k - 1) % Dimension]]
  BY DEF Q!Queue
<1> QED BY <1>1, <1>2, <1>3 DEF QueueIsRing

\* The same after a step.
LEMMA QueueIsAfter == RingInv' => QueueIsRing'
BY QueueIs, PTL

\* enqueue puts its message at the end of the queue.
LEMMA Enqueues ==
  ASSUME QueueInv, NEW p \in Producer, Q!Enqueue(p)
  PROVE  RingInv' /\ nMessages' = nMessages + 1 /\ Q!Queue' = Append(Q!Queue, hand[p])
<1>1. /\ Dimension \in Nat /\ Dimension > 0 /\ hand[p] \in Int
      /\ nMessages \in 0..Dimension - 1 /\ removePosition \in 0..Dimension - 1
      /\ insertPosition \in 0..Dimension - 1
      /\ insertPosition = (removePosition + nMessages) % Dimension
      /\ messages \in [0..Dimension - 1 -> Int]
  BY QueueConstants DEF QueueInv, RingInv, HandsInv, Q!Enqueue
<1>2. /\ messages' = [messages EXCEPT ![insertPosition] = hand[p]]
      /\ insertPosition' = (insertPosition + 1) % Dimension
      /\ nMessages' = nMessages + 1 /\ removePosition' = removePosition
  BY Zenon DEF Q!Enqueue
<1>3. insertPosition' \in 0..Dimension - 1
      /\ insertPosition' = (removePosition' + nMessages') % Dimension
  <2>1. /\ removePosition + nMessages \in 0..2 * Dimension - 1
        /\ removePosition + (nMessages + 1) \in 0..2 * Dimension - 1
        /\ insertPosition + 1 \in 0..2 * Dimension - 1
    BY <1>1
  <2>2. /\ insertPosition = Turn(removePosition + nMessages)
        /\ (removePosition + (nMessages + 1)) % Dimension = Turn(removePosition + (nMessages + 1))
        /\ (insertPosition + 1) % Dimension = Turn(insertPosition + 1)
    BY <1>1, <2>1, RingPlace, Zenon
  <2>3. Turn(insertPosition + 1) = Turn(removePosition + (nMessages + 1))
    BY <1>1, <2>2 DEF Turn
  <2>4. (insertPosition + 1) % Dimension \in 0..Dimension - 1
    BY <2>1, RingPlace, Zenon
  <2> QED BY <1>2, <2>2, <2>3, <2>4, Zenon
<1>4. RingInv'
  BY <1>1, <1>2, <1>3 DEF RingInv
<1>5. /\ Q!Queue \in Seq(Int) /\ Len(Q!Queue) = nMessages
      /\ \A k \in 1..nMessages : Q!Queue[k] = messages[(removePosition + k - 1) % Dimension]
  BY QueueIs DEF QueueInv, QueueIsRing
<1>6. /\ Q!Queue' \in Seq(Int) /\ Len(Q!Queue') = nMessages + 1
      /\ \A k \in 1..nMessages + 1 :
           Q!Queue'[k] = messages'[(removePosition + k - 1) % Dimension]
  BY <1>2, <1>4, QueueIsAfter DEF QueueIsRing
<1>7. /\ Append(Q!Queue, hand[p]) \in Seq(Int)
      /\ Len(Append(Q!Queue, hand[p])) = nMessages + 1
      /\ \A k \in 1..nMessages : Append(Q!Queue, hand[p])[k] = Q!Queue[k]
      /\ Append(Q!Queue, hand[p])[nMessages + 1] = hand[p]
  BY <1>1, <1>5, AppendProperties
<1>8. ASSUME NEW k \in 1..nMessages + 1 PROVE Q!Queue'[k] = Append(Q!Queue, hand[p])[k]
  <2>1. /\ removePosition + k - 1 \in 0..2 * Dimension - 1
        /\ removePosition + nMessages \in 0..2 * Dimension - 1
    BY <1>1
  <2>2. /\ (removePosition + k - 1) % Dimension \in 0..Dimension - 1
        /\ (removePosition + k - 1) % Dimension = Turn(removePosition + k - 1)
        /\ insertPosition = Turn(removePosition + nMessages)
    BY <1>1, <2>1, RingPlace, Zenon
  <2>3. CASE k \in 1..nMessages
    <3>1. (removePosition + k - 1) % Dimension # insertPosition
      <4>1. Turn(removePosition + k - 1) # Turn(removePosition + nMessages)
        BY <1>1, <2>3 DEF Turn
      <4> QED BY <2>2, <4>1, Zenon
    <3>2. Q!Queue'[k] = messages[(removePosition + k - 1) % Dimension]
      BY <1>1, <1>2, <1>6, <2>2, <3>1, Zenon
    <3> QED BY <1>5, <1>7, <2>3, <3>2
  <2>4. CASE k = nMessages + 1
    <3>1. (removePosition + k - 1) % Dimension = insertPosition
      <4>1. removePosition + k - 1 = removePosition + nMessages
        BY <1>1, <2>4
      <4> QED BY <1>1, <4>1, Zenon
    <3>2. Q!Queue'[k] = hand[p]
      BY <1>1, <1>2, <1>6, <3>1
    <3> QED BY <1>7, <2>4, <3>2
  <2>5. k \in 1..nMessages \/ k = nMessages + 1
    BY <1>1
  <2> QED BY <2>3, <2>4, <2>5
<1>9. Q!Queue' = Append(Q!Queue, hand[p])
  BY <1>6, <1>7, <1>8, SeqEqual, Zenon
<1> QED BY <1>2, <1>4, <1>9

\* dequeue takes the first message of the queue.
LEMMA Dequeues ==
  ASSUME QueueInv, NEW c \in Taker, Q!Dequeue(c)
  PROVE  /\ RingInv' /\ nMessages > 0 /\ nMessages' = nMessages - 1
         /\ Q!Queue # <<>> /\ Q!Queue' = Tail(Q!Queue)
         /\ received' = Append(received, Head(Q!Queue)) /\ Head(Q!Queue) = Q!Queue[1]
<1>1. /\ Dimension \in Nat /\ Dimension > 0
      /\ nMessages \in 1..Dimension /\ removePosition \in 0..Dimension - 1
      /\ insertPosition = (removePosition + nMessages) % Dimension
      /\ insertPosition \in 0..Dimension - 1
      /\ messages \in [0..Dimension - 1 -> Int]
  BY QueueConstants DEF QueueInv, RingInv, Q!Dequeue
<1>2. /\ messages' = messages /\ insertPosition' = insertPosition
      /\ nMessages' = nMessages - 1 /\ removePosition' = (removePosition + 1) % Dimension
      /\ received' = Append(received, messages[removePosition])
  BY Zenon DEF Q!Dequeue
<1>3. /\ removePosition' \in 0..Dimension - 1
      /\ removePosition' = Turn(removePosition + 1)
  <2>1. removePosition + 1 \in 0..2 * Dimension - 1
    BY <1>1
  <2> QED BY <1>1, <1>2, <2>1, RingPlace, Zenon
<1>4. ASSUME NEW k \in 1..nMessages
      PROVE  (removePosition' + k - 1) % Dimension = (removePosition + (k + 1) - 1) % Dimension
  <2>1. /\ removePosition' + k - 1 \in 0..2 * Dimension - 1
        /\ removePosition + (k + 1) - 1 \in 0..2 * Dimension - 1
    BY <1>1, <1>3
  <2>2. /\ (removePosition' + k - 1) % Dimension = Turn(removePosition' + k - 1)
        /\ (removePosition + (k + 1) - 1) % Dimension = Turn(removePosition + (k + 1) - 1)
    BY <2>1, RingPlace, Zenon
  <2>3. Turn(removePosition' + k - 1) = Turn(removePosition + (k + 1) - 1)
    BY <1>1, <1>3 DEF Turn
  <2> QED BY <2>2, <2>3, Zenon
<1>5. insertPosition' = (removePosition' + nMessages') % Dimension
  <2>1. nMessages \in 1..nMessages
    BY <1>1
  <2>2. (removePosition' + nMessages - 1) % Dimension
        = (removePosition + (nMessages + 1) - 1) % Dimension
    BY <1>4, <2>1, Zenon
  <2>3. /\ removePosition' + nMessages - 1 = removePosition' + nMessages'
        /\ removePosition + (nMessages + 1) - 1 = removePosition + nMessages
    BY <1>1, <1>2, <1>3
  <2> QED BY <1>1, <1>2, <2>2, <2>3, Zenon
<1>6. RingInv'
  BY <1>1, <1>2, <1>3, <1>5 DEF RingInv
<1>7. /\ Q!Queue \in Seq(Int) /\ Len(Q!Queue) = nMessages
      /\ \A k \in 1..nMessages : Q!Queue[k] = messages[(removePosition + k - 1) % Dimension]
  BY QueueIs DEF QueueInv, QueueIsRing
<1>8. /\ Q!Queue' \in Seq(Int) /\ Len(Q!Queue') = nMessages - 1
      /\ \A k \in 1..nMessages - 1 :
           Q!Queue'[k] = messages[(removePosition' + k - 1) % Dimension]
  BY <1>2, <1>6, QueueIsAfter DEF QueueIsRing
<1>9. Q!Queue # <<>>
  BY <1>1, <1>7
<1>10. /\ Head(Q!Queue) = Q!Queue[1] /\ Tail(Q!Queue) \in Seq(Int)
       /\ Len(Tail(Q!Queue)) = nMessages - 1
       /\ \A k \in 1..nMessages - 1 : Tail(Q!Queue)[k] = Q!Queue[k + 1]
  BY <1>7, <1>9, HeadTailProperties
<1>11. ASSUME NEW k \in 1..nMessages - 1 PROVE Q!Queue'[k] = Tail(Q!Queue)[k]
  <2>1. k \in 1..nMessages /\ k + 1 \in 1..nMessages
    BY <1>1
  <2>2. Q!Queue[k + 1] = messages[(removePosition + (k + 1) - 1) % Dimension]
    BY <1>7, <2>1, Zenon
  <2> QED BY <1>4, <1>8, <1>10, <2>1, <2>2, Zenon
<1>12. Q!Queue' = Tail(Q!Queue)
  BY <1>8, <1>10, <1>11, SeqEqual, Zenon
<1>13. messages[removePosition] = Q!Queue[1]
  <2>1. 1 \in 1..nMessages /\ removePosition + 1 - 1 = removePosition
        /\ removePosition \in 0..2 * Dimension - 1
    BY <1>1
  <2>2. removePosition % Dimension = removePosition
    <3>1. removePosition % Dimension = Turn(removePosition)
      BY <2>1, RingPlace, Zenon
    <3>2. Turn(removePosition) = removePosition
      BY <1>1 DEF Turn
    <3> QED BY <3>1, <3>2
  <2> QED BY <1>7, <2>1, <2>2, Zenon
<1> QED BY <1>1, <1>2, <1>6, <1>9, <1>10, <1>12, <1>13

\* The messages in the hands are finitely many.
LEMMA HeldFinite ==
  ASSUME hand \in [Producer -> Int] PROVE IsFiniteSet(Held) /\ Cardinality(Held) \in Nat
<1>1. IsFiniteSet({hand[p] : p \in Producer})
  <2>1. hand \in Surjection(Producer, {hand[p] : p \in Producer})
    BY Zenon DEF Surjection
  <2> QED BY <2>1, QueueConstants, FS_Surjection
<1>2. Held \subseteq {hand[p] : p \in Producer}
  BY DEF Held
<1>3. IsFiniteSet(Held)
  BY <1>1, <1>2, FS_Subset
<1> QED BY <1>3, FS_CardinalityType

\* A producer writes a message with an id of its own.
LEMMA WriteMessageKeeps ==
  ASSUME QueueInv, NEW p \in Producer, Q!WriteMessage(p)
  PROVE  QueueInv' /\ UNCHANGED Q!Fifo!vars
<1>1. /\ hand[p] = Q!None /\ hand' = [hand EXCEPT ![p] = message_id]
      /\ message_id' = message_id + 1
      /\ UNCHANGED <<messages, insertPosition, removePosition, nMessages, received>>
  BY Zenon DEF Q!WriteMessage, Q!ring
<1>2. message_id \in Nat /\ hand \in [Producer -> Int] /\ Q!None = -1
      /\ \A q \in Producer : hand'[q] = IF q = p THEN message_id ELSE hand[q]
  BY <1>1 DEF QueueInv, HandsInv, Q!None
<1>3. HandsInv'
  BY <1>1, <1>2 DEF QueueInv, HandsInv, Q!None
<1>4. Q!Queue' = Q!Queue
  BY <1>1 DEF Q!Queue
<1>5. RingInv' /\ UNCHANGED Q!Fifo!vars /\ Seen' = Seen /\ Kept' = Kept
  BY <1>1, <1>4 DEF QueueInv, RingInv, Q!Fifo!vars, Seen, Kept
<1>6. Held' = Held \cup {message_id} /\ message_id \notin Held
  BY <1>1, <1>2 DEF Held, QueueInv, HandsInv, Q!None
<1>7. Cardinality(Held') = Cardinality(Held) + 1
  BY <1>2, <1>6, HeldFinite, FS_AddElement
<1>8. OnceInv'
  <2>1. 0..message_id' - 1 = (0..message_id - 1) \cup {message_id}
    BY <1>1, <1>2
  <2>2. Seen' \cup Kept' \cup Held' = 0..message_id' - 1
    BY <1>5, <1>6, <2>1 DEF QueueInv, OnceInv
  <2>3. Len(received) \in Nat /\ nMessages \in Nat /\ Cardinality(Held) \in Nat
    BY <1>2, QueueIs, HeldFinite, LenProperties DEF QueueInv, HandsInv, QueueIsRing
  <2>4. Len(received') = Len(received) /\ nMessages' = nMessages
    BY <1>1
  <2>5. Len(received) + nMessages + Cardinality(Held) = message_id
    BY DEF QueueInv, OnceInv
  <2>6. Len(received') + nMessages' + Cardinality(Held') = message_id'
    BY <1>1, <1>2, <1>7, <2>3, <2>4, <2>5
  <2> QED BY <2>2, <2>6 DEF OnceInv
<1> QED BY <1>3, <1>5, <1>8 DEF QueueInv

\* enqueue moves the message from the hand into the queue.
LEMMA EnqueueKeeps ==
  ASSUME QueueInv, NEW p \in Producer, Q!Enqueue(p)
  PROVE  QueueInv' /\ \E m \in 0..message_id : Q!Fifo!Put(m)
<1>1. /\ hand[p] # Q!None /\ hand' = [hand EXCEPT ![p] = Q!None] /\ nMessages # Dimension
      /\ UNCHANGED <<received, message_id>>
  BY Zenon DEF Q!Enqueue
<1>2. RingInv' /\ nMessages' = nMessages + 1 /\ Q!Queue' = Append(Q!Queue, hand[p])
  BY Enqueues
<1>3. message_id \in Nat /\ hand \in [Producer -> Int] /\ Q!None = -1 /\ received \in Seq(Int)
      /\ \A q \in Producer : hand'[q] = IF q = p THEN Q!None ELSE hand[q]
  BY <1>1 DEF QueueInv, HandsInv, Q!None
<1>4. HandsInv'
  BY <1>1, <1>3 DEF QueueInv, HandsInv
<1>5. Q!Queue \in Seq(Int) /\ Len(Q!Queue) = nMessages /\ nMessages \in Nat
  BY QueueIs DEF QueueInv, QueueIsRing
<1>6. Seen' = Seen
  BY <1>1 DEF Seen
<1>7. Held = Held' \cup {hand[p]} /\ hand[p] \notin Held'
  BY <1>1, <1>3 DEF Held, QueueInv, HandsInv
<1>8. Cardinality(Held') = Cardinality(Held) - 1
  <2>1. Held' = Held \ {hand[p]} /\ hand[p] \in Held
    BY <1>7
  <2> QED BY <1>3, <2>1, HeldFinite, FS_RemoveElement
<1>9. Kept' = Kept \cup {hand[p]}
  <2>1. /\ \A k \in 1..nMessages : Q!Queue'[k] = Q!Queue[k]
        /\ Q!Queue'[nMessages + 1] = hand[p]
    BY <1>2, <1>3, <1>5, AppendProperties
  <2>2. 1..nMessages' = (1..nMessages) \cup {nMessages + 1}
    BY <1>2, <1>5
  <2> QED BY <2>1, <2>2 DEF Kept
<1>10. OnceInv'
  <2>1. Seen' \cup Kept' \cup Held' = 0..message_id' - 1
    BY <1>1, <1>6, <1>7, <1>9 DEF QueueInv, OnceInv
  <2>2. Len(received') + nMessages' + Cardinality(Held') = message_id'
    BY <1>1, <1>2, <1>3, <1>5, <1>8, HeldFinite, LenProperties DEF QueueInv, OnceInv
  <2> QED BY <2>1, <2>2 DEF OnceInv
<1>11. Q!Fifo!Put(hand[p]) /\ hand[p] \in 0..message_id
  <2>1. Len(Q!Queue) < Dimension
    BY <1>1, <1>5, QueueConstants DEF QueueInv, RingInv
  <2>2. hand[p] \in 0..message_id
    BY <1>1, <1>3 DEF QueueInv, HandsInv
  <2>3. UNCHANGED <<TRUE, IF received = <<>> THEN Q!None ELSE received[Len(received)]>>
    BY <1>1, Zenon
  <2> QED BY <1>2, <2>1, <2>2, <2>3, Zenon DEF Q!Fifo!Put
<1> QED BY <1>2, <1>4, <1>10, <1>11 DEF QueueInv

\* dequeue moves the first message from the queue to those received.
LEMMA DequeueKeeps ==
  ASSUME QueueInv, NEW c \in Taker, Q!Dequeue(c)
  PROVE  QueueInv' /\ Q!Fifo!Take
<1>1. UNCHANGED <<hand, message_id>>
  BY Zenon DEF Q!Dequeue
<1>2. /\ RingInv' /\ nMessages > 0 /\ nMessages' = nMessages - 1
      /\ Q!Queue # <<>> /\ Q!Queue' = Tail(Q!Queue)
      /\ received' = Append(received, Head(Q!Queue)) /\ Head(Q!Queue) = Q!Queue[1]
  BY Dequeues
<1>3. /\ Q!Queue \in Seq(Int) /\ Len(Q!Queue) = nMessages /\ nMessages \in Nat
      /\ received \in Seq(Int) /\ Len(received) \in Nat
  BY QueueIs, LenProperties DEF QueueInv, HandsInv, QueueIsRing
<1>4. Head(Q!Queue) \in Int
  BY <1>2, <1>3, ElementOfSeq
<1>5. /\ received' \in Seq(Int) /\ Len(received') = Len(received) + 1
      /\ \A k \in 1..Len(received) : received'[k] = received[k]
      /\ received'[Len(received) + 1] = Head(Q!Queue)
  BY <1>2, <1>3, <1>4, AppendProperties
<1>6. HandsInv'
  BY <1>1, <1>5 DEF QueueInv, HandsInv
<1>7. Held' = Held
  BY <1>1 DEF Held
<1>8. Seen' = Seen \cup {Q!Queue[1]}
  <2>1. 1..Len(received') = (1..Len(received)) \cup {Len(received) + 1}
    BY <1>3, <1>5
  <2> QED BY <1>2, <1>5, <2>1 DEF Seen
<1>9. Kept = Kept' \cup {Q!Queue[1]}
  <2>1. \A k \in 1..nMessages - 1 : Q!Queue'[k] = Q!Queue[k + 1]
    BY <1>2, <1>3, HeadTailProperties
  <2>2. Kept' = {Q!Queue[k + 1] : k \in 1..nMessages - 1}
    BY <1>2, <2>1 DEF Kept
  <2>3. ASSUME NEW k \in 2..nMessages PROVE k - 1 \in 1..nMessages - 1 /\ (k - 1) + 1 = k
    BY <1>3
  <2>4. ASSUME NEW k \in 1..nMessages PROVE k = 1 \/ k \in 2..nMessages
    BY <1>3
  <2>5. ASSUME NEW k \in 1..nMessages - 1 PROVE k + 1 \in 1..nMessages
    BY <1>3
  <2>6. 1 \in 1..nMessages
    BY <1>2, <1>3
  <2> QED BY <2>2, <2>3, <2>4, <2>5, <2>6, Zenon DEF Kept
<1>10. OnceInv'
  <2>1. Seen' \cup Kept' \cup Held' = 0..message_id' - 1
    BY <1>1, <1>7, <1>8, <1>9 DEF QueueInv, OnceInv
  <2>2. Len(received') + nMessages' + Cardinality(Held') = message_id'
    BY <1>1, <1>2, <1>3, <1>5, <1>7, HeldFinite DEF QueueInv, OnceInv, HandsInv
  <2> QED BY <2>1, <2>2 DEF OnceInv
<1>11. Q!Fifo!Take
  <2>1. received' # <<>> /\ received'[Len(received')] = Head(Q!Queue)
    BY <1>3, <1>5
  <2>2. (IF received = <<>> THEN Q!None ELSE received[Len(received)])' = Head(Q!Queue)
    BY <2>1, Zenon
  <2> QED BY <1>2, <2>2, Zenon DEF Q!Fifo!Take
<1> QED BY <1>2, <1>6, <1>10, <1>11 DEF QueueInv

\* Who sleeps does not matter to the messages.
LEMMA SleepKeeps ==
  ASSUME QueueInv, UNCHANGED <<messages, insertPosition, removePosition, nMessages>>,
         UNCHANGED <<message_id, hand, received>>
  PROVE  QueueInv' /\ UNCHANGED Q!Fifo!vars
<1>1. Q!Queue' = Q!Queue
  BY DEF Q!Queue
<1>2. Held' = Held /\ Seen' = Seen /\ Kept' = Kept
  BY <1>1 DEF Held, Seen, Kept
<1>3. RingInv' /\ HandsInv' /\ OnceInv'
  BY <1>2 DEF QueueInv, RingInv, HandsInv, OnceInv
<1>4. UNCHANGED Q!Fifo!vars
  BY <1>1, Zenon DEF Q!Fifo!vars
<1> QED BY <1>3, <1>4 DEF QueueInv

\* The queue is empty at the start.
LEMMA QueueStart == Q!Init => QueueInv /\ Q!Fifo!Init
<1> SUFFICES ASSUME Q!Init PROVE QueueInv /\ Q!Fifo!Init
  OBVIOUS
<1>1. /\ messages = [k \in 0..Dimension - 1 |-> -1] /\ insertPosition = 0 /\ removePosition = 0
      /\ nMessages = 0 /\ message_id = 0 /\ hand = [p \in Producer |-> -1] /\ received = <<>>
  BY DEF Q!Init, Q!None
<1>2. 0 % Dimension = 0
  <2>1. 0 \in 0..2 * Dimension - 1 /\ Turn(0) = 0
    BY QueueConstants DEF Turn
  <2> QED BY <2>1, RingPlace
<1>3. RingInv /\ HandsInv
  BY <1>1, <1>2, QueueConstants DEF RingInv, HandsInv, Q!None
<1>4. Q!Queue = <<>>
  <2>1. Q!Queue \in Seq(Int) /\ Len(Q!Queue) = 0
    BY <1>1, <1>3, QueueIs DEF QueueIsRing
  <2> QED BY <2>1
<1>5. Held = {} /\ Seen = {} /\ Kept = {}
  BY <1>1 DEF Held, Seen, Kept, Q!None
<1>6. OnceInv
  BY <1>1, <1>5, FS_EmptySet DEF OnceInv
<1>7. Q!Fifo!Init
  BY <1>1, <1>4 DEF Q!Fifo!Init, Q!None
<1> QED BY <1>3, <1>6, <1>7 DEF QueueInv

\* Each step of the program is a step of the queue of messages.
LEMMA QueueNext ==
  ASSUME QueueInv, [Q!Next]_(Q!vars)
  PROVE  /\ QueueInv'
         /\ [\E m \in 0..message_id : Q!Fifo!Put(m) \/ Q!Fifo!Take]_(Q!Fifo!vars)
<1>1. ASSUME NEW p \in Producer, Q!Produce(p)
      PROVE  QueueInv' /\ [\E m \in 0..message_id : Q!Fifo!Put(m) \/ Q!Fifo!Take]_(Q!Fifo!vars)
  <2>1. CASE Q!WriteMessage(p)
    BY <2>1, WriteMessageKeeps, Zenon
  <2>2. CASE Q!EnqueueSleeps(p)
    <3>1. UNCHANGED <<messages, insertPosition, removePosition, nMessages>>
          /\ UNCHANGED <<message_id, hand, received>>
      BY <2>2, Zenon DEF Q!EnqueueSleeps, Q!ring
    <3> QED BY <3>1, SleepKeeps, Zenon
  <2>3. CASE Q!Enqueue(p)
    BY <2>3, EnqueueKeeps, Zenon
  <2> QED BY <1>1, <2>1, <2>2, <2>3, Zenon DEF Q!Produce
<1>2. ASSUME NEW c \in Taker, Q!Consume(c)
      PROVE  QueueInv' /\ [\E m \in 0..message_id : Q!Fifo!Put(m) \/ Q!Fifo!Take]_(Q!Fifo!vars)
  <2>1. CASE Q!DequeueSleeps(c)
    <3>1. UNCHANGED <<messages, insertPosition, removePosition, nMessages>>
          /\ UNCHANGED <<message_id, hand, received>>
      BY <2>1, Zenon DEF Q!DequeueSleeps, Q!ring
    <3> QED BY <3>1, SleepKeeps, Zenon
  <2>2. CASE Q!Dequeue(c)
    <3>1. 0 \in 0..message_id
      BY DEF QueueInv, HandsInv
    <3>2. QueueInv' /\ Q!Fifo!Take
      BY <2>2, DequeueKeeps, Zenon
    <3> QED BY <3>1, <3>2, Zenon
  <2> QED BY <1>2, <2>1, <2>2, Zenon DEF Q!Consume
<1>3. ASSUME NEW t \in Q!Thread, Q!SpuriousWakeup(t)
      PROVE  QueueInv' /\ UNCHANGED Q!Fifo!vars
  <2>1. UNCHANGED <<messages, insertPosition, removePosition, nMessages>>
        /\ UNCHANGED <<message_id, hand, received>>
    BY <1>3, Zenon DEF Q!SpuriousWakeup, Q!ring
  <2> QED BY <2>1, SleepKeeps, Zenon
<1>4. ASSUME UNCHANGED Q!vars PROVE QueueInv' /\ UNCHANGED Q!Fifo!vars
  <2>1. UNCHANGED <<messages, insertPosition, removePosition, nMessages>>
        /\ UNCHANGED <<message_id, hand, received>>
    BY <1>4, Zenon DEF Q!vars, Q!ring
  <2> QED BY <2>1, SleepKeeps, Zenon
<1> QED BY <1>1, <1>2, <1>3, <1>4, Zenon DEF Q!Next

\* The invariant says that no message is lost and none doubled.
LEMMA QueueOnce == QueueInv => Q!ExactlyOnce
<1> SUFFICES ASSUME QueueInv PROVE Q!ExactlyOnce
  OBVIOUS
<1>1. Q!Cardinality(Held) = Cardinality(Held)
  BY Zenon DEF Q!Cardinality, Cardinality, Q!IsFiniteSet, IsFiniteSet
<1> QED BY <1>1 DEF QueueInv, OnceInv, Q!ExactlyOnce, Held, Seen, Kept

\* In every execution of lab11es02 the ids handed out are those received, those
\* in the circular queue and those in the producers' hands, each of them once.
THEOREM QueueInvariance == Q!Spec => [](QueueInv /\ Q!ExactlyOnce)
<1> QED BY QueueStart, QueueNext, QueueOnce, PTL DEF Q!Spec

\* The circular queue of lab11es02 is a queue of its number of places: the
\* messages come out in the order in which they went in.
THEOREM QueueIsAQueue == Q!Spec => Q!IsFifo
<1> QED BY QueueStart, QueueNext, PTL DEF Q!Spec, Q!IsFifo

\* An execution of the labs is, of lab11es02, an execution of its module.
LEMMA LabHasQueue == LabSpec => Q!Spec
<1>1. LabInit => Q!Init
  BY DEF LabInit
<1>2. [LabNext]_labVars => [Q!Next]_(Q!vars)
  <2>1. ASSUME LabNext PROVE [Q!Next]_(Q!vars)
    <3>1. CASE lab = "queue"
      BY <2>1, <3>1, SMTT(10) DEF LabNext
    <3>2. CASE lab # "queue"
      BY <2>1, <3>2, SMTT(10) DEF LabNext, queue, Q!vars, Q!ring
    <3> QED BY <3>1, <3>2
  <2>2. ASSUME UNCHANGED labVars PROVE UNCHANGED Q!vars
    BY <2>2, SMTT(10) DEF labVars, queue, Q!vars, Q!ring
  <2> QED BY <2>1, <2>2
<1> QED BY <1>1, <1>2, PTL DEF LabSpec, Q!Spec

\* So, in every execution of every program of the labs, the queue of lab11es02
\* is a queue.
THEOREM LabQueueIsFifo == LabSpec => QueueIsFifo
BY LabHasQueue, QueueIsAQueue, PTL DEF QueueIsFifo

-----------------------------------------------------------------------------
(* lab12es01: the producer and its consumers, in rounds. *)

PPCs == {"start", "read", "signal", "wait", "join", "end"}

\* What the versions have in common: the types, and what main knows of the end
\* of the file.
ProgramTypes ==
  /\ ppc \in PPCs /\ number \in Nat /\ got \in [Consumer -> Seq(Nat)]
  /\ ppc \in {"read", "wait"} => ~done

\* The consumers in S have not worked on the last record yet, the others have.
Worked(S) ==
  /\ ppc = "start" => number = 0 /\ \A c \in Consumer : got[c] = <<>>
  /\ ppc # "start" =>
       \A c \in Consumer : Len(got[c]) = IF ~done /\ c \in S THEN number - 1 ELSE number

-----------------------------------------------------------------------------
(* What main and the consumers do is seen in module Rounds as long as main  *)
(* reads, and the consumers work, at the right moment.                      *)

\* main reads the next record, or the end.
LEMMA ReadStep ==
  ASSUME R!Read, ~done, number \in Nat, \A c \in Consumer : Len(got[c]) = number
  PROVE  R!Promise!Next
<1>1. R!Promise!AllDone
  BY DEF R!Promise!AllDone
<1>2. ppc = "read" /\ ppc' = "signal" /\ UNCHANGED <<got, cpc>>
  BY DEF R!Read, R!PGoto
<1>3. CASE number < LastRecord /\ number' = number + 1 /\ UNCHANGED done
  <2>1. R!Promise!Publish
    BY <1>1, <1>2, <1>3, Zenon DEF R!Promise!Publish
  <2> QED BY <2>1 DEF R!Promise!Next
<1>4. CASE done' = TRUE /\ UNCHANGED number
  <2>1. (done /\ ppc # "start")' = TRUE
    BY <1>2, <1>4, SMTT(10)
  <2>2. R!Promise!Finish
    BY <1>1, <1>2, <1>4, <2>1, Zenon DEF R!Promise!Finish
  <2> QED BY <2>2 DEF R!Promise!Next
<1> QED BY <1>3, <1>4 DEF R!Read

\* A job works on the next record of its consumer, or leaves.
LEMMA JobStep ==
  ASSUME NEW c \in Consumer, R!Job(c), DOMAIN cpc = Consumer, cpc = [d \in Consumer |-> cpc[d]],
         ppc # "start", ~done => Len(got[c]) = number - 1
  PROVE  R!Promise!Next
<1>1. cpc[c] = "job" /\ UNCHANGED <<number, done, ppc>>
  BY DEF R!Job
<1>2. CASE ~done /\ R!CGoto(c, "signal") /\ got' = [got EXCEPT ![c] = Append(@, number)]
  <2>1. {d \in Consumer : cpc[d] = "end"}' = {d \in Consumer : cpc[d] = "end"}
    BY <1>1, <1>2, SMTT(10) DEF R!CGoto
  <2>2. R!Promise!Work(c)
    BY <1>1, <1>2, <2>1, Zenon DEF R!Promise!Work
  <2> QED BY <2>2 DEF R!Promise!Next
<1>3. CASE done /\ R!CGoto(c, "end") /\ UNCHANGED got
  <2>1. {d \in Consumer : cpc[d] = "end"}' = {d \in Consumer : cpc[d] = "end"} \cup {c}
    BY <1>1, <1>3, SMTT(10) DEF R!CGoto
  <2>2. c \notin {d \in Consumer : cpc[d] = "end"}
    BY <1>1
  <2>3. R!Promise!Leave(c)
    BY <1>1, <1>3, <2>1, <2>2, Zenon DEF R!Promise!Leave
  <2> QED BY <2>3 DEF R!Promise!Next
<1> QED BY <1>2, <1>3 DEF R!Job

\* A step that leaves the records, what the consumers got and who has left
\* is not seen.
LEMMA QuietStep ==
  ASSUME UNCHANGED <<number, got>>,
         (done /\ ppc # "start")' <=> done /\ ppc # "start",
         \A c \in Consumer : cpc'[c] = "end" <=> cpc[c] = "end"
  PROVE  UNCHANGED R!Promise!vars
<1>1. (done /\ ppc # "start")' = (done /\ ppc # "start")
  BY Zenon
<1>2. {c \in Consumer : cpc[c] = "end"}' = {c \in Consumer : cpc[c] = "end"}
  BY SMTT(10)
<1> QED BY <1>1, <1>2, Zenon DEF R!Promise!vars

\* Everybody starts in module Rounds as well.
LEMMA ProgramStarts == R!Init => R!Promise!Init
<1> SUFFICES ASSUME R!Init PROVE R!Promise!Init
  OBVIOUS
<1>1. /\ number = 0 /\ ppc = "start"
      /\ cpc = [c \in Consumer |-> "wait"] /\ got = [c \in Consumer |-> <<>>]
  BY DEF R!Init, R!A!Init, R!A!InitProgram
<1>2. (done /\ ppc # "start") = FALSE
  BY <1>1, Zenon
<1>3. {c \in Consumer : cpc[c] = "end"} = {}
  BY <1>1, SMTT(10)
<1> QED BY <1>1, <1>2, <1>3, Zenon DEF R!Promise!Init

\* How many consumers there are.
Many == Cardinality(Consumer)

\* They are finitely many; every module that is used counts them.
LEMMA ManyIs ==
  ASSUME R!ProgramAssumption
  PROVE  /\ IsFiniteSet(Consumer) /\ Many \in Nat /\ Many > 0
         /\ R!A!N = Many /\ R!B!N = Many /\ R!C!N = Many
<1>1. R!IsFiniteSet(Consumer) = IsFiniteSet(Consumer)
  BY Zenon DEF R!IsFiniteSet, IsFiniteSet
<1>2. R!A!Cardinality(Consumer) = Cardinality(Consumer)
  BY Zenon DEF R!A!Cardinality, Cardinality, R!A!IsFiniteSet, IsFiniteSet
<1>3. R!B!Cardinality(Consumer) = Cardinality(Consumer)
  BY Zenon DEF R!B!Cardinality, Cardinality, R!B!IsFiniteSet, IsFiniteSet
<1>4. IsFiniteSet(Consumer) /\ Consumer # {}
  BY <1>1 DEF R!ProgramAssumption
<1>5. Many \in Nat /\ Many # 0
  BY <1>4, FS_CardinalityType, FS_EmptySet, Zenon DEF Many
<1>6. R!C!Cardinality(Consumer) = Cardinality(Consumer)
  BY Zenon DEF R!C!Cardinality, Cardinality, R!C!IsFiniteSet, IsFiniteSet
<1> QED BY <1>2, <1>3, <1>4, <1>5, <1>6 DEF Many, R!A!N, R!B!N, R!C!N

\* An array that has every consumer has each of them once; there is one.
LEMMA OrderIs ==
  ASSUME R!ProgramAssumption
  PROVE  /\ \E s \in [1..Many -> Consumer] : \A c \in Consumer : \E k \in 1..Many : s[k] = c
         /\ \A s \in [1..Many -> Consumer] : (\A c \in Consumer : \E k \in 1..Many : s[k] = c)
              => \A j, k \in 1..Many : s[j] = s[k] => j = k
<1>1. IsFiniteSet(Consumer) /\ Many = Cardinality(Consumer) /\ Many \in Nat
  BY ManyIs DEF Many
<1>2. PICK f : f \in Bijection(1..Many, Consumer)
  BY <1>1, FS_CardinalityType DEF ExistsBijection
<1>3. f \in [1..Many -> Consumer] /\ \A c \in Consumer : \E k \in 1..Many : f[k] = c
  BY <1>2 DEF Bijection, Surjection, Injection
<1>4. IsFiniteSet(1..Many) /\ Cardinality(1..Many) = Cardinality(Consumer)
  BY <1>1, FS_Interval
<1>5. ASSUME NEW s \in [1..Many -> Consumer], \A c \in Consumer : \E k \in 1..Many : s[k] = c
      PROVE  \A j, k \in 1..Many : s[j] = s[k] => j = k
  <2>1. s \in Surjection(1..Many, Consumer)
    BY <1>5 DEF Surjection
  <2>2. s \in Injection(1..Many, Consumer)
    BY <2>1, <1>1, <1>4, FS_SurjSameCardinalityImpliesInj, Zenon
  <2> QED BY <2>2 DEF Injection, IsInjective
<1> QED BY <1>3, <1>5

-----------------------------------------------------------------------------
(* Version A: the semaphores.  The releases that the producer will still get *)
(* are counted: those it has and those that consumers owe it.                *)

\* The consumers that have been released and have not yet released the producer.
Owed == {c \in Consumer : consumerSems[c] = 1 \/ cpc[c] # "wait"}

\* How many releases there are on their way when main is where it is.
Expected == IF ppc \in {"start", "read"} THEN 0
            ELSE IF ppc = "signal" THEN i - 1
            ELSE IF ppc = "wait" THEN Many - i + 1
            ELSE Many

\* main has still to release this consumer in this loop.
ToRelease(c) == ppc = "signal" /\ \E k \in i..Many : c = R!A!Order[k]

SemTypes ==
  /\ cpc \in [Consumer -> {"wait", "job", "signal", "end"}]
  /\ producerSem \in Nat /\ consumerSems \in [Consumer -> {0, 1}] /\ i \in 1..Many
  /\ i # 1 => ppc \in {"signal", "wait"}

SemPlaces ==
  /\ \A c \in Consumer : consumerSems[c] = 1 => cpc[c] = "wait"
  /\ \A c \in Consumer : ToRelease(c) => c \notin Owed
  /\ producerSem + Cardinality(Owed) = Expected

SemInv ==
  /\ ProgramTypes /\ SemTypes /\ SemPlaces
  /\ Worked({c \in Consumer : consumerSems[c] = 1 \/ cpc[c] = "job" \/ ToRelease(c)})

\* What is known of the consumers that owe a release.
LEMMA OwedIs ==
  ASSUME R!ProgramAssumption, SemInv
  PROVE  /\ IsFiniteSet(Owed) /\ Cardinality(Owed) \in Nat /\ Cardinality(Owed) <= Many
         /\ Cardinality(Owed) = 0 <=> Owed = {}
         /\ i \in Nat /\ i >= 1 /\ i <= Many /\ Many \in Nat /\ producerSem \in Nat
         /\ ppc \in {"start", "read"} => Owed = {}
         /\ \A k \in 1..Many : R!A!Order[k] \in Consumer
         /\ \A j, k \in 1..Many : R!A!Order[j] = R!A!Order[k] => j = k
         /\ \A c \in Consumer : \E k \in 1..Many : c = R!A!Order[k]
<1>1. IsFiniteSet(Consumer) /\ Owed \subseteq Consumer
  BY ManyIs DEF Owed
<1>2. IsFiniteSet(Owed) /\ Cardinality(Owed) <= Many
  BY <1>1, FS_Subset, Zenon DEF Many
<1>3. Cardinality(Owed) \in Nat /\ (Cardinality(Owed) = 0 <=> Owed = {})
  BY <1>2, FS_CardinalityType, FS_EmptySet, Zenon
<1>4. i \in Nat /\ i >= 1 /\ i <= Many /\ Many \in Nat /\ producerSem \in Nat
  BY ManyIs DEF SemInv, SemTypes
<1>5. ppc \in {"start", "read"} => Owed = {}
  BY <1>3, <1>4 DEF SemInv, SemPlaces, Expected
<1>6. R!A!Order = CHOOSE s \in [1..Many -> Consumer] :
                    \A c \in Consumer : \E k \in 1..Many : s[k] = c
  BY ManyIs DEF R!A!Order
<1>7. /\ R!A!Order \in [1..Many -> Consumer]
      /\ \A c \in Consumer : \E k \in 1..Many : R!A!Order[k] = c
  BY <1>6, OrderIs, Zenon
<1>8. \A j, k \in 1..Many : R!A!Order[j] = R!A!Order[k] => j = k
  BY <1>7, OrderIs, Zenon
<1> QED BY <1>2, <1>3, <1>4, <1>5, <1>7, <1>8

\* Nobody has been released at the start.
LEMMA SemStart == ASSUME R!ProgramAssumption, R!A!Init PROVE SemInv
<1>1. /\ number = 0 /\ ppc = "start" /\ cpc = [c \in Consumer |-> "wait"]
      /\ got = [c \in Consumer |-> <<>>]
      /\ producerSem = 0 /\ consumerSems = [c \in Consumer |-> 0] /\ i = 1
  BY DEF R!A!Init, R!A!InitProgram
<1>2. Owed = {}
  BY <1>1 DEF Owed
<1>3. ProgramTypes /\ SemTypes
  BY <1>1, ManyIs DEF ProgramTypes, SemTypes, PPCs
<1>4. SemPlaces
  BY <1>1, <1>2, FS_EmptySet DEF SemPlaces, ToRelease, Expected
<1>5. Worked({c \in Consumer : consumerSems[c] = 1 \/ cpc[c] = "job" \/ ToRelease(c)})
  BY <1>1 DEF Worked
<1> QED BY <1>3, <1>4, <1>5 DEF SemInv

\* main initializes done.
LEMMA SemStarts ==
  ASSUME R!ProgramAssumption, SemInv, R!Start, UNCHANGED <<producerSem, consumerSems, i>>
  PROVE  SemInv'
<1>1. /\ ppc = "start" /\ ~done' /\ ppc' = "read" /\ UNCHANGED <<number, got, cpc>>
      /\ UNCHANGED <<producerSem, consumerSems, i>>
  BY Zenon DEF R!Start, R!PGoto
<1>2. Owed' = Owed
  BY <1>1 DEF Owed
<1>3. ProgramTypes' /\ SemTypes'
  BY <1>1 DEF SemInv, ProgramTypes, SemTypes, PPCs
<1>4. SemPlaces'
  BY <1>1, <1>2, OwedIs DEF SemInv, SemPlaces, ToRelease, Expected
<1>5. \A c \in Consumer : ~(consumerSems'[c] = 1 \/ cpc'[c] = "job")
  BY <1>1, OwedIs DEF Owed
<1>6. Worked({c \in Consumer : consumerSems[c] = 1 \/ cpc[c] = "job" \/ ToRelease(c)})'
  BY <1>1, <1>5 DEF SemInv, Worked, ToRelease
<1> QED BY <1>3, <1>4, <1>6 DEF SemInv

\* main reads when nobody owes a release.
LEMMA SemReads ==
  ASSUME R!ProgramAssumption, SemInv, R!Read, UNCHANGED <<producerSem, consumerSems, i>>
  PROVE  SemInv' /\ R!Promise!Next
<1>1. /\ ppc = "read" /\ ppc' = "signal" /\ UNCHANGED <<got, cpc>>
      /\ UNCHANGED <<producerSem, consumerSems, i>>
      /\ \/ number' = number + 1 /\ UNCHANGED done
         \/ done' /\ UNCHANGED number
  BY Zenon DEF R!Read, R!PGoto
<1>2. Owed' = {} /\ Owed = {} /\ i = 1 /\ ~done
  BY <1>1, OwedIs DEF Owed, SemInv, SemTypes, ProgramTypes
<1>3. ProgramTypes' /\ SemTypes'
  BY <1>1 DEF SemInv, ProgramTypes, SemTypes, PPCs
<1>4. SemPlaces'
  BY <1>1, <1>2, OwedIs DEF SemInv, SemPlaces, Expected
<1>5. \A c \in Consumer : ~(consumerSems[c] = 1 \/ cpc[c] = "job" \/ ToRelease(c))
  BY <1>1, <1>2 DEF Owed, ToRelease
<1>6. \A c \in Consumer : Len(got[c]) = number
  BY <1>1, <1>5 DEF SemInv, Worked
<1>7. \A c \in Consumer : ToRelease(c)'
  BY <1>1, <1>2, OwedIs DEF ToRelease
<1>8. Worked({c \in Consumer : consumerSems[c] = 1 \/ cpc[c] = "job" \/ ToRelease(c)})'
  BY <1>1, <1>2, <1>6, <1>7 DEF Worked, SemInv, ProgramTypes
<1>9. R!Promise!Next
  BY <1>2, <1>6, ReadStep DEF SemInv, ProgramTypes
<1> QED BY <1>3, <1>4, <1>8, <1>9 DEF SemInv

\* main has joined its consumers.
LEMMA SemJoins ==
  ASSUME R!ProgramAssumption, SemInv, R!Join, UNCHANGED <<producerSem, consumerSems, i>>
  PROVE  SemInv'
<1>1. /\ ppc = "join" /\ ppc' = "end" /\ UNCHANGED <<number, done, got, cpc>>
      /\ UNCHANGED <<producerSem, consumerSems, i>>
  BY Zenon DEF R!Join, R!PGoto
<1>2. Owed' = Owed
  BY <1>1 DEF Owed
<1>3. ProgramTypes' /\ SemTypes'
  BY <1>1 DEF SemInv, ProgramTypes, SemTypes, PPCs
<1>4. SemPlaces'
  BY <1>1, <1>2 DEF SemInv, SemPlaces, ToRelease, Expected
<1>5. Worked({c \in Consumer : consumerSems[c] = 1 \/ cpc[c] = "job" \/ ToRelease(c)})'
  BY <1>1 DEF SemInv, Worked, ToRelease
<1> QED BY <1>3, <1>4, <1>5 DEF SemInv

\* A consumer works on the record it was released for, or leaves.
LEMMA SemWorks ==
  ASSUME R!ProgramAssumption, SemInv, NEW c \in Consumer, R!Job(c),
         UNCHANGED <<producerSem, consumerSems, i>>
  PROVE  SemInv' /\ R!Promise!Next
<1>1. PICK to \in {"signal", "end"} : cpc' = [cpc EXCEPT ![c] = to]
  BY Zenon DEF R!Job, R!CGoto
<1>2. /\ cpc[c] = "job" /\ UNCHANGED <<number, done, ppc>>
      /\ UNCHANGED <<producerSem, consumerSems, i>>
      /\ \/ done /\ got' = got
         \/ ~done /\ got' = [got EXCEPT ![c] = Append(@, number)]
  BY Zenon DEF R!Job
<1>3. cpc \in [Consumer -> {"wait", "job", "signal", "end"}] /\ consumerSems[c] = 0
      /\ got \in [Consumer -> Seq(Nat)] /\ number \in Nat /\ c \in Owed
  BY <1>2 DEF SemInv, SemTypes, SemPlaces, ProgramTypes, Owed
<1>4. Owed' = Owed
  BY <1>1, <1>2, <1>3 DEF Owed
<1>5. SemTypes'
  BY <1>1, <1>2, <1>3 DEF SemInv, SemTypes
<1>6. ProgramTypes'
  <2>1. got' \in [Consumer -> Seq(Nat)]
    <3>1. Append(got[c], number) \in Seq(Nat)
      BY <1>3
    <3> QED BY <1>2, <1>3, <3>1, Zenon
  <2> QED BY <1>2, <1>3, <2>1 DEF SemInv, ProgramTypes
<1>7. SemPlaces'
  BY <1>1, <1>2, <1>3, <1>4 DEF SemInv, SemPlaces, ToRelease, Expected
<1>8. ppc # "start" /\ ~ToRelease(c)
  BY <1>3, OwedIs DEF SemInv, SemPlaces
<1>9. ~done => Len(got[c]) = number - 1
  BY <1>2, <1>8 DEF SemInv, Worked
<1>10. ~done => Len(got'[c]) = number
  BY <1>2, <1>3, <1>9
<1>11. Worked({d \in Consumer : consumerSems[d] = 1 \/ cpc[d] = "job" \/ ToRelease(d)})'
  BY <1>1, <1>2, <1>3, <1>8, <1>10 DEF SemInv, Worked, ToRelease
<1>12. R!Promise!Next
  BY <1>3, <1>8, <1>9, JobStep
<1> QED BY <1>5, <1>6, <1>7, <1>11, <1>12 DEF SemInv

\* What the end of an iteration of a loop of main does.
LEMMA LoopIs ==
  ASSUME R!ProgramAssumption, NEW to, R!A!Loop(to)
  PROVE  \/ i = Many /\ i' = 1 /\ ppc' = to
         \/ i # Many /\ i' = i + 1 /\ ppc' = ppc
BY ManyIs DEF R!A!Loop, R!A!PGoto

\* main releases the next consumer, which waits and has not been released.
LEMMA SemSignals ==
  ASSUME R!ProgramAssumption, SemInv, R!A!ProducerSignal
  PROVE  SemInv' /\ UNCHANGED R!Promise!vars
<1> DEFINE c == R!A!Order[i]
<1>1. /\ ppc = "signal" /\ UNCHANGED <<number, done, got, cpc, producerSem>>
      /\ c \in Consumer /\ ToRelease(c)
  BY OwedIs DEF R!A!ProducerSignal, ToRelease
<1>2. c \notin Owed /\ consumerSems[c] = 0 /\ cpc[c] = "wait"
  BY <1>1 DEF SemInv, SemTypes, SemPlaces, Owed
<1>3. consumerSems' = [consumerSems EXCEPT ![c] = @ + 1] /\ R!A!Loop(R!A!AfterSignal)
  BY <1>2 DEF R!A!ProducerSignal
<1>4. /\ consumerSems \in [Consumer -> {0, 1}] /\ consumerSems' \in [Consumer -> {0, 1}]
      /\ \A d \in Consumer : consumerSems'[d] = IF d = c THEN 1 ELSE consumerSems[d]
  BY <1>1, <1>2, <1>3 DEF SemInv, SemTypes
<1>5. \/ i = Many /\ i' = 1 /\ ppc' = IF done THEN "join" ELSE "wait"
      \/ i # Many /\ i' = i + 1 /\ ppc' = "signal"
  BY <1>1, <1>3, LoopIs DEF R!A!AfterSignal
<1>6. i \in 1..Many /\ Many \in Nat
  BY OwedIs
<1>7. Owed' = Owed \cup {c} /\ Cardinality(Owed') = Cardinality(Owed) + 1
  <2>1. Owed' = Owed \cup {c}
    BY <1>1, <1>4 DEF Owed
  <2> QED BY <1>2, <2>1, OwedIs, FS_AddElement
<1>8. \A d \in Consumer : ToRelease(d)' <=> ToRelease(d) /\ d # c
  BY <1>1, <1>5, <1>6, OwedIs DEF ToRelease
<1>9. SemTypes'
  BY <1>1, <1>4, <1>5, <1>6 DEF SemInv, SemTypes
<1>10. ProgramTypes'
  BY <1>1, <1>5 DEF SemInv, ProgramTypes, PPCs
<1>11. SemPlaces'
  <2>1. producerSem + Cardinality(Owed) = i - 1
    BY <1>1 DEF SemInv, SemPlaces, Expected
  <2>2. Expected' = i
    BY <1>5, <1>6 DEF Expected
  <2>3. producerSem' + Cardinality(Owed') = Expected'
    BY <1>1, <1>6, <1>7, <2>1, <2>2, OwedIs
  <2>4. \A d \in Consumer : consumerSems'[d] = 1 => cpc'[d] = "wait"
    BY <1>1, <1>2, <1>4 DEF SemInv, SemPlaces
  <2>5. \A d \in Consumer : ToRelease(d)' => d \notin Owed'
    BY <1>7, <1>8 DEF SemInv, SemPlaces
  <2> QED BY <2>3, <2>4, <2>5 DEF SemPlaces
<1>12. Worked({d \in Consumer : consumerSems[d] = 1 \/ cpc[d] = "job" \/ ToRelease(d)})'
  <2>1. {d \in Consumer : consumerSems[d] = 1 \/ cpc[d] = "job" \/ ToRelease(d)}'
        = {d \in Consumer : consumerSems[d] = 1 \/ cpc[d] = "job" \/ ToRelease(d)}
    BY <1>1, <1>4, <1>8
  <2> QED BY <1>1, <1>5, <2>1 DEF SemInv, Worked
<1>13. UNCHANGED R!Promise!vars
  BY <1>1, <1>5, QuietStep
<1> QED BY <1>9, <1>10, <1>11, <1>12, <1>13 DEF SemInv

\* main waits for one more release.
LEMMA SemWaits ==
  ASSUME R!ProgramAssumption, SemInv, R!A!ProducerWait
  PROVE  SemInv' /\ UNCHANGED R!Promise!vars
<1>1. /\ ppc = "wait" /\ UNCHANGED <<number, done, got, cpc, consumerSems>>
      /\ producerSem > 0 /\ producerSem' = producerSem - 1
      /\ R!A!Loop("read")
  BY Zenon DEF R!A!ProducerWait
<1>2. \/ i = Many /\ i' = 1 /\ ppc' = "read"
      \/ i # Many /\ i' = i + 1 /\ ppc' = "wait"
  BY <1>1, LoopIs
<1>3. i \in 1..Many /\ Many \in Nat /\ producerSem \in Nat
  BY OwedIs
<1>4. Owed' = Owed
  BY <1>1 DEF Owed
<1>5. SemTypes' /\ ProgramTypes'
  BY <1>1, <1>2, <1>3 DEF SemInv, SemTypes, ProgramTypes, PPCs
<1>6. SemPlaces'
  <2>1. producerSem + Cardinality(Owed) = Many - i + 1
    BY <1>1 DEF SemInv, SemPlaces, Expected
  <2>2. Expected' = Many - i
    BY <1>2, <1>3 DEF Expected
  <2>3. producerSem' + Cardinality(Owed') = Expected'
    BY <1>1, <1>3, <1>4, <2>1, <2>2, OwedIs
  <2> QED BY <1>1, <1>2, <2>3 DEF SemInv, SemPlaces, ToRelease
<1>7. Worked({d \in Consumer : consumerSems[d] = 1 \/ cpc[d] = "job" \/ ToRelease(d)})'
  BY <1>1, <1>2 DEF SemInv, Worked, ToRelease
<1>8. UNCHANGED R!Promise!vars
  BY <1>1, <1>2, QuietStep
<1> QED BY <1>5, <1>6, <1>7, <1>8 DEF SemInv

\* A consumer takes its release.
LEMMA SemPasses ==
  ASSUME R!ProgramAssumption, SemInv, NEW c \in Consumer, R!A!ConsumerWait(c)
  PROVE  SemInv' /\ UNCHANGED R!Promise!vars
<1>1. /\ cpc[c] = "wait" /\ consumerSems[c] > 0 /\ cpc' = [cpc EXCEPT ![c] = "job"]
      /\ consumerSems' = [consumerSems EXCEPT ![c] = @ - 1]
      /\ UNCHANGED <<number, done, got, ppc, producerSem, i>>
  BY Zenon DEF R!A!ConsumerWait, R!A!CGoto
<1>2. /\ consumerSems[c] = 1 /\ SemTypes' /\ ProgramTypes'
      /\ \A d \in Consumer : consumerSems'[d] = IF d = c THEN 0 ELSE consumerSems[d]
      /\ \A d \in Consumer : cpc'[d] = IF d = c THEN "job" ELSE cpc[d]
  BY <1>1 DEF SemInv, SemTypes, ProgramTypes
<1>3. Owed' = Owed
  BY <1>1, <1>2 DEF Owed
<1>4. SemPlaces'
  BY <1>1, <1>2, <1>3 DEF SemInv, SemPlaces, ToRelease, Expected
<1>5. Worked({d \in Consumer : consumerSems[d] = 1 \/ cpc[d] = "job" \/ ToRelease(d)})'
  BY <1>1, <1>2 DEF SemInv, Worked, ToRelease
<1>6. UNCHANGED R!Promise!vars
  BY <1>1, <1>2, QuietStep
<1> QED BY <1>2, <1>4, <1>5, <1>6 DEF SemInv

\* A consumer releases the producer, whose semaphore is not full.
LEMMA SemReleases ==
  ASSUME R!ProgramAssumption, SemInv, NEW c \in Consumer, R!A!ConsumerSignal(c)
  PROVE  SemInv' /\ UNCHANGED R!Promise!vars
<1>1. cpc[c] = "signal" /\ UNCHANGED <<number, done, got, ppc, consumerSems, i>>
  BY DEF R!A!ConsumerSignal
<1>2. c \in Owed /\ consumerSems[c] = 0 /\ cpc \in [Consumer -> {"wait", "job", "signal", "end"}]
  BY <1>1 DEF SemInv, SemTypes, SemPlaces, Owed
<1>3. producerSem + Cardinality(Owed) <= Many
  BY OwedIs DEF SemInv, SemPlaces, Expected
<1>4. producerSem < Many
  BY <1>2, <1>3, OwedIs
<1>5. producerSem' = producerSem + 1 /\ cpc' = [cpc EXCEPT ![c] = "wait"]
  BY <1>4, ManyIs DEF R!A!ConsumerSignal, R!A!CGoto
<1>6. \A d \in Consumer : cpc'[d] = IF d = c THEN "wait" ELSE cpc[d]
  BY <1>2, <1>5
<1>7. SemTypes' /\ ProgramTypes'
  BY <1>1, <1>2, <1>5 DEF SemInv, SemTypes, ProgramTypes
<1>8. Owed' = Owed \ {c} /\ Cardinality(Owed') = Cardinality(Owed) - 1
  <2>1. Owed' = Owed \ {c}
    BY <1>1, <1>2, <1>6 DEF Owed
  <2> QED BY <1>2, <2>1, OwedIs, FS_RemoveElement
<1>9. SemPlaces'
  <2>1. producerSem' + Cardinality(Owed') = Expected'
    BY <1>1, <1>5, <1>8, OwedIs DEF SemInv, SemPlaces, Expected
  <2> QED BY <1>1, <1>2, <1>6, <1>8, <2>1 DEF SemInv, SemPlaces, ToRelease
<1>10. Worked({d \in Consumer : consumerSems[d] = 1 \/ cpc[d] = "job" \/ ToRelease(d)})'
  BY <1>1, <1>2, <1>6 DEF SemInv, Worked, ToRelease
<1>11. UNCHANGED R!Promise!vars
  BY <1>1, <1>6, QuietStep
<1> QED BY <1>7, <1>9, <1>10, <1>11 DEF SemInv

\* The program itself, main and the jobs, is the same in the three versions.
LEMMA SemProgram == R!A!Program => R!Program
BY Zenon DEF R!A!Program, R!A!Start, R!A!Read, R!A!Join, R!A!Job, R!A!PGoto, R!A!CGoto,
             R!Program, R!Start, R!Read, R!Join, R!Job, R!PGoto, R!CGoto

\* The invariant of version A is inductive, and its steps are steps of Rounds.
LEMMA SemNext ==
  ASSUME R!ProgramAssumption, SemInv, R!A!Next
  PROVE  SemInv' /\ [R!Promise!Next]_(R!Promise!vars)
<1>1. ASSUME R!Program, UNCHANGED <<producerSem, consumerSems, i>>
      PROVE  SemInv' /\ [R!Promise!Next]_(R!Promise!vars)
  <2>1. CASE R!Start
    <3>1. /\ UNCHANGED <<number, got, cpc>>
          /\ (done /\ ppc # "start")' <=> done /\ ppc # "start"
      BY <2>1 DEF R!Start, R!PGoto
    <3> QED BY <1>1, <2>1, <3>1, SemStarts, QuietStep
  <2>2. CASE R!Join
    <3>1. /\ UNCHANGED <<number, got, cpc>>
          /\ (done /\ ppc # "start")' <=> done /\ ppc # "start"
      BY <2>2 DEF R!Join, R!PGoto
    <3> QED BY <1>1, <2>2, <3>1, SemJoins, QuietStep
  <2>3. CASE R!Read
    BY <1>1, <2>3, SemReads
  <2>4. CASE \E c \in Consumer : R!Job(c)
    BY <1>1, <2>4, SemWorks
  <2> QED BY <1>1, <2>1, <2>2, <2>3, <2>4 DEF R!Program
<1>2. CASE R!A!Program /\ UNCHANGED <<R!A!sems, i>>
  BY <1>1, <1>2, SemProgram DEF R!A!sems
<1>3. CASE R!A!ProducerSignal \/ R!A!ProducerWait
  BY <1>3, SemSignals, SemWaits
<1>4. CASE \E c \in Consumer : R!A!ConsumerWait(c) \/ R!A!ConsumerSignal(c)
  BY <1>4, SemPasses, SemReleases
<1> QED BY <1>2, <1>3, <1>4 DEF R!A!Next

\* The invariant says that the releases fit.
LEMMA SemFits == ASSUME SemInv PROVE R!A!ReleasesFit
<1>1. ppc # "failed" /\ \A c \in Consumer : cpc[c] # "failed"
  BY DEF SemInv, SemTypes, ProgramTypes, PPCs
<1>2. R!A!N = Many /\ R!A!Cardinality(Owed) = Cardinality(Owed)
  BY Zenon DEF R!A!N, Many, R!A!Cardinality, Cardinality, R!A!IsFiniteSet, IsFiniteSet
<1>3. ppc = "wait" => Many - i + 1 = producerSem + Cardinality(Owed)
  BY DEF SemInv, SemPlaces, Expected
<1> QED BY <1>1, <1>2, <1>3 DEF R!A!ReleasesFit, Owed

-----------------------------------------------------------------------------
(* Version B: the events.  Every consumer has a turn, which main, one of its *)
(* two events or the consumer itself holds, and never two of them.           *)

\* main has to signal this consumer in this loop.
ToSignal(c) == ppc = "signal" /\ \E k \in i..Many : c = R!B!Order[k]

EventTypes ==
  /\ cpc \in [Consumer -> {"wait", "job", "signal", "end"}] /\ i \in 1..Many
  /\ consumerEvents \in [Consumer -> BOOLEAN] /\ producerEvents \in [Consumer -> BOOLEAN]
  /\ i # 1 => ppc = "signal"

EventTurn == \A c \in Consumer :
  /\ ppc \in {"start", "read"} \/ ToSignal(c) =>
       ~consumerEvents[c] /\ cpc[c] = "wait" /\ ~producerEvents[c]
  /\ consumerEvents[c] => cpc[c] = "wait" /\ ~producerEvents[c]
  /\ producerEvents[c] => cpc[c] = "wait"

EventInv ==
  /\ ProgramTypes /\ EventTypes /\ EventTurn
  /\ Worked({c \in Consumer : consumerEvents[c] \/ cpc[c] = "job" \/ ToSignal(c)})

\* The array of the consumers has each of them once.
LEMMA EventOrder ==
  ASSUME R!ProgramAssumption
  PROVE  /\ \A k \in 1..Many : R!B!Order[k] \in Consumer
         /\ \A c \in Consumer : \E k \in 1..Many : c = R!B!Order[k]
         /\ \A j, k \in 1..Many : R!B!Order[j] = R!B!Order[k] => j = k
<1>1. R!B!Order = CHOOSE s \in [1..Many -> Consumer] :
                    \A c \in Consumer : \E k \in 1..Many : s[k] = c
  BY ManyIs DEF R!B!Order
<1>2. /\ R!B!Order \in [1..Many -> Consumer]
      /\ \A c \in Consumer : \E k \in 1..Many : R!B!Order[k] = c
  BY <1>1, OrderIs, Zenon
<1>3. \A j, k \in 1..Many : R!B!Order[j] = R!B!Order[k] => j = k
  BY <1>2, OrderIs, Zenon
<1> QED BY <1>2, <1>3

\* main has all the turns at the start.
LEMMA EventStart == ASSUME R!ProgramAssumption, R!B!Init PROVE EventInv
<1>1. /\ number = 0 /\ ppc = "start" /\ cpc = [c \in Consumer |-> "wait"]
      /\ got = [c \in Consumer |-> <<>>] /\ i = 1
      /\ consumerEvents = [c \in Consumer |-> FALSE]
      /\ producerEvents = [c \in Consumer |-> FALSE]
  BY DEF R!B!Init, R!B!InitProgram
<1>2. ProgramTypes /\ EventTypes
  BY <1>1, ManyIs DEF ProgramTypes, EventTypes, PPCs
<1>3. EventTurn /\ Worked({c \in Consumer : consumerEvents[c] \/ cpc[c] = "job" \/ ToSignal(c)})
  BY <1>1 DEF EventTurn, Worked, ToSignal
<1> QED BY <1>2, <1>3 DEF EventInv

\* main initializes done, or has joined its consumers.
LEMMA EventMain ==
  ASSUME R!ProgramAssumption, EventInv, R!Start \/ R!Join,
         UNCHANGED <<consumerEvents, producerEvents, i>>
  PROVE  EventInv' /\ UNCHANGED R!Promise!vars
<1>1. /\ UNCHANGED <<number, got, cpc, consumerEvents, producerEvents, i>>
      /\ \/ ppc = "start" /\ ppc' = "read" /\ ~done'
         \/ ppc = "join" /\ ppc' = "end" /\ UNCHANGED done
  BY Zenon DEF R!Start, R!Join, R!PGoto
<1>2. ProgramTypes' /\ EventTypes' /\ EventTurn'
  BY <1>1 DEF EventInv, ProgramTypes, EventTypes, EventTurn, ToSignal, PPCs
<1>3. Worked({c \in Consumer : consumerEvents[c] \/ cpc[c] = "job" \/ ToSignal(c)})'
  BY <1>1 DEF EventInv, EventTurn, Worked, ToSignal
<1>4. UNCHANGED R!Promise!vars
  BY <1>1, QuietStep
<1> QED BY <1>2, <1>3, <1>4 DEF EventInv

\* main reads when it has all the turns.
LEMMA EventReads ==
  ASSUME R!ProgramAssumption, EventInv, R!Read,
         UNCHANGED <<consumerEvents, producerEvents, i>>
  PROVE  EventInv' /\ R!Promise!Next
<1>1. /\ ppc = "read" /\ ppc' = "signal"
      /\ UNCHANGED <<got, cpc, consumerEvents, producerEvents, i>>
      /\ \/ number' = number + 1 /\ UNCHANGED done
         \/ done' /\ UNCHANGED number
  BY Zenon DEF R!Read, R!PGoto
<1>2. ~done /\ i = 1
  BY <1>1 DEF EventInv, EventTypes, ProgramTypes
<1>3. ProgramTypes' /\ EventTypes' /\ EventTurn'
  BY <1>1 DEF EventInv, ProgramTypes, EventTypes, EventTurn, PPCs
<1>4. \A c \in Consumer : Len(got[c]) = number
  BY <1>1 DEF EventInv, EventTurn, Worked, ToSignal
<1>5. \A c \in Consumer : ToSignal(c)'
  BY <1>1, <1>2, EventOrder DEF ToSignal
<1>6. Worked({c \in Consumer : consumerEvents[c] \/ cpc[c] = "job" \/ ToSignal(c)})'
  BY <1>1, <1>2, <1>4, <1>5 DEF Worked, EventInv, ProgramTypes
<1>7. R!Promise!Next
  BY <1>2, <1>4, ReadStep DEF EventInv, ProgramTypes
<1> QED BY <1>3, <1>6, <1>7 DEF EventInv

\* A consumer works on the record it was signalled, or leaves.
LEMMA EventWorks ==
  ASSUME R!ProgramAssumption, EventInv, NEW c \in Consumer, R!Job(c),
         UNCHANGED <<consumerEvents, producerEvents, i>>
  PROVE  EventInv' /\ R!Promise!Next
<1>1. PICK to \in {"signal", "end"} : cpc' = [cpc EXCEPT ![c] = to]
  BY Zenon DEF R!Job, R!CGoto
<1>2. /\ cpc[c] = "job" /\ UNCHANGED <<number, done, ppc, consumerEvents, producerEvents, i>>
      /\ \/ done /\ got' = got
         \/ ~done /\ got' = [got EXCEPT ![c] = Append(@, number)]
  BY Zenon DEF R!Job
<1>3. cpc \in [Consumer -> {"wait", "job", "signal", "end"}]
      /\ got \in [Consumer -> Seq(Nat)] /\ number \in Nat
  BY DEF EventInv, EventTypes, ProgramTypes
<1>4. ppc # "start" /\ ~ToSignal(c) /\ ~consumerEvents[c] /\ ~producerEvents[c]
  BY <1>2 DEF EventInv, EventTurn
<1>5. EventTypes'
  BY <1>1, <1>2, <1>3 DEF EventInv, EventTypes
<1>6. ProgramTypes'
  <2>1. got' \in [Consumer -> Seq(Nat)]
    <3>1. Append(got[c], number) \in Seq(Nat)
      BY <1>3
    <3> QED BY <1>2, <1>3, <3>1, Zenon
  <2> QED BY <1>2, <1>3, <2>1 DEF EventInv, ProgramTypes
<1>7. EventTurn'
  BY <1>1, <1>2, <1>3, <1>4 DEF EventInv, EventTurn, ToSignal
<1>8. ~done => Len(got[c]) = number - 1
  BY <1>2, <1>4 DEF EventInv, Worked
<1>9. ~done => Len(got'[c]) = number
  BY <1>2, <1>3, <1>8
<1>10. Worked({d \in Consumer : consumerEvents[d] \/ cpc[d] = "job" \/ ToSignal(d)})'
  <2>. DEFINE S == {d \in Consumer : consumerEvents[d] \/ cpc[d] = "job" \/ ToSignal(d)}
  <2>1. Worked(S) /\ ppc' # "start" /\ done' = done /\ number' = number
    BY <1>2, <1>4 DEF EventInv
  <2>2. c \in S /\ c \notin S'
    BY <1>1, <1>2, <1>3, <1>4 DEF ToSignal
  <2>3. ASSUME NEW d \in Consumer \ {c} PROVE (d \in S' <=> d \in S) /\ got'[d] = got[d]
    BY <1>1, <1>2, <1>3 DEF ToSignal
  <2>4. Len(got'[c]) = number
    BY <1>2, <1>9, <2>1, <2>2 DEF Worked
  <2>. HIDE DEF S
  <2>5. Worked(S)'
    BY <2>1, <2>2, <2>3, <2>4, <1>4 DEF Worked
  <2> QED BY <2>5 DEF S
<1>11. R!Promise!Next
  BY <1>3, <1>4, <1>8, JobStep
<1> QED BY <1>5, <1>6, <1>7, <1>10, <1>11 DEF EventInv

\* main gives the next consumer its turn.
LEMMA EventSignals ==
  ASSUME R!ProgramAssumption, EventInv, R!B!ProducerSignal
  PROVE  EventInv' /\ UNCHANGED R!Promise!vars /\ ~consumerEvents[R!B!Order[i]]
<1> DEFINE c == R!B!Order[i]
<1>1. /\ ppc = "signal" /\ UNCHANGED <<number, done, got, cpc, producerEvents>>
      /\ consumerEvents' = [consumerEvents EXCEPT ![c] = TRUE]
  BY DEF R!B!ProducerSignal
<1>2. i \in 1..Many /\ Many \in Nat
  BY ManyIs DEF EventInv, EventTypes
<1>3. \/ i = Many /\ i' = 1 /\ ppc' = IF done THEN "join" ELSE "wait"
      \/ i # Many /\ i' = i + 1 /\ ppc' = "signal"
  BY ManyIs DEF R!B!ProducerSignal, R!B!PGoto, R!B!AfterSignal
<1>4. c \in Consumer /\ ToSignal(c)
  BY <1>1, <1>2, EventOrder DEF ToSignal
<1>5. ~consumerEvents[c] /\ cpc[c] = "wait" /\ ~producerEvents[c]
  BY <1>4 DEF EventInv, EventTurn
<1>6. /\ consumerEvents' \in [Consumer -> BOOLEAN]
      /\ \A d \in Consumer : consumerEvents'[d] <=> d = c \/ consumerEvents[d]
  BY <1>1, <1>4 DEF EventInv, EventTypes
<1>7. \A d \in Consumer : ToSignal(d)' <=> ToSignal(d) /\ d # c
  BY <1>1, <1>2, <1>3, EventOrder DEF ToSignal
<1>8. ProgramTypes' /\ EventTypes'
  BY <1>1, <1>2, <1>3, <1>6 DEF EventInv, ProgramTypes, EventTypes, PPCs
<1>9. EventTurn'
  BY <1>1, <1>3, <1>5, <1>6, <1>7 DEF EventInv, EventTurn
<1>10. Worked({d \in Consumer : consumerEvents[d] \/ cpc[d] = "job" \/ ToSignal(d)})'
  <2>1. {d \in Consumer : consumerEvents[d] \/ cpc[d] = "job" \/ ToSignal(d)}'
        = {d \in Consumer : consumerEvents[d] \/ cpc[d] = "job" \/ ToSignal(d)}
    BY <1>1, <1>4, <1>6, <1>7
  <2> QED BY <1>1, <1>3, <2>1 DEF EventInv, Worked
<1>11. UNCHANGED R!Promise!vars
  BY <1>1, <1>3, QuietStep
<1> QED BY <1>5, <1>8, <1>9, <1>10, <1>11 DEF EventInv

\* main takes all the turns back at once.
LEMMA EventWaits ==
  ASSUME R!ProgramAssumption, EventInv, R!B!ProducerWait
  PROVE  EventInv' /\ UNCHANGED R!Promise!vars
<1>1. /\ ppc = "wait" /\ ppc' = "read" /\ \A c \in Consumer : producerEvents[c]
      /\ producerEvents' = [c \in Consumer |-> FALSE]
      /\ UNCHANGED <<number, done, got, cpc, consumerEvents, i>>
  BY Zenon DEF R!B!ProducerWait, R!B!PGoto
<1>2. ProgramTypes' /\ EventTypes'
  BY <1>1 DEF EventInv, ProgramTypes, EventTypes, PPCs
<1>3. EventTurn'
  BY <1>1 DEF EventInv, EventTurn
<1>4. Worked({d \in Consumer : consumerEvents[d] \/ cpc[d] = "job" \/ ToSignal(d)})'
  BY <1>1 DEF EventInv, Worked, ToSignal
<1>5. UNCHANGED R!Promise!vars
  BY <1>1, QuietStep
<1> QED BY <1>2, <1>3, <1>4, <1>5 DEF EventInv

\* A consumer takes its turn, and gives it to main.
LEMMA EventConsumer ==
  ASSUME R!ProgramAssumption, EventInv, NEW c \in Consumer,
         R!B!ConsumerWait(c) \/ R!B!ConsumerSignal(c)
  PROVE  /\ EventInv' /\ UNCHANGED R!Promise!vars
         /\ R!B!ConsumerSignal(c) => ~producerEvents[c]
<1>1. UNCHANGED <<number, done, got, ppc, i>>
  BY DEF R!B!ConsumerWait, R!B!ConsumerSignal
<1>2. \/ /\ cpc[c] = "wait" /\ cpc' = [cpc EXCEPT ![c] = "job"]
         /\ consumerEvents[c] /\ consumerEvents' = [consumerEvents EXCEPT ![c] = FALSE]
         /\ UNCHANGED producerEvents
      \/ /\ cpc[c] = "signal" /\ cpc' = [cpc EXCEPT ![c] = "wait"]
         /\ producerEvents' = [producerEvents EXCEPT ![c] = TRUE]
         /\ UNCHANGED consumerEvents
  BY Zenon DEF R!B!ConsumerWait, R!B!ConsumerSignal, R!B!CGoto
<1>3. ppc \notin {"start", "read"} /\ ~ToSignal(c) /\ ~producerEvents[c]
  BY <1>2 DEF EventInv, EventTurn
<1>4. ProgramTypes' /\ EventTypes'
  BY <1>1, <1>2 DEF EventInv, ProgramTypes, EventTypes
<1>5. EventTurn'
  BY <1>1, <1>2, <1>3 DEF EventInv, EventTypes, EventTurn, ToSignal
<1>6. Worked({d \in Consumer : consumerEvents[d] \/ cpc[d] = "job" \/ ToSignal(d)})'
  BY <1>1, <1>2 DEF EventInv, EventTypes, EventTurn, Worked, ToSignal
<1>7. UNCHANGED R!Promise!vars
  <2>1. \A d \in Consumer : cpc'[d] = "end" <=> cpc[d] = "end"
    BY <1>2 DEF EventInv, EventTypes
  <2> QED BY <1>1, <2>1, QuietStep
<1> QED BY <1>3, <1>4, <1>5, <1>6, <1>7 DEF EventInv

\* The program itself is the same here, too.
LEMMA EventProgram == R!B!Program => R!Program
BY Zenon DEF R!B!Program, R!B!Start, R!B!Read, R!B!Join, R!B!Job, R!B!PGoto, R!B!CGoto,
             R!Program, R!Start, R!Read, R!Join, R!Job, R!PGoto, R!CGoto

\* The invariant of version B is inductive, and its steps are steps of Rounds.
LEMMA EventNext ==
  ASSUME R!ProgramAssumption, EventInv, R!B!Next
  PROVE  EventInv' /\ [R!Promise!Next]_(R!Promise!vars)
<1>1. CASE R!B!Program /\ UNCHANGED <<R!B!events, i>>
  <2>1. R!Program /\ UNCHANGED <<consumerEvents, producerEvents, i>>
    BY <1>1, EventProgram DEF R!B!events
  <2> QED BY <2>1, EventMain, EventReads, EventWorks DEF R!Program
<1>2. CASE R!B!ProducerSignal \/ R!B!ProducerWait
  BY <1>2, EventSignals, EventWaits
<1>3. CASE \E c \in Consumer : R!B!ConsumerWait(c) \/ R!B!ConsumerSignal(c)
  BY <1>3, EventConsumer
<1> QED BY <1>1, <1>2, <1>3 DEF R!B!Next

-----------------------------------------------------------------------------
(* Version C: the doors.  A round goes through phases. *)

\* The types the proofs need, and what main knows of the end of the file.
DoorTypes ==
  /\ ppc \in PPCs /\ cpc \in [Consumer -> R!C!CPCs]
  /\ number \in Nat /\ got \in [Consumer -> Seq(Nat)]
  /\ ppc \in {"read", "wait"} => ~done

\* The phases of a round.  Nobody is inside: main has the turn, or is about to
\* pass its door.
Outside ==
  /\ R!C!At({"wait"}) = Consumer /\ firstRoom = 0 /\ secondRoom = 0
  /\ ~firstDoor /\ ~secondDoor
  /\ producerDoor <=> ppc \in {"wait", "join", "end"}

Inside == ~producerDoor /\ ppc \in {"wait", "join", "end"}

\* The consumers enter the first room; those that have been counted are in it.
Entering ==
  /\ Inside /\ firstDoor /\ ~secondDoor /\ secondRoom = 0
  /\ Consumer = R!C!At({"wait", "enter1", "job", "signal", "end"})
  /\ firstRoom = Cardinality(R!C!At({"job", "signal", "end"})) /\ firstRoom < Many

\* The last one, c, closes the first door and opens the second.
Closing1(c) ==
  /\ Inside /\ ~secondDoor /\ secondRoom = 0
  /\ Consumer \ {c} = R!C!At({"job", "signal", "end"})
  /\ \/ cpc[c] = "last1" /\ firstDoor /\ firstRoom = Many
     \/ cpc[c] = "close1" /\ firstDoor /\ firstRoom = 0
     \/ cpc[c] = "open2" /\ ~firstDoor /\ firstRoom = 0

\* The consumers do their jobs and leave by the second door.
Leaving ==
  /\ Inside /\ ~firstDoor /\ secondDoor /\ firstRoom = 0
  /\ Consumer = R!C!At({"job", "signal", "end", "enter2", "wait"})
  /\ secondRoom = Cardinality(R!C!At({"wait"})) /\ secondRoom < Many

\* The last one, c, closes the second door and opens the producer's.
Closing2(c) ==
  /\ Inside /\ ~firstDoor /\ firstRoom = 0
  /\ Consumer \ {c} = R!C!At({"wait"})
  /\ \/ cpc[c] = "last2" /\ secondDoor /\ secondRoom = Many
     \/ cpc[c] = "close2" /\ secondDoor /\ secondRoom = 0
     \/ cpc[c] = "openP" /\ ~secondDoor /\ secondRoom = 0

Phase ==
  \/ Outside \/ Entering \/ Leaving
  \/ \E c \in Consumer : Closing1(c) \/ Closing2(c)

\* Who has still to work on the last record.
Behind(c) ==
  /\ ~done
  /\ \/ cpc[c] \in {"enter1", "last1", "close1", "open2", "job"}
     \/ cpc[c] = "wait" /\ (ppc = "signal" \/ firstDoor)

DoorWorked == \A c \in Consumer :
  ppc # "start" => Len(got[c]) = IF Behind(c) THEN number - 1 ELSE number

DoorStarted == ppc = "start" => number = 0 /\ \A c \in Consumer : got[c] = <<>>

DoorInv == DoorTypes /\ Phase /\ DoorWorked /\ DoorStarted
-----------------------------------------------------------------------------
\* The consumers at some places are finitely many, and fewer than N when one
\* is elsewhere; when only one is elsewhere, N - 1.
LEMMA ElsewhereIs ==
  ASSUME R!ProgramAssumption, NEW labels, NEW c \in Consumer, cpc[c] \notin labels
  PROVE  /\ Cardinality(R!C!At(labels)) \in Nat /\ Cardinality(R!C!At(labels)) < Many
         /\ Cardinality(R!C!At(labels)) = Many - 1 => R!C!At(labels) = Consumer \ {c}
         /\ IsFiniteSet(R!C!At(labels)) /\ c \notin R!C!At(labels)
<1>1. IsFiniteSet(Consumer) /\ R!C!At(labels) \subseteq Consumer \ {c}
  BY ManyIs DEF R!C!At
<1>2. IsFiniteSet(Consumer \ {c}) /\ Cardinality(Consumer \ {c}) = Many - 1
  BY <1>1, FS_RemoveElement DEF Many
<1>3. IsFiniteSet(R!C!At(labels)) /\ Cardinality(R!C!At(labels)) <= Many - 1
      /\ (Cardinality(R!C!At(labels)) = Many - 1 => R!C!At(labels) = Consumer \ {c})
  BY <1>1, <1>2, FS_Subset
<1>4. Cardinality(R!C!At(labels)) \in Nat /\ Many \in Nat
  BY <1>3, FS_CardinalityType, ManyIs
<1> QED BY <1>1, <1>3, <1>4

\* main sets done before anybody can be inside.
LEMMA StartPhase ==
  ASSUME R!ProgramAssumption, DoorInv, R!C!Start, UNCHANGED <<R!C!doors, R!C!rooms>>
  PROVE  Phase'
BY SMTT(10)
DEF R!C!Start, DoorInv, Phase, Outside, Inside, Entering, Leaving, Closing1,
   Closing2, R!C!At, R!C!doors, R!C!rooms, R!C!PGoto

\* main passes its door, which the last consumer opened, and closes it.
LEMMA ProducerWaitPhase ==
  ASSUME R!ProgramAssumption, DoorInv, R!C!ProducerWait
  PROVE  Phase'
<1>1. Outside
  BY Zenon
  DEF R!C!ProducerWait, DoorInv, Phase, Inside, Entering, Leaving, Closing1, Closing2
<1>2. /\ ~producerDoor' /\ ppc' = "read"
      /\ UNCHANGED <<cpc, firstDoor, secondDoor, firstRoom, secondRoom>>
  BY Zenon DEF R!C!ProducerWait, R!C!PGoto, R!C!rooms
<1>3. Outside'
  BY <1>1, <1>2, SMTT(10) DEF Outside, R!C!At
<1> QED BY <1>3 DEF Phase

\* main opens the first door when all consumers are in front of it.
LEMMA ProducerSignalPhase ==
  ASSUME R!ProgramAssumption, DoorInv, R!C!ProducerSignal
  PROVE  Phase'
<1>1. Outside /\ ~producerDoor
  BY SMTT(10)
  DEF R!C!ProducerSignal, DoorInv, Phase, Outside, Inside, Entering, Leaving,
     Closing1, Closing2
<1>2. /\ firstDoor' /\ ~secondDoor' /\ ~producerDoor'
      /\ ppc' \in {"wait", "join", "end"}
      /\ UNCHANGED <<cpc, firstRoom, secondRoom>>
  BY <1>1, SMTT(10) DEF R!C!ProducerSignal, R!C!PGoto, R!C!AfterSignal, R!C!rooms, Outside
<1>3. /\ R!C!At({"job", "signal", "end"})' = {}
      /\ Consumer = R!C!At({"wait", "enter1", "job", "signal", "end"})'
  BY <1>1, <1>2, SMTT(10) DEF Outside, R!C!At
<1>4. Entering'
  BY <1>1, <1>2, <1>3, FS_EmptySet, ManyIs, SMTT(10)
  DEF Outside, Entering, Inside, Many
<1> QED BY <1>4 DEF Phase

\* A job moves its consumer within the first room; nobody is at a job while
\* the second door is being closed.
LEMMA JobPhase ==
  ASSUME R!ProgramAssumption, DoorInv, NEW c \in Consumer, R!C!Job(c),
         UNCHANGED <<R!C!doors, R!C!rooms>>
  PROVE  Phase'
<1>1. PICK to \in {"signal", "end"} : cpc' = [cpc EXCEPT ![c] = to]
  BY Zenon DEF R!C!Job, R!C!CGoto
<1>2. /\ cpc[c] = "job"
      /\ UNCHANGED <<ppc, firstDoor, secondDoor, producerDoor, firstRoom, secondRoom>>
  BY DEF R!C!Job, R!C!doors, R!C!rooms
<1>3. \A d \in Consumer : cpc'[d] = IF d = c THEN to ELSE cpc[d]
  BY <1>1 DEF DoorInv, DoorTypes
<1>4. /\ R!C!At({"job", "signal", "end"})' = R!C!At({"job", "signal", "end"})
      /\ R!C!At({"wait"})' = R!C!At({"wait"})
  BY <1>2, <1>3, SMTT(10) DEF R!C!At
<1>5. ~Outside
  BY <1>2, SMTT(10) DEF Outside, R!C!At
<1>6. CASE Entering
  <2>1. Entering'
    BY <1>2, <1>3, <1>4, <1>6, SMTT(10) DEF Entering, Inside, R!C!At
  <2> QED BY <2>1 DEF Phase
<1>7. CASE Leaving
  <2>1. Leaving'
    BY <1>2, <1>3, <1>4, <1>7, SMTT(10) DEF Leaving, Inside, R!C!At
  <2> QED BY <2>1 DEF Phase
<1>8. CASE \E d \in Consumer : Closing1(d) \/ Closing2(d)
  <2>1. PICK d \in Consumer : Closing1(d) \/ Closing2(d)
    BY <1>8
  <2>2. d # c
    BY <1>2, <2>1, SMTT(10) DEF Closing1, Closing2
  <2>3. Closing1(d)
    BY <1>2, <2>1, <2>2, SMTT(10) DEF Closing2, R!C!At
  <2>4. Closing1(d)'
    BY <1>2, <1>3, <1>4, <2>2, <2>3, SMTT(10) DEF Closing1, Inside
  <2> QED BY <2>4 DEF Phase
<1> QED BY <1>5, <1>6, <1>7, <1>8, Zenon DEF DoorInv, Phase

\* What a step of a consumer changes and what it leaves.
LEMMA StepMoves ==
  ASSUME DoorInv, NEW c \in Consumer, NEW from, NEW to, R!C!Step(c, from, to)
  PROVE  /\ cpc[c] = from /\ ppc' = ppc
         /\ \A d \in Consumer : cpc'[d] = IF d = c THEN to ELSE cpc[d]
BY DEF R!C!Step, R!C!CGoto, DoorInv, DoorTypes

\* A consumer passes the first door while it is open, which is while Entering.
LEMMA PassFirstPhase ==
  ASSUME R!ProgramAssumption, DoorInv, NEW c \in Consumer, R!C!PassFirst(c)
  PROVE  Phase'
<1>1. /\ cpc[c] = "wait" /\ firstDoor /\ UNCHANGED <<ppc, R!C!doors, R!C!rooms>>
      /\ \A d \in Consumer : cpc'[d] = IF d = c THEN "enter1" ELSE cpc[d]
  BY StepMoves DEF R!C!PassFirst
<1>2. Entering
  BY <1>1, SMTT(10) DEF DoorInv, Phase, Outside, Leaving, Closing1, Closing2, R!C!At
<1>3. R!C!At({"job", "signal", "end"})' = R!C!At({"job", "signal", "end"})
  BY <1>1, SMTT(10) DEF R!C!At
<1>4. Entering'
  BY <1>1, <1>2, <1>3, SMTT(10) DEF Entering, Inside, R!C!At, R!C!doors, R!C!rooms
<1> QED BY <1>4 DEF Phase

\* ++threadInFirstRoom: the last consumer of the round goes to close the door.
LEMMA EnterFirstPhase ==
  ASSUME R!ProgramAssumption, DoorInv, NEW c \in Consumer, R!C!EnterFirst(c)
  PROVE  Phase'
<1> DEFINE to == IF firstRoom + 1 = Many THEN "last1" ELSE "job"
<1> DEFINE In == R!C!At({"job", "signal", "end"})
<1>1. /\ cpc[c] = "enter1" /\ firstRoom' = firstRoom + 1
      /\ UNCHANGED <<ppc, R!C!doors, secondRoom>>
      /\ \A d \in Consumer : cpc'[d] = IF d = c THEN to ELSE cpc[d]
  BY StepMoves, ManyIs DEF R!C!EnterFirst
<1>2. Entering
  BY <1>1, SMTT(10) DEF DoorInv, Phase, Outside, Leaving, Closing1, Closing2, R!C!At
<1>3. /\ IsFiniteSet(In) /\ Cardinality(In) \in Nat /\ Cardinality(In) < Many
      /\ (Cardinality(In) = Many - 1 => In = Consumer \ {c}) /\ c \notin In
  <2>1. cpc[c] \notin {"job", "signal", "end"}
    BY <1>1
  <2> QED BY <2>1, ElsewhereIs
<1>4. CASE firstRoom + 1 = Many
  <2>1. In = Consumer \ {c}
    BY <1>2, <1>3, <1>4, ManyIs, SMTT(10) DEF Entering
  <2>2. In' = Consumer \ {c} /\ cpc'[c] = "last1"
    BY <1>1, <1>4, <2>1, SMTT(10) DEF R!C!At
  <2>3. Closing1(c)'
    BY <1>1, <1>2, <1>4, <2>2, SMTT(10)
    DEF Entering, Closing1, Inside, R!C!doors, Many
  <2> QED BY <2>3 DEF Phase
<1>5. CASE firstRoom + 1 # Many
  <2>1. In' = In \cup {c}
    BY <1>1, <1>5, SMTT(10) DEF R!C!At
  <2>2. Cardinality(In') = firstRoom' /\ firstRoom' < Many
    <3>1. Cardinality(In') = Cardinality(In) + 1
      BY <1>3, <2>1, FS_AddElement
    <3> QED BY <1>1, <1>2, <1>3, <1>5, <3>1, ManyIs, SMTT(10) DEF Entering
  <2>3. Consumer = R!C!At({"wait", "enter1", "job", "signal", "end"})'
    BY <1>1, <1>2, <1>5, SMTT(10) DEF Entering, R!C!At
  <2>4. Entering'
    BY <1>1, <1>2, <2>2, <2>3, SMTT(10) DEF Entering, Inside, R!C!doors, Many
  <2> QED BY <2>4 DEF Phase
<1> QED BY <1>4, <1>5

\* The last consumer resets threadInFirstRoom.
LEMMA EmptyFirstPhase ==
  ASSUME R!ProgramAssumption, DoorInv, NEW c \in Consumer, R!C!EmptyFirst(c)
  PROVE  Phase'
<1>1. /\ cpc[c] = "last1" /\ firstRoom' = 0 /\ UNCHANGED <<ppc, R!C!doors, secondRoom>>
      /\ \A d \in Consumer : cpc'[d] = IF d = c THEN "close1" ELSE cpc[d]
  BY StepMoves DEF R!C!EmptyFirst
<1>2. Closing1(c)
  BY <1>1, SMTT(10)
  DEF DoorInv, Phase, Outside, Entering, Leaving, Closing1, Closing2, R!C!At
<1>3. Closing1(c)'
  BY <1>1, <1>2, SMTT(10) DEF Closing1, Inside, R!C!At, R!C!doors
<1> QED BY <1>3 DEF Phase

\* The last consumer closes the first door.
LEMMA CloseFirstPhase ==
  ASSUME R!ProgramAssumption, DoorInv, NEW c \in Consumer, R!C!CloseFirst(c)
  PROVE  Phase'
<1>1. /\ cpc[c] = "close1" /\ UNCHANGED <<ppc, secondDoor, producerDoor, R!C!rooms>>
      /\ \A d \in Consumer : cpc'[d] = IF d = c THEN "open2" ELSE cpc[d]
  BY StepMoves DEF R!C!CloseFirst
<1>2. ~firstDoor'
  BY Zenon DEF R!C!CloseFirst
<1>3. Closing1(c)
  BY <1>1, SMTT(10)
  DEF DoorInv, Phase, Outside, Entering, Leaving, Closing1, Closing2, R!C!At
<1>4. Closing1(c)'
  BY <1>1, <1>2, <1>3, SMTT(10) DEF Closing1, Inside, R!C!At, R!C!rooms
<1> QED BY <1>4 DEF Phase

\* The last consumer opens the second door, behind which nobody is yet.
LEMMA OpenSecondPhase ==
  ASSUME R!ProgramAssumption, DoorInv, NEW c \in Consumer, R!C!OpenSecond(c)
  PROVE  Phase'
<1>1. /\ cpc[c] = "open2" /\ UNCHANGED <<ppc, firstDoor, producerDoor, R!C!rooms>>
      /\ \A d \in Consumer : cpc'[d] = IF d = c THEN "job" ELSE cpc[d]
  BY StepMoves DEF R!C!OpenSecond
<1>2. secondDoor'
  BY Zenon DEF R!C!OpenSecond
<1>3. Closing1(c)
  BY <1>1, SMTT(10)
  DEF DoorInv, Phase, Outside, Entering, Leaving, Closing1, Closing2, R!C!At
<1>4. R!C!At({"wait"})' = {} /\ Consumer = R!C!At({"job", "signal", "end", "enter2", "wait"})'
  BY <1>1, <1>3, SMTT(10) DEF Closing1, R!C!At
<1>5. Leaving'
  BY <1>1, <1>2, <1>3, <1>4, FS_EmptySet, ManyIs, SMTT(10)
  DEF Closing1, Leaving, Inside, R!C!rooms, Many
<1> QED BY <1>5 DEF Phase

\* A consumer passes the second door, which is open while Leaving.
LEMMA PassSecondPhase ==
  ASSUME R!ProgramAssumption, DoorInv, NEW c \in Consumer, R!C!PassSecond(c)
  PROVE  Phase'
<1>1. /\ cpc[c] = "signal" /\ secondDoor /\ UNCHANGED <<ppc, R!C!doors, R!C!rooms>>
      /\ \A d \in Consumer : cpc'[d] = IF d = c THEN "enter2" ELSE cpc[d]
  BY StepMoves DEF R!C!PassSecond
<1>2. Leaving
  BY <1>1, SMTT(10) DEF DoorInv, Phase, Outside, Entering, Closing1, Closing2, R!C!At
<1>3. R!C!At({"wait"})' = R!C!At({"wait"})
  BY <1>1, SMTT(10) DEF R!C!At
<1>4. Leaving'
  BY <1>1, <1>2, <1>3, SMTT(10) DEF Leaving, Inside, R!C!At, R!C!doors, R!C!rooms
<1> QED BY <1>4 DEF Phase

\* ++threadInSecondRoom: the last consumer goes to close the second door.
LEMMA EnterSecondPhase ==
  ASSUME R!ProgramAssumption, DoorInv, NEW c \in Consumer, R!C!EnterSecond(c)
  PROVE  Phase'
<1> DEFINE to == IF secondRoom + 1 = Many THEN "last2" ELSE "wait"
<1> DEFINE In == R!C!At({"wait"})
<1>1. /\ cpc[c] = "enter2" /\ secondRoom' = secondRoom + 1
      /\ UNCHANGED <<ppc, R!C!doors, firstRoom>>
      /\ \A d \in Consumer : cpc'[d] = IF d = c THEN to ELSE cpc[d]
  BY StepMoves, ManyIs DEF R!C!EnterSecond
<1>2. Leaving
  BY <1>1, SMTT(10) DEF DoorInv, Phase, Outside, Entering, Closing1, Closing2, R!C!At
<1>3. /\ IsFiniteSet(In) /\ Cardinality(In) \in Nat /\ Cardinality(In) < Many
      /\ (Cardinality(In) = Many - 1 => In = Consumer \ {c}) /\ c \notin In
  <2>1. cpc[c] \notin {"wait"}
    BY <1>1
  <2> QED BY <2>1, ElsewhereIs
<1>4. CASE secondRoom + 1 = Many
  <2>1. In = Consumer \ {c}
    BY <1>2, <1>3, <1>4, ManyIs, SMTT(10) DEF Leaving
  <2>2. In' = Consumer \ {c} /\ cpc'[c] = "last2"
    BY <1>1, <1>4, <2>1, SMTT(10) DEF R!C!At
  <2>3. Closing2(c)'
    BY <1>1, <1>2, <1>4, <2>2, SMTT(10)
    DEF Leaving, Closing2, Inside, R!C!doors, Many
  <2> QED BY <2>3 DEF Phase
<1>5. CASE secondRoom + 1 # Many
  <2>1. In' = In \cup {c}
    BY <1>1, <1>5, SMTT(10) DEF R!C!At
  <2>2. Cardinality(In') = secondRoom' /\ secondRoom' < Many
    <3>1. Cardinality(In') = Cardinality(In) + 1
      BY <1>3, <2>1, FS_AddElement
    <3> QED BY <1>1, <1>2, <1>3, <1>5, <3>1, ManyIs, SMTT(10) DEF Leaving
  <2>3. Consumer = R!C!At({"job", "signal", "end", "enter2", "wait"})'
    BY <1>1, <1>2, <1>5, SMTT(10) DEF Leaving, R!C!At
  <2>4. Leaving'
    BY <1>1, <1>2, <2>2, <2>3, SMTT(10) DEF Leaving, Inside, R!C!doors, Many
  <2> QED BY <2>4 DEF Phase
<1> QED BY <1>4, <1>5

\* The last consumer resets threadInSecondRoom.
LEMMA EmptySecondPhase ==
  ASSUME R!ProgramAssumption, DoorInv, NEW c \in Consumer, R!C!EmptySecond(c)
  PROVE  Phase'
<1>1. /\ cpc[c] = "last2" /\ secondRoom' = 0 /\ UNCHANGED <<ppc, R!C!doors, firstRoom>>
      /\ \A d \in Consumer : cpc'[d] = IF d = c THEN "close2" ELSE cpc[d]
  BY StepMoves DEF R!C!EmptySecond
<1>2. Closing2(c)
  BY <1>1, SMTT(10)
  DEF DoorInv, Phase, Outside, Entering, Leaving, Closing1, Closing2, R!C!At
<1>3. Closing2(c)'
  BY <1>1, <1>2, SMTT(10) DEF Closing2, Inside, R!C!At, R!C!doors
<1> QED BY <1>3 DEF Phase

\* The last consumer closes the second door.
LEMMA CloseSecondPhase ==
  ASSUME R!ProgramAssumption, DoorInv, NEW c \in Consumer, R!C!CloseSecond(c)
  PROVE  Phase'
<1>1. /\ cpc[c] = "close2" /\ UNCHANGED <<ppc, firstDoor, producerDoor, R!C!rooms>>
      /\ \A d \in Consumer : cpc'[d] = IF d = c THEN "openP" ELSE cpc[d]
  BY StepMoves DEF R!C!CloseSecond
<1>2. ~secondDoor'
  BY Zenon DEF R!C!CloseSecond
<1>3. Closing2(c)
  BY <1>1, SMTT(10)
  DEF DoorInv, Phase, Outside, Entering, Leaving, Closing1, Closing2, R!C!At
<1>4. Closing2(c)'
  BY <1>1, <1>2, <1>3, SMTT(10) DEF Closing2, Inside, R!C!At, R!C!rooms
<1> QED BY <1>4 DEF Phase

\* The last consumer opens the door of the producer: the round is over.
LEMMA OpenProducerPhase ==
  ASSUME R!ProgramAssumption, DoorInv, NEW c \in Consumer, R!C!OpenProducer(c)
  PROVE  Phase'
<1>1. /\ cpc[c] = "openP" /\ UNCHANGED <<ppc, firstDoor, secondDoor, R!C!rooms>>
      /\ \A d \in Consumer : cpc'[d] = IF d = c THEN "wait" ELSE cpc[d]
  BY StepMoves DEF R!C!OpenProducer
<1>2. producerDoor'
  BY Zenon DEF R!C!OpenProducer
<1>3. Closing2(c)
  BY <1>1, SMTT(10)
  DEF DoorInv, Phase, Outside, Entering, Leaving, Closing1, Closing2, R!C!At
<1>4. Outside'
  BY <1>1, <1>2, <1>3, SMTT(10) DEF Closing2, Outside, Inside, R!C!At, R!C!rooms
<1> QED BY <1>4 DEF Phase

\* A job appends the record to those of its consumer.
LEMMA JobTypes ==
  ASSUME DoorInv, NEW c \in Consumer, R!C!Job(c), UNCHANGED <<R!C!doors, R!C!rooms>>
  PROVE  DoorTypes'
<1>1. Append(got[c], number) \in Seq(Nat)
  BY DEF DoorInv, DoorTypes
<1>2. got' = got \/ got' = [got EXCEPT ![c] = Append(got[c], number)]
  BY Zenon DEF R!C!Job
<1>3. got' \in [Consumer -> Seq(Nat)]
  <2>1. CASE got' = got
    BY <2>1 DEF DoorInv, DoorTypes
  <2>2. CASE got' = [got EXCEPT ![c] = Append(got[c], number)]
    BY <1>1, <2>2, Zenon DEF DoorInv, DoorTypes
  <2> QED BY <1>2, <2>1, <2>2
<1>4. cpc' \in [Consumer -> R!C!CPCs]
  BY SMTT(10) DEF R!C!Job, DoorInv, DoorTypes, R!C!CGoto, R!C!CPCs
<1> QED BY <1>3, <1>4 DEF R!C!Job, DoorInv, DoorTypes

\* When the first door closes nobody is in front of it, so nobody who has
\* worked on the record is behind.
LEMMA CloseFirstWorked ==
  ASSUME DoorInv, NEW c \in Consumer, R!C!CloseFirst(c) PROVE DoorWorked'
<1>1. Closing1(c)
  BY SMTT(10)
  DEF R!C!CloseFirst, R!C!Step, DoorInv, Phase, Outside, Entering, Leaving, Closing1,
     Closing2, R!C!At
<1>2. /\ ~firstDoor' /\ UNCHANGED <<ppc, got, number, done>> /\ cpc[c] = "close1"
      /\ \A d \in Consumer : cpc'[d] = IF d = c THEN "open2" ELSE cpc[d]
  BY StepMoves, Zenon DEF R!C!CloseFirst, R!C!Step
<1> QED BY <1>1, <1>2, SMTT(10) DEF DoorInv, DoorWorked, Behind, Closing1, Inside, R!C!At

\* The last consumer is back in front of the first door, which is closed.
LEMMA OpenProducerWorked ==
  ASSUME DoorInv, NEW c \in Consumer, R!C!OpenProducer(c) PROVE DoorWorked'
<1>1. Closing2(c)
  BY SMTT(10)
  DEF R!C!OpenProducer, R!C!Step, DoorInv, Phase, Outside, Entering, Leaving, Closing1,
     Closing2, R!C!At
<1>2. /\ UNCHANGED <<firstDoor, ppc, got, number, done>> /\ cpc[c] = "openP"
      /\ \A d \in Consumer : cpc'[d] = IF d = c THEN "wait" ELSE cpc[d]
  BY StepMoves, Zenon DEF R!C!OpenProducer, R!C!Step
<1> QED BY <1>1, <1>2, SMTT(10) DEF DoorInv, DoorWorked, Behind, Closing2, Inside, R!C!At

\* Every step is a step of the round.
LEMMA PhaseInv == ASSUME R!ProgramAssumption, DoorInv, R!C!Next PROVE Phase'
<1>1. ASSUME R!C!Start, UNCHANGED <<R!C!doors, R!C!rooms>> PROVE Phase'
  BY <1>1, StartPhase
<1>2. ASSUME R!C!Read, UNCHANGED <<R!C!doors, R!C!rooms>> PROVE Phase'
  BY <1>2, SMTT(10)
  DEF R!C!Read, DoorInv, Phase, Outside, Inside, Entering, Leaving, Closing1,
     Closing2, R!C!At, R!C!PGoto, R!C!doors, R!C!rooms
<1>3. ASSUME R!C!Join, UNCHANGED <<R!C!doors, R!C!rooms>> PROVE Phase'
  BY <1>3, SMTT(10)
  DEF R!C!Join, DoorInv, Phase, Outside, Inside, Entering, Leaving, Closing1,
     Closing2, R!C!At, R!C!PGoto, R!C!doors, R!C!rooms
<1>4. ASSUME NEW c \in Consumer, R!C!Job(c), UNCHANGED <<R!C!doors, R!C!rooms>> PROVE Phase'
  BY <1>4, JobPhase
<1>5. ASSUME R!C!ProducerSignal PROVE Phase'
  BY <1>5, ProducerSignalPhase
<1>6. ASSUME R!C!ProducerWait PROVE Phase'
  BY <1>6, ProducerWaitPhase
<1>7. ASSUME NEW c \in Consumer, R!C!PassFirst(c) PROVE Phase'
  BY <1>7, PassFirstPhase
<1>8. ASSUME NEW c \in Consumer, R!C!EnterFirst(c) PROVE Phase'
  BY <1>8, EnterFirstPhase
<1>9. ASSUME NEW c \in Consumer, R!C!EmptyFirst(c) PROVE Phase'
  BY <1>9, EmptyFirstPhase
<1>10. ASSUME NEW c \in Consumer, R!C!CloseFirst(c) PROVE Phase'
  BY <1>10, CloseFirstPhase
<1>11. ASSUME NEW c \in Consumer, R!C!OpenSecond(c) PROVE Phase'
  BY <1>11, OpenSecondPhase
<1>12. ASSUME NEW c \in Consumer, R!C!PassSecond(c) PROVE Phase'
  BY <1>12, PassSecondPhase
<1>13. ASSUME NEW c \in Consumer, R!C!EnterSecond(c) PROVE Phase'
  BY <1>13, EnterSecondPhase
<1>14. ASSUME NEW c \in Consumer, R!C!EmptySecond(c) PROVE Phase'
  BY <1>14, EmptySecondPhase
<1>15. ASSUME NEW c \in Consumer, R!C!CloseSecond(c) PROVE Phase'
  BY <1>15, CloseSecondPhase
<1>16. ASSUME NEW c \in Consumer, R!C!OpenProducer(c) PROVE Phase'
  BY <1>16, OpenProducerPhase
<1> QED
  BY <1>1, <1>2, <1>3, <1>4, <1>5, <1>6, <1>7, <1>8, <1>9, <1>10, <1>11,
     <1>12, <1>13, <1>14, <1>15, <1>16
  DEF R!C!Next, R!C!Program, R!C!ConsumerWait, R!C!ConsumerSignal

\* Every step keeps the types; main waits for a turn only while done is FALSE.
LEMMA DoorTypesInv == ASSUME DoorInv, R!C!Next PROVE DoorTypes'
<1>1. ASSUME R!C!Start, UNCHANGED <<R!C!doors, R!C!rooms>> PROVE DoorTypes'
  BY <1>1, SMTT(10) DEF R!C!Start, DoorInv, DoorTypes, PPCs, R!C!PGoto
<1>2. ASSUME R!C!Read, UNCHANGED <<R!C!doors, R!C!rooms>> PROVE DoorTypes'
  BY <1>2, SMTT(10) DEF R!C!Read, DoorInv, DoorTypes, PPCs, R!C!PGoto
<1>3. ASSUME R!C!Join, UNCHANGED <<R!C!doors, R!C!rooms>> PROVE DoorTypes'
  BY <1>3, SMTT(10) DEF R!C!Join, DoorInv, DoorTypes, PPCs, R!C!PGoto
<1>4. ASSUME NEW c \in Consumer, R!C!Job(c), UNCHANGED <<R!C!doors, R!C!rooms>> PROVE DoorTypes'
  BY <1>4, JobTypes
<1>5. ASSUME R!C!ProducerSignal PROVE DoorTypes'
  BY <1>5, SMTT(10) DEF R!C!ProducerSignal, DoorInv, DoorTypes, PPCs, R!C!PGoto, R!C!AfterSignal
<1>6. ASSUME R!C!ProducerWait PROVE DoorTypes'
  BY <1>6, SMTT(10) DEF R!C!ProducerWait, DoorInv, DoorTypes, PPCs, R!C!PGoto
<1>7. ASSUME NEW c \in Consumer, R!C!PassFirst(c) PROVE DoorTypes'
  BY <1>7, SMTT(10) DEF R!C!PassFirst, DoorInv, DoorTypes, R!C!CPCs, R!C!CGoto, R!C!Step
<1>8. ASSUME NEW c \in Consumer, R!C!EnterFirst(c) PROVE DoorTypes'
  BY <1>8, SMTT(10) DEF R!C!EnterFirst, DoorInv, DoorTypes, R!C!CPCs, R!C!CGoto, R!C!Step
<1>9. ASSUME NEW c \in Consumer, R!C!EmptyFirst(c) PROVE DoorTypes'
  BY <1>9, SMTT(10) DEF R!C!EmptyFirst, DoorInv, DoorTypes, R!C!CPCs, R!C!CGoto, R!C!Step
<1>10. ASSUME NEW c \in Consumer, R!C!CloseFirst(c) PROVE DoorTypes'
  BY <1>10, SMTT(10) DEF R!C!CloseFirst, DoorInv, DoorTypes, R!C!CPCs, R!C!CGoto, R!C!Step
<1>11. ASSUME NEW c \in Consumer, R!C!OpenSecond(c) PROVE DoorTypes'
  BY <1>11, SMTT(10) DEF R!C!OpenSecond, DoorInv, DoorTypes, R!C!CPCs, R!C!CGoto, R!C!Step
<1>12. ASSUME NEW c \in Consumer, R!C!PassSecond(c) PROVE DoorTypes'
  BY <1>12, SMTT(10) DEF R!C!PassSecond, DoorInv, DoorTypes, R!C!CPCs, R!C!CGoto, R!C!Step
<1>13. ASSUME NEW c \in Consumer, R!C!EnterSecond(c) PROVE DoorTypes'
  BY <1>13, SMTT(10) DEF R!C!EnterSecond, DoorInv, DoorTypes, R!C!CPCs, R!C!CGoto, R!C!Step
<1>14. ASSUME NEW c \in Consumer, R!C!EmptySecond(c) PROVE DoorTypes'
  BY <1>14, SMTT(10) DEF R!C!EmptySecond, DoorInv, DoorTypes, R!C!CPCs, R!C!CGoto, R!C!Step
<1>15. ASSUME NEW c \in Consumer, R!C!CloseSecond(c) PROVE DoorTypes'
  BY <1>15, SMTT(10) DEF R!C!CloseSecond, DoorInv, DoorTypes, R!C!CPCs, R!C!CGoto, R!C!Step
<1>16. ASSUME NEW c \in Consumer, R!C!OpenProducer(c) PROVE DoorTypes'
  BY <1>16, SMTT(10) DEF R!C!OpenProducer, DoorInv, DoorTypes, R!C!CPCs, R!C!CGoto, R!C!Step
<1> QED
  BY <1>1, <1>2, <1>3, <1>4, <1>5, <1>6, <1>7, <1>8, <1>9, <1>10, <1>11,
     <1>12, <1>13, <1>14, <1>15, <1>16
  DEF R!C!Next, R!C!Program, R!C!ConsumerWait, R!C!ConsumerSignal

\* Every step keeps the count of the records each consumer has worked on.
LEMMA WorkedInv == ASSUME DoorInv, R!C!Next PROVE DoorWorked'
<1>1. ASSUME R!C!Start, UNCHANGED <<R!C!doors, R!C!rooms>> PROVE DoorWorked'
  BY <1>1, SMTT(10)
  DEF R!C!Start, DoorInv, Phase, DoorWorked, DoorStarted, Outside, Inside, Entering,
     Closing1, Leaving, Closing2, Behind, R!C!At, R!C!PGoto, R!C!doors
<1>2. ASSUME R!C!Read, UNCHANGED <<R!C!doors, R!C!rooms>> PROVE DoorWorked'
  BY <1>2, SMTT(10)
  DEF R!C!Read, DoorInv, DoorTypes, Phase, DoorWorked, Outside, Inside, Entering, Closing1,
     Leaving, Closing2, Behind, R!C!At, R!C!PGoto
<1>3. ASSUME R!C!Join, UNCHANGED <<R!C!doors, R!C!rooms>> PROVE DoorWorked'
  BY <1>3, SMTT(10) DEF R!C!Join, DoorInv, DoorWorked, Behind
<1>4. ASSUME NEW c \in Consumer, R!C!Job(c), UNCHANGED <<R!C!doors, R!C!rooms>> PROVE DoorWorked'
  BY <1>4, SMTT(10) DEF R!C!Job, DoorInv, DoorTypes, DoorWorked, Behind, R!C!CGoto, R!C!doors
<1>5. ASSUME R!C!ProducerSignal PROVE DoorWorked'
  BY <1>5, SMTT(10) DEF R!C!ProducerSignal, DoorInv, DoorWorked, Behind
<1>6. ASSUME R!C!ProducerWait PROVE DoorWorked'
  BY <1>6, SMTT(10) DEF R!C!ProducerWait, DoorInv, DoorWorked, Behind, R!C!PGoto
<1>7. ASSUME NEW c \in Consumer, R!C!PassFirst(c) PROVE DoorWorked'
  BY <1>7, SMTT(10) DEF R!C!PassFirst, DoorInv, DoorWorked, Behind, R!C!CGoto, R!C!Step, R!C!doors
<1>8. ASSUME NEW c \in Consumer, R!C!EnterFirst(c) PROVE DoorWorked'
  BY <1>8, SMTT(10) DEF R!C!EnterFirst, DoorInv, DoorWorked, Behind, R!C!CGoto, R!C!Step, R!C!doors
<1>9. ASSUME NEW c \in Consumer, R!C!EmptyFirst(c) PROVE DoorWorked'
  BY <1>9, SMTT(10) DEF R!C!EmptyFirst, DoorInv, DoorWorked, Behind, R!C!CGoto, R!C!Step, R!C!doors
<1>10. ASSUME NEW c \in Consumer, R!C!CloseFirst(c) PROVE DoorWorked'
  BY <1>10, CloseFirstWorked
<1>11. ASSUME NEW c \in Consumer, R!C!OpenSecond(c) PROVE DoorWorked'
  BY <1>11, SMTT(10) DEF R!C!OpenSecond, DoorInv, DoorWorked, Behind, R!C!CGoto, R!C!Step
<1>12. ASSUME NEW c \in Consumer, R!C!PassSecond(c) PROVE DoorWorked'
  BY <1>12, SMTT(10) DEF R!C!PassSecond, DoorInv, DoorWorked, Behind, R!C!CGoto, R!C!Step, R!C!doors
<1>13. ASSUME NEW c \in Consumer, R!C!EnterSecond(c) PROVE DoorWorked'
  BY <1>13, SMTT(10)
  DEF R!C!EnterSecond, DoorInv, Phase, DoorWorked, Outside, Inside, Entering, Closing1,
     Leaving, Closing2, Behind, R!C!At, R!C!CGoto, R!C!Step, R!C!doors
<1>14. ASSUME NEW c \in Consumer, R!C!EmptySecond(c) PROVE DoorWorked'
  BY <1>14, SMTT(10)
  DEF R!C!EmptySecond, DoorInv, DoorWorked, Behind, R!C!CGoto, R!C!Step, R!C!doors
<1>15. ASSUME NEW c \in Consumer, R!C!CloseSecond(c) PROVE DoorWorked'
  BY <1>15, SMTT(10) DEF R!C!CloseSecond, DoorInv, DoorWorked, Behind, R!C!CGoto, R!C!Step
<1>16. ASSUME NEW c \in Consumer, R!C!OpenProducer(c) PROVE DoorWorked'
  BY <1>16, OpenProducerWorked
<1> QED
  BY <1>1, <1>2, <1>3, <1>4, <1>5, <1>6, <1>7, <1>8, <1>9, <1>10, <1>11,
     <1>12, <1>13, <1>14, <1>15, <1>16
  DEF R!C!Next, R!C!Program, R!C!ConsumerWait, R!C!ConsumerSignal

\* Nothing has been read or worked on before main starts.
LEMMA StartedInv == ASSUME DoorInv, R!C!Next PROVE DoorStarted'
<1>1. ASSUME R!C!Start, UNCHANGED <<R!C!doors, R!C!rooms>> PROVE DoorStarted'
  BY <1>1, SMTT(10) DEF R!C!Start, DoorInv, DoorStarted
<1>2. ASSUME R!C!Read, UNCHANGED <<R!C!doors, R!C!rooms>> PROVE DoorStarted'
  BY <1>2, SMTT(10) DEF R!C!Read, DoorInv, DoorStarted, R!C!PGoto
<1>3. ASSUME R!C!Join, UNCHANGED <<R!C!doors, R!C!rooms>> PROVE DoorStarted'
  BY <1>3, SMTT(10) DEF R!C!Join, DoorInv, DoorStarted, R!C!PGoto
<1>4. ASSUME NEW c \in Consumer, R!C!Job(c), UNCHANGED <<R!C!doors, R!C!rooms>> PROVE DoorStarted'
  BY <1>4, SMTT(10)
  DEF R!C!Job, DoorInv, Phase, DoorStarted, Outside, Inside, Entering, Closing1, Leaving,
     Closing2, R!C!At
<1>5. ASSUME R!C!ProducerSignal PROVE DoorStarted'
  BY <1>5, SMTT(10) DEF R!C!ProducerSignal, DoorInv, DoorStarted, R!C!PGoto, R!C!AfterSignal
<1>6. ASSUME R!C!ProducerWait PROVE DoorStarted'
  BY <1>6, SMTT(10) DEF R!C!ProducerWait, DoorInv, DoorStarted, R!C!PGoto
<1>7. ASSUME NEW c \in Consumer, R!C!PassFirst(c) PROVE DoorStarted'
  BY <1>7, SMTT(10) DEF R!C!PassFirst, DoorInv, DoorStarted, R!C!Step
<1>8. ASSUME NEW c \in Consumer, R!C!EnterFirst(c) PROVE DoorStarted'
  BY <1>8, SMTT(10) DEF R!C!EnterFirst, DoorInv, DoorStarted, R!C!Step
<1>9. ASSUME NEW c \in Consumer, R!C!EmptyFirst(c) PROVE DoorStarted'
  BY <1>9, SMTT(10) DEF R!C!EmptyFirst, DoorInv, DoorStarted, R!C!Step
<1>10. ASSUME NEW c \in Consumer, R!C!CloseFirst(c) PROVE DoorStarted'
  BY <1>10, SMTT(10) DEF R!C!CloseFirst, DoorInv, DoorStarted, R!C!Step
<1>11. ASSUME NEW c \in Consumer, R!C!OpenSecond(c) PROVE DoorStarted'
  BY <1>11, SMTT(10) DEF R!C!OpenSecond, DoorInv, DoorStarted, R!C!Step
<1>12. ASSUME NEW c \in Consumer, R!C!PassSecond(c) PROVE DoorStarted'
  BY <1>12, SMTT(10) DEF R!C!PassSecond, DoorInv, DoorStarted, R!C!Step
<1>13. ASSUME NEW c \in Consumer, R!C!EnterSecond(c) PROVE DoorStarted'
  BY <1>13, SMTT(10) DEF R!C!EnterSecond, DoorInv, DoorStarted, R!C!Step
<1>14. ASSUME NEW c \in Consumer, R!C!EmptySecond(c) PROVE DoorStarted'
  BY <1>14, SMTT(10) DEF R!C!EmptySecond, DoorInv, DoorStarted, R!C!Step
<1>15. ASSUME NEW c \in Consumer, R!C!CloseSecond(c) PROVE DoorStarted'
  BY <1>15, SMTT(10) DEF R!C!CloseSecond, DoorInv, DoorStarted, R!C!Step
<1>16. ASSUME NEW c \in Consumer, R!C!OpenProducer(c) PROVE DoorStarted'
  BY <1>16, SMTT(10) DEF R!C!OpenProducer, DoorInv, DoorStarted, R!C!Step
<1> QED
  BY <1>1, <1>2, <1>3, <1>4, <1>5, <1>6, <1>7, <1>8, <1>9, <1>10, <1>11,
     <1>12, <1>13, <1>14, <1>15, <1>16
  DEF R!C!Next, R!C!Program, R!C!ConsumerWait, R!C!ConsumerSignal

\* main and the consumers start in front of the first door.
LEMMA DoorInit == ASSUME R!ProgramAssumption, R!C!Init PROVE DoorInv
<1>1. DoorTypes
  BY DEF R!C!Init, R!C!InitProgram, DoorTypes, PPCs, R!C!CPCs
<1>2. Outside
  BY Zenon DEF R!C!Init, R!C!InitProgram, Outside, R!C!At
<1>3. DoorWorked /\ DoorStarted
  BY DEF R!C!Init, R!C!InitProgram, DoorWorked, DoorStarted
<1> QED BY <1>1, <1>2, <1>3 DEF DoorInv, Phase

\* The invariant of version C is inductive.
LEMMA DoorNext == ASSUME R!ProgramAssumption, DoorInv, R!C!Next PROVE DoorInv'
BY DoorTypesInv, PhaseInv, WorkedInv, StartedInv DEF DoorInv

\* What RoomsCount says.
Rooms ==
  /\ firstRoom = IF secondDoor \/ R!C!At({"close1", "open2"}) # {} THEN 0
                 ELSE Cardinality(R!C!At({"job", "last1", "signal", "end"}))
  /\ secondRoom = IF ~secondDoor \/ R!C!At({"close2"}) # {} THEN 0
                  ELSE Cardinality(R!C!At({"wait", "last2"}))

\* In each phase of a round the two counters count who is in the rooms.
LEMMA RoomsCounted == ASSUME DoorInv PROVE R!C!RoomsCount
<1> SUFFICES Rooms
  <2>1. ASSUME NEW S PROVE R!C!Cardinality(S) = Cardinality(S)
    BY Zenon DEF R!C!Cardinality, Cardinality, R!C!IsFiniteSet, IsFiniteSet
  <2> QED BY <2>1 DEF Rooms, R!C!RoomsCount
<1>1. CASE Outside
  <2>1. /\ R!C!At({"close1", "open2"}) = {} /\ R!C!At({"job", "last1", "signal", "end"}) = {}
    BY <1>1, SMTT(10) DEF Outside, R!C!At
  <2> QED BY <1>1, <2>1, FS_EmptySet, SMTT(10) DEF Outside, Rooms
<1>2. CASE Entering
  <2>1. /\ R!C!At({"close1", "open2"}) = {}
        /\ R!C!At({"job", "last1", "signal", "end"}) = R!C!At({"job", "signal", "end"})
    BY <1>2, SMTT(10) DEF Entering, R!C!At
  <2> QED BY <1>2, <2>1, SMTT(10) DEF Entering, Rooms
<1>3. CASE Leaving
  <2>1. R!C!At({"close2"}) = {} /\ R!C!At({"wait", "last2"}) = R!C!At({"wait"})
    BY <1>3, SMTT(10) DEF Leaving, R!C!At
  <2> QED BY <1>3, <2>1, SMTT(10) DEF Leaving, Rooms
<1>4. ASSUME NEW c \in Consumer, Closing1(c) PROVE Rooms
  <2>1. CASE cpc[c] = "last1"
    <3>1. /\ R!C!At({"close1", "open2"}) = {}
          /\ R!C!At({"job", "last1", "signal", "end"}) = Consumer
      BY <1>4, <2>1, SMTT(10) DEF Closing1, R!C!At
    <3> QED BY <1>4, <2>1, <3>1, SMTT(10) DEF Closing1, Rooms, Many
  <2>2. CASE cpc[c] # "last1"
    <3>1. R!C!At({"close1", "open2"}) # {}
      BY <1>4, <2>2, SMTT(10) DEF Closing1, R!C!At
    <3> QED BY <1>4, <2>2, <3>1, SMTT(10) DEF Closing1, Rooms
  <2> QED BY <2>1, <2>2
<1>5. ASSUME NEW c \in Consumer, Closing2(c) PROVE Rooms
  <2>1. R!C!At({"close1", "open2"}) = {} /\ R!C!At({"job", "last1", "signal", "end"}) = {}
    BY <1>5, SMTT(10) DEF Closing2, R!C!At
  <2>2. firstRoom = 0 /\ ~firstDoor
    BY <1>5 DEF Closing2
  <2>3. CASE cpc[c] = "last2"
    <3>1. R!C!At({"close2"}) = {} /\ R!C!At({"wait", "last2"}) = Consumer
      BY <1>5, <2>3, SMTT(10) DEF Closing2, R!C!At
    <3> QED BY <1>5, <2>1, <2>2, <2>3, <3>1, FS_EmptySet, SMTT(10)
      DEF Closing2, Rooms, Many
  <2>4. CASE cpc[c] = "close2"
    <3>1. R!C!At({"close2"}) # {}
      BY <2>4, SMTT(10) DEF R!C!At
    <3> QED BY <1>5, <2>1, <2>2, <2>4, <3>1, FS_EmptySet, SMTT(10)
      DEF Closing2, Rooms
  <2>5. CASE cpc[c] = "openP"
    BY <1>5, <2>1, <2>2, <2>5, FS_EmptySet, SMTT(10) DEF Closing2, Rooms
  <2> QED BY <1>5, <2>3, <2>4, <2>5, Zenon DEF Closing2
<1> QED BY <1>1, <1>2, <1>3, <1>4, <1>5 DEF DoorInv, Phase

\* In each phase at most one of the doors is open.
LEMMA DoorsKept == ASSUME DoorInv PROVE R!C!DoorsApart
BY SMTT(10)
DEF DoorInv, Phase, Outside, Inside, Entering, Leaving, Closing1, Closing2, R!C!At, R!C!DoorsApart

-----------------------------------------------------------------------------
(* The steps of version C in module Rounds. *)

\* main reads the next record, or the end, when everybody has worked on the
\* last one.
LEMMA DoorReads == ASSUME DoorInv, R!C!Read PROVE R!Promise!Next
<1>1. R!Read
  BY Zenon DEF R!C!Read, R!Read, R!C!PGoto, R!PGoto
<1>2. ~done /\ ppc = "read" /\ number \in Nat
  BY SMTT(10) DEF R!C!Read, DoorInv, DoorTypes
<1>3. Outside
  BY <1>2, SMTT(10) DEF DoorInv, Phase, Inside, Entering, Leaving, Closing1, Closing2
<1>4. \A c \in Consumer : ~Behind(c)
  BY <1>2, <1>3, SMTT(10) DEF Outside, R!C!At, Behind
<1>5. \A c \in Consumer : Len(got[c]) = number
  BY <1>2, <1>4, SMTT(10) DEF DoorInv, DoorWorked
<1> QED BY <1>1, <1>2, <1>5, ReadStep

\* A job works on the next record of its consumer, or leaves.
LEMMA DoorWorks == ASSUME DoorInv, NEW c \in Consumer, R!C!Job(c) PROVE R!Promise!Next
<1>1. R!Job(c)
  BY Zenon DEF R!C!Job, R!Job, R!C!CGoto, R!CGoto
<1>2. cpc[c] = "job" /\ ppc # "start" /\ cpc \in [Consumer -> R!C!CPCs]
  BY SMTT(10)
  DEF R!C!Job, DoorInv, DoorTypes, Phase, Outside, Inside, Entering, Leaving, Closing1,
      Closing2, R!C!At
<1>3. ~done => Len(got[c]) = number - 1
  BY <1>2, SMTT(10) DEF DoorInv, DoorWorked, Behind
<1> QED BY <1>1, <1>2, <1>3, JobStep

\* The steps at the doors are not seen.
LEMMA DoorSteps ==
  ASSUME DoorInv, NEW c \in Consumer, R!C!ConsumerWait(c) \/ R!C!ConsumerSignal(c)
  PROVE  UNCHANGED R!Promise!vars
<1>1. PICK from \in R!C!CPCs \ {"end"}, to \in R!C!CPCs \ {"end"} : R!C!Step(c, from, to)
  BY SMTT(10)
  DEF R!C!ConsumerWait, R!C!ConsumerSignal, R!C!PassFirst, R!C!EnterFirst, R!C!EmptyFirst,
      R!C!CloseFirst, R!C!OpenSecond, R!C!PassSecond, R!C!EnterSecond, R!C!EmptySecond,
      R!C!CloseSecond, R!C!OpenProducer, R!C!CPCs
<1>2. \A d \in Consumer : cpc'[d] = "end" <=> cpc[d] = "end"
  BY <1>1, StepMoves, SMTT(10)
<1> QED BY <1>1, <1>2, QuietStep DEF R!C!Step

\* Nor are those of main that read nothing.
LEMMA DoorMain ==
  ASSUME DoorInv, R!C!Start \/ R!C!Join \/ R!C!ProducerSignal \/ R!C!ProducerWait
  PROVE  UNCHANGED R!Promise!vars
<1>1. UNCHANGED <<number, got, cpc>>
  BY Zenon DEF R!C!Start, R!C!Join, R!C!ProducerSignal, R!C!ProducerWait
<1>2. (done /\ ppc # "start")' <=> done /\ ppc # "start"
  <2>1. CASE R!C!Start
    BY <2>1, Zenon DEF R!C!Start
  <2>2. CASE R!C!Join \/ R!C!ProducerSignal \/ R!C!ProducerWait
    BY <2>2, SMTT(10)
    DEF R!C!Join, R!C!ProducerSignal, R!C!ProducerWait, R!C!PGoto, R!C!AfterSignal
  <2> QED BY <2>1, <2>2
<1> QED BY <1>1, <1>2, QuietStep

\* Every step of version C is a step of module Rounds, or is not seen there.
LEMMA DoorImplements ==
  ASSUME DoorInv, R!C!Next PROVE [R!Promise!Next]_(R!Promise!vars)
<1>1. CASE R!C!Start \/ R!C!Join \/ R!C!ProducerSignal \/ R!C!ProducerWait
  BY <1>1, DoorMain
<1>2. CASE R!C!Read
  BY <1>2, DoorReads
<1>3. CASE \E c \in Consumer : R!C!Job(c)
  BY <1>3, DoorWorks
<1>4. CASE \E c \in Consumer : R!C!ConsumerWait(c) \/ R!C!ConsumerSignal(c)
  BY <1>4, DoorSteps
<1> QED BY <1>1, <1>2, <1>3, <1>4 DEF R!C!Next, R!C!Program

-----------------------------------------------------------------------------
(* The three versions together. *)

VersionInv ==
  /\ version \in {"A", "B", "C"} /\ i \in 1..Many
  /\ version = "A" => SemInv
  /\ version = "B" => EventInv
  /\ version = "C" => DoorInv
  /\ version # "B" => \A c \in Consumer : ~consumerEvents[c] /\ ~producerEvents[c]

\* All three versions start in their invariant.
LEMMA VersionInit == ASSUME R!ProgramAssumption, R!Init PROVE VersionInv
<1>1. version \in {"A", "B", "C"} /\ R!A!Init /\ R!B!Init /\ R!C!Init
  BY DEF R!Init
<1>2. SemInv /\ EventInv /\ DoorInv
  BY <1>1, SemStart, EventStart, DoorInit
<1>3. i \in 1..Many
  BY <1>2 DEF SemInv, SemTypes
<1>4. \A c \in Consumer : ~consumerEvents[c] /\ ~producerEvents[c]
  BY <1>1 DEF R!B!Init
<1> QED BY <1>1, <1>2, <1>3, <1>4 DEF VersionInv

\* A step of the version that was built keeps them, and is a step of Rounds.
LEMMA VersionNext ==
  ASSUME R!ProgramAssumption, VersionInv, R!Next
  PROVE  VersionInv' /\ [R!Promise!Next]_(R!Promise!vars)
<1>1. version' = version
  BY DEF R!Next
<1>2. CASE version = "A" /\ R!A!Next /\ UNCHANGED <<R!ofB, R!ofC>>
  <2>1. SemInv' /\ [R!Promise!Next]_(R!Promise!vars)
    BY <1>2, SemNext DEF VersionInv
  <2>2. UNCHANGED <<consumerEvents, producerEvents>>
    BY <1>2 DEF R!ofB
  <2> QED BY <1>1, <1>2, <2>1, <2>2 DEF VersionInv, SemInv, SemTypes
<1>3. CASE version = "B" /\ R!B!Next /\ UNCHANGED <<R!ofA, R!ofC>>
  <2>1. EventInv' /\ [R!Promise!Next]_(R!Promise!vars)
    BY <1>3, EventNext DEF VersionInv
  <2> QED BY <1>1, <1>3, <2>1 DEF VersionInv, EventInv, EventTypes
<1>4. CASE version = "C" /\ R!C!Next /\ UNCHANGED <<R!ofA, R!ofB, i>>
  <2>1. DoorInv' /\ [R!Promise!Next]_(R!Promise!vars)
    BY <1>4, DoorNext, DoorImplements DEF VersionInv
  <2>2. UNCHANGED <<consumerEvents, producerEvents, i>>
    BY <1>4 DEF R!ofB
  <2> QED BY <1>1, <1>4, <2>1, <2>2, ManyIs DEF VersionInv
<1> QED BY <1>2, <1>3, <1>4 DEF R!Next

\* A step that changes nothing.
LEMMA VersionStutter ==
  ASSUME VersionInv, UNCHANGED R!vars
  PROVE  VersionInv' /\ UNCHANGED R!Promise!vars
<1>1. /\ UNCHANGED <<number, done, got, ppc, cpc, version, producerSem, consumerSems, i>>
      /\ UNCHANGED <<consumerEvents, producerEvents>>
      /\ UNCHANGED <<firstDoor, secondDoor, producerDoor, firstRoom, secondRoom>>
  BY DEF R!vars, R!common, R!ofA, R!ofB, R!ofC
<1>2. SemInv' = SemInv /\ EventInv' = EventInv
  BY <1>1, Zenon
  DEF SemInv, SemTypes, SemPlaces, ProgramTypes, Worked, Owed, Expected, ToRelease,
      EventInv, EventTypes, EventTurn, ToSignal
<1>3. DoorInv' = DoorInv
  BY <1>1, SMTT(60)
  DEF DoorInv, DoorTypes, Phase, Outside, Inside, Entering, Leaving, Closing1, Closing2,
      R!C!At, DoorWorked, Behind, DoorStarted
<1>4. UNCHANGED R!Promise!vars
  BY <1>1, Zenon DEF R!Promise!vars
<1> QED BY <1>1, <1>2, <1>3, <1>4, Zenon DEF VersionInv

\* The invariant of the three versions holds in every execution.
THEOREM VersionInvariance == ASSUME R!ProgramAssumption PROVE R!Spec => []VersionInv
<1>1. R!Init => VersionInv
  BY VersionInit
<1>2. VersionInv /\ [R!Next]_(R!vars) => VersionInv'
  BY VersionNext, VersionStutter
<1> QED BY <1>1, <1>2, PTL DEF R!Spec

\* Whatever the version: the consumers work on every record once and in order,
\* the next is not read before all have worked on the last, and they leave when
\* done is set.
THEOREM ImplementsRounds == ASSUME R!ProgramAssumption PROVE R!Spec => R!InStep
<1>1. R!Init => R!Promise!Init
  BY ProgramStarts
<1>2. VersionInv /\ [R!Next]_(R!vars) => [R!Promise!Next]_(R!Promise!vars)
  BY VersionNext, VersionStutter
<1> QED BY <1>1, <1>2, VersionInvariance, PTL DEF R!Spec, R!Promise!Spec, R!InStep

\* What NoLostSignal says of a step.
NothingSetTwice ==
  /\ R!B!ProducerSignal => ~consumerEvents[R!B!Order[i]]
  /\ \A c \in Consumer : R!B!ConsumerSignal(c) => ~producerEvents[c]

\* An event that is set was not set before.
LEMMA SetOnce == ASSUME R!ProgramAssumption, VersionInv PROVE NothingSetTwice
<1>1. CASE version = "B"
  BY <1>1, EventSignals, EventConsumer DEF VersionInv, NothingSetTwice
<1>2. CASE version # "B"
  BY <1>2, EventOrder DEF VersionInv, NothingSetTwice
<1> QED BY <1>1, <1>2

\* No event is set while it is still set.
THEOREM NoSignalIsLost == ASSUME R!ProgramAssumption PROVE R!Spec => R!NoLostSignal
<1>1. VersionInv => [/\ R!B!ProducerSignal => ~consumerEvents[R!B!Order[i]]
                     /\ \A c \in Consumer : R!B!ConsumerSignal(c) => ~producerEvents[c]]_(R!B!vars)
  BY SetOnce DEF NothingSetTwice
<1> QED BY <1>1, VersionInvariance, PTL DEF R!NoLostSignal, R!B!NoLostSignal

-----------------------------------------------------------------------------
(* lab12es01 among the programs of the labs. *)

\* Whatever else happens, lab12es01 only does steps of its own.
LEMMA LabHasRounds == LabSpec => R!Spec
<1>1. LabInit => R!Init
  BY DEF LabInit
<1>2. [LabNext]_labVars => [R!Next]_(R!vars)
  <2>1. ASSUME LabNext PROVE [R!Next]_(R!vars)
    <3>1. CASE lab = "rounds"
      BY <2>1, <3>1, SMTT(10) DEF LabNext
    <3>2. CASE lab # "rounds"
      BY <2>1, <3>2, SMTT(10)
      DEF LabNext, rounds, R!vars, R!common, R!ofA, R!ofB, R!ofC
    <3> QED BY <3>1, <3>2
  <2>2. ASSUME UNCHANGED labVars PROVE UNCHANGED R!vars
    BY <2>2, SMTT(10) DEF labVars, rounds, R!vars, R!common, R!ofA, R!ofB, R!ofC
  <2> QED BY <2>1, <2>2
<1> QED BY <1>1, <1>2, PTL DEF LabSpec, R!Spec

\* In every execution of every program of the labs, no release exceeds its
\* semaphore, the counters count who is in the rooms, and the doors are never
\* open together.
THEOREM RoundsAreSafe == LabSpec => []RoundsInv
<1>1. R!ProgramAssumption
  BY LabAssumption DEF LabAssumption
<1>2. VersionInv => RoundsInv
  <2>1. SemInv => R!A!ReleasesFit
    BY SemFits
  <2>2. DoorInv => R!C!RoomsCount /\ R!C!DoorsApart
    BY RoomsCounted, DoorsKept
  <2> QED BY <2>1, <2>2
    DEF VersionInv, RoundsInv, R!ReleasesFit, R!RoomsCount, R!DoorsApart
<1> QED BY <1>1, <1>2, LabHasRounds, VersionInvariance, PTL

\* In every execution, the consumers work in rounds, and no signal is lost.
THEOREM RoundsInStep == LabSpec => InStep
<1>1. R!ProgramAssumption
  BY LabAssumption DEF LabAssumption
<1> QED BY <1>1, LabHasRounds, ImplementsRounds, NoSignalIsLost, PTL DEF InStep

-----------------------------------------------------------------------------
(* lab12es03: the client, the server and their locks of lines. *)

\* What the file holds.
LineOrEnd == Nat \cup {L!END_MSG}

LockTypes ==
  /\ clat \in {"starts", "writes", "locks", "unlocks", "closes", "waits", "failed", "ends"}
  /\ svat \in {"none", "locks", "reads", "ends", "mismatch"}
  /\ ci \in Nat /\ si \in Nat
  /\ lines \in Seq(LineOrEnd) /\ shown \in Seq(LineOrEnd)

\* The lines in the file are 0, 1, ... and then perhaps the end message.
LineWritten == clat \in {"locks", "unlocks", "closes", "waits", "ends"}
FileEnded   == clat \in {"closes", "waits", "ends"}

FileInv ==
  /\ Len(lines) = IF LineWritten THEN ci + 1 ELSE ci
  /\ \A k \in 1..Len(lines) : lines[k] = IF FileEnded /\ k = ci + 1 THEN L!END_MSG ELSE k - 1

\* The line under the client's hands is always locked, and before it is
\* unlocked the next one is.
LocksInv ==
  /\ clat \in {"starts", "waits", "failed", "ends"} => locks = {}
  /\ clat = "starts" => ci = 0
  /\ clat \in {"writes", "locks", "closes"} => locks = {ci}
  /\ clat = "unlocks" => locks = {ci, ci + 1}

\* The server is behind the lock: it has shown the lines before si, and it is
\* over when one of them is the end message.
ServerInv ==
  /\ Len(shown) = si /\ si <= Len(lines) /\ \A k \in 1..si : shown[k] = lines[k]
  /\ svat = "none" <=> clat = "starts"
  /\ svat \in {"none", "locks", "reads"} => \A k \in 1..si : lines[k] # L!END_MSG
  /\ svat = "ends" => si > 0 /\ lines[si] = L!END_MSG
  /\ svat = "mismatch" => clat = "failed"
  /\ clat \in {"starts", "writes", "locks", "unlocks", "closes"} =>
       si <= ci /\ (svat = "reads" => si < ci)
  /\ clat = "ends" => svat = "ends"

\* The invariant of the proof: where the server may be depends on what the
\* client has locked.
LinesInv == LockTypes /\ FileInv /\ LocksInv /\ ServerInv

\* A line of numbers is not the end message.
LEMMA NoEnd == \A k \in Nat : k # L!END_MSG
BY DEF L!END_MSG

\* The lines of the client and its message at the end are lines.
LEMMA LineTypes ==
  ASSUME LinesInv
  PROVE  lines \in Seq(LineOrEnd) /\ shown \in Seq(LineOrEnd) /\ ci \in LineOrEnd
         /\ L!END_MSG \in LineOrEnd
BY Zenon DEF LinesInv, LockTypes, LineOrEnd

\* Both begin with an empty file.
LEMMA LinesStart == L!Init => LinesInv
BY DEF L!Init, LinesInv, LockTypes, FileInv, LineWritten, FileEnded,
    LocksInv, ServerInv

\* The client starts the server when the first line is locked.
LEMMA StartServerInv == ASSUME LinesInv, L!StartServer PROVE LinesInv'
BY SMTT(30)
DEF L!StartServer, L!server, LinesInv, LockTypes, FileInv, LineWritten, FileEnded,
    LocksInv, ServerInv

\* A line is added, behind everything that the server has shown.
LEMMA WriteLineInv == ASSUME LinesInv, L!WriteLine PROVE LinesInv'
<1>1. /\ clat = "writes" /\ clat' = "locks" /\ lines' = Append(lines, ci)
      /\ UNCHANGED <<locks, ci, svat, si, shown>>
  BY DEF L!WriteLine, L!server
<1>2. /\ Len(lines') = Len(lines) + 1 /\ lines' \in Seq(LineOrEnd) /\ lines'[Len(lines) + 1] = ci
      /\ \A k \in 1..Len(lines) : lines'[k] = lines[k]
  BY <1>1, LineTypes, AppendProperties
<1>3. LockTypes' /\ LocksInv'
  BY <1>1, <1>2, SMTT(30) DEF LinesInv, LockTypes, LocksInv
<1>4. FileInv'
  BY <1>1, <1>2, SMTT(30) DEF LinesInv, LockTypes, FileInv, LineWritten, FileEnded
<1>5. ServerInv'
  BY <1>1, <1>2, SMTT(30) DEF LinesInv, LockTypes, FileInv, LineWritten, FileEnded, ServerInv
<1> QED BY <1>3, <1>4, <1>5 DEF LinesInv

\* The next line is locked while the last one still is.
LEMMA LockNextInv == ASSUME LinesInv, L!LockNext PROVE LinesInv'
BY SMTT(30)
DEF L!LockNext, L!server, LinesInv, LockTypes, FileInv, LineWritten, FileEnded,
    LocksInv, ServerInv

\* The line is unlocked: the server may go on to it, and no further.
LEMMA UnlockLineInv == ASSUME LinesInv, L!UnlockLine PROVE LinesInv'
<1>1. /\ clat = "unlocks" /\ clat' = "writes" /\ ci' = ci + 1 /\ locks' = locks \ {ci}
      /\ UNCHANGED <<lines, svat, si, shown>>
  BY DEF L!UnlockLine, L!server
<1>2. LockTypes' /\ FileInv'
  BY <1>1, SMTT(30) DEF LinesInv, LockTypes, FileInv, LineWritten, FileEnded
<1>3. LocksInv'
  BY <1>1, SMTT(30) DEF LinesInv, LockTypes, LocksInv
<1>4. ServerInv'
  BY <1>1, SMTT(30) DEF LinesInv, LockTypes, ServerInv
<1> QED BY <1>2, <1>3, <1>4 DEF LinesInv

\* The end message is added like a line.
LEMMA WriteEndInv == ASSUME LinesInv, L!WriteEnd PROVE LinesInv'
<1>1. /\ clat = "writes" /\ clat' = "closes" /\ lines' = Append(lines, L!END_MSG)
      /\ UNCHANGED <<locks, ci, svat, si, shown>>
  BY DEF L!WriteEnd, L!server
<1>2. /\ Len(lines') = Len(lines) + 1 /\ lines'[Len(lines) + 1] = L!END_MSG
      /\ lines' \in Seq(LineOrEnd) /\ \A k \in 1..Len(lines) : lines'[k] = lines[k]
  BY <1>1, LineTypes, AppendProperties
<1>3. LockTypes' /\ LocksInv'
  BY <1>1, <1>2, SMTT(30) DEF LinesInv, LockTypes, LocksInv
<1>4. FileInv'
  BY <1>1, <1>2, SMTT(30) DEF LinesInv, LockTypes, FileInv, LineWritten, FileEnded
<1>5. ServerInv'
  BY <1>1, <1>2, SMTT(30) DEF LinesInv, LockTypes, FileInv, LineWritten, FileEnded, ServerInv
<1> QED BY <1>3, <1>4, <1>5 DEF LinesInv

\* The last lock goes away with the handle.
LEMMA CloseFileInv == ASSUME LinesInv, L!CloseFile PROVE LinesInv'
BY SMTT(30)
DEF L!CloseFile, L!server, LinesInv, LockTypes, FileInv, LineWritten, FileEnded,
    LocksInv, ServerInv

\* A client that fails leaves the file without a lock and without an end.
LEMMA WriteFailsInv == ASSUME LinesInv, L!WriteFails PROVE LinesInv'
BY SMTT(30)
DEF L!WriteFails, L!server, LinesInv, LockTypes, FileInv, LineWritten, FileEnded,
    LocksInv, ServerInv

\* The client sees the server's end.
LEMMA ClientEndsInv == ASSUME LinesInv, L!ClientEnds PROVE LinesInv'
BY SMTT(30)
DEF L!ClientEnds, L!server, LinesInv, LockTypes, FileInv, LineWritten, FileEnded,
    LocksInv, ServerInv

\* The server locks a line that the client has left, so it is complete.
LEMMA LockLineInv == ASSUME LinesInv, L!LockLine PROVE LinesInv'
<1>1. /\ svat = "locks" /\ si \notin locks /\ svat' = "reads"
      /\ UNCHANGED <<lines, locks, clat, ci, si, shown>>
  BY DEF L!LockLine, L!client
<1>2. clat \in {"starts", "writes", "locks", "unlocks", "closes"} => si < ci
  BY <1>1, SMTT(30) DEF LinesInv, LockTypes, LocksInv, ServerInv
<1>3. LockTypes' /\ FileInv' /\ LocksInv'
  BY <1>1, SMTT(30) DEF LinesInv, LockTypes, FileInv, LineWritten, FileEnded, LocksInv
<1>4. ServerInv'
  BY <1>1, <1>2, SMTT(30) DEF LinesInv, LockTypes, ServerInv
<1> QED BY <1>3, <1>4 DEF LinesInv

\* The line that the server has locked is there, unless the client failed.
LEMMA ReadLineInv == ASSUME LinesInv, L!ReadLine PROVE LinesInv'
<1>1. svat = "reads" /\ UNCHANGED <<lines, locks, clat, ci>>
  BY DEF L!ReadLine, L!client
<1>2. FileInv' /\ LocksInv'
  BY <1>1, SMTT(30) DEF LinesInv, FileInv, LineWritten, FileEnded, LocksInv
<1>3. CASE si < Len(lines)
  <2>1. /\ shown' = Append(shown, lines[si + 1]) /\ si' = si + 1 /\ lines[si + 1] \in LineOrEnd
        /\ svat' = IF lines[si + 1] = L!END_MSG THEN "ends" ELSE "locks"
    BY <1>3, SMTT(30) DEF L!ReadLine, LinesInv, LockTypes
  <2>2. /\ Len(shown') = Len(shown) + 1 /\ shown'[Len(shown) + 1] = lines[si + 1]
        /\ shown' \in Seq(LineOrEnd) /\ \A k \in 1..Len(shown) : shown'[k] = shown[k]
    BY <2>1, LineTypes, AppendProperties
  <2>3. LockTypes'
    BY <1>1, <2>1, <2>2, SMTT(30) DEF LinesInv, LockTypes
  <2>4. ServerInv'
    BY <1>1, <1>3, <2>1, <2>2, SMTT(30) DEF LinesInv, LockTypes, ServerInv
  <2> QED BY <1>2, <2>3, <2>4 DEF LinesInv
<1>4. CASE ~(si < Len(lines))
  <2>1. svat' = "mismatch" /\ UNCHANGED <<si, shown>>
    BY <1>4 DEF L!ReadLine
  <2>2. clat = "failed"
    BY <1>1, <1>4, SMTT(30) DEF LinesInv, LockTypes, FileInv, LineWritten, FileEnded, ServerInv
  <2>3. LockTypes' /\ ServerInv'
    BY <1>1, <2>1, <2>2, SMTT(30) DEF LinesInv, LockTypes, ServerInv
  <2> QED BY <1>2, <2>3 DEF LinesInv
<1> QED BY <1>3, <1>4

\* Every step keeps the invariant.
LEMMA LinesNext == ASSUME LinesInv, [L!Next]_(L!vars) PROVE LinesInv'
<1>1. CASE L!ClientStep
  BY <1>1, StartServerInv, WriteLineInv, LockNextInv, UnlockLineInv, WriteEndInv, CloseFileInv,
     WriteFailsInv, ClientEndsInv DEF L!ClientStep
<1>2. CASE L!ServerStep
  BY <1>2, LockLineInv, ReadLineInv DEF L!ServerStep
<1>3. CASE UNCHANGED L!vars
  BY <1>3, SMTT(30)
  DEF L!vars, L!client, L!server, LinesInv, LockTypes, FileInv, LineWritten, FileEnded,
    LocksInv, ServerInv
<1> QED BY <1>1, <1>2, <1>3 DEF L!Next

\* The invariant holds in every execution.
THEOREM LinesInvariance == L!Spec => []LinesInv
BY LinesStart, LinesNext, PTL DEF L!Spec

\* What the server has shown is a beginning of the file, it reads after the
\* end only when the client failed, and when the client ends it has shown all.
THEOREM LinesAreShownInOrder == L!Spec => []L!ShownInOrder
<1>1. ASSUME LinesInv PROVE L!ShownInOrder
  <2>1. shown = SubSeq(lines, 1, Len(shown)) /\ Len(shown) <= Len(lines)
    BY <1>1, SMTT(30) DEF LinesInv, LockTypes, ServerInv
  <2>2. ASSUME clat = "ends" PROVE shown = lines
    <3>1. si = Len(lines)
      BY <1>1, <2>2, NoEnd, SMTT(30)
         DEF LinesInv, LockTypes, FileInv, LineWritten, FileEnded, ServerInv
    <3> QED BY <1>1, <3>1, SMTT(30) DEF LinesInv, LockTypes, ServerInv
  <2> QED BY <1>1, <2>1, <2>2 DEF LinesInv, ServerInv, L!ShownInOrder
<1> QED BY <1>1, LinesInvariance, PTL

\* The behaviours of the labs are behaviours of lab12es03.
LEMMA LabHasLines == LabSpec => L!Spec
<1>1. LabInit => L!Init
  BY Zenon DEF LabInit
<1>2. [LabNext]_labVars => [L!Next]_(L!vars)
  <2>1. UNCHANGED locked => UNCHANGED L!vars
    BY Zenon DEF locked, L!vars, L!client, L!server
  <2>2. ASSUME LabNext PROVE [L!Next]_(L!vars)
    <3>1. CASE lab = "locks"
      BY <2>2, <3>1, SMTT(10) DEF LabNext
    <3>2. CASE lab # "locks"
      BY <2>1, <2>2, <3>2, Zenon DEF LabNext
    <3> QED BY <3>1, <3>2
  <2>3. UNCHANGED labVars => UNCHANGED locked
    BY Zenon DEF labVars
  <2> QED BY <2>1, <2>2, <2>3
<1> QED BY <1>1, <1>2, PTL DEF LabSpec, L!Spec

-----------------------------------------------------------------------------
(* lab11es01: the threads and their updates of the accounts. *)

\* The amount of an operation, and the sum of a set of operations as the fold of
\* the property takes it: one element after the other, in whatever order.
Value(o)    == Operations[o[1]][o[2]][2]
Pick(s)     == CHOOSE x \in s : TRUE
Less(s, x)  == s \ {x}
Below(r, s) == r \subseteq s /\ r # s
IsSum(g, S) == g = [s \in SUBSET S |-> IF s = {} THEN 0
                                       ELSE Value(Pick(s)) + g[Less(s, Pick(s))]]
SumOf(S)    == (CHOOSE g : IsSum(g, S))[S]

\* Among the subsets of a finite set with a property there is a minimal one.
LEMMA MinimalSubset ==
  ASSUME NEW S, IsFiniteSet(S), NEW D \in SUBSET SUBSET S, D # {}
  PROVE  \E s \in D : \A r \in D : ~Below(r, s)
<1>1. IsWellFoundedOn(StrictSubsetOrdering(S), SUBSET S)
  BY FS_StrictSubsetOrderingWellFounded, FS_FiniteSubsetsOfFinite, Zenon
<1>2. PICK s \in D : \A r \in D : <<r, s>> \notin StrictSubsetOrdering(S)
  BY <1>1, WFMin, Zenon
<1>3. ASSUME NEW r \in D, Below(r, s) PROVE FALSE
  <2>1. <<r, s>> \in StrictSubsetOrdering(S)
    BY <1>3 DEF StrictSubsetOrdering, Below
  <2> QED BY <1>2, <2>1
<1> QED BY <1>3

\* A set without one of its elements.
LEMMA LessIs ==
  ASSUME NEW S, NEW s \in SUBSET S, NEW x \in s
  PROVE  x \in S /\ Less(s, x) \in SUBSET S /\ Less(s, x) \in SUBSET s /\ Below(Less(s, x), s)
BY DEF Less, Below

\* What is picked from a set that is not empty.
LEMMA Picked ==
  ASSUME NEW s, s # {}
  PROVE  Pick(s) \in s
<1>1. \E x : x \in s
  OBVIOUS
<1> QED BY <1>1, Zenon DEF Pick

\* The equations of such a sum.
LEMMA SumIs ==
  ASSUME NEW S, NEW g, IsSum(g, S), NEW s \in SUBSET S
  PROVE  /\ s = {} => g[s] = 0
         /\ s # {} => g[s] = Value(Pick(s)) + g[Less(s, Pick(s))]
<1>1. g = [r \in SUBSET S |-> IF r = {} THEN 0 ELSE Value(Pick(r)) + g[Less(r, Pick(r))]]
  BY Zenon DEF IsSum
<1> DEFINE E(r) == IF r = {} THEN 0 ELSE Value(Pick(r)) + g[Less(r, Pick(r))]
<1>2. g[s] = E(s)
  <2>1. g = [r \in SUBSET S |-> E(r)]
    BY <1>1, Zenon
  <2> HIDE DEF E
  <2> QED BY <2>1, Zenon
<1> QED BY <1>2, Zenon

\* Two of them agree on the sets that both know.
LEMMA SumsAgree ==
  ASSUME NEW S, NEW T, IsFiniteSet(S), NEW g, NEW h, IsSum(g, S), IsSum(h, T),
         NEW s \in SUBSET S, s \in SUBSET T
  PROVE  g[s] = h[s]
<1> DEFINE D == {r \in SUBSET S : r \in SUBSET T /\ g[r] # h[r]}
<1>1. SUFFICES ASSUME s \in D PROVE FALSE
  OBVIOUS
<1>2. D \in SUBSET SUBSET S /\ D # {}
  BY <1>1
<1>3. PICK r \in D : \A q \in D : ~Below(q, r)
  <2> HIDE DEF D
  <2> QED BY <1>2, MinimalSubset, Zenon
<1>4. r \in SUBSET S /\ r \in SUBSET T /\ g[r] # h[r]
  OBVIOUS
<1>5. r # {}
  BY <1>4, SumIs, Zenon
<1>6. /\ Less(r, Pick(r)) \notin D /\ Less(r, Pick(r)) \in SUBSET S
      /\ Less(r, Pick(r)) \in SUBSET T
  <2>1. Pick(r) \in r
    BY <1>5, Picked, Zenon
  <2> HIDE DEF D
  <2> QED BY <1>3, <1>4, <2>1, LessIs, Zenon
<1>7. g[Less(r, Pick(r))] = h[Less(r, Pick(r))]
  BY <1>6
<1>8. g[r] = Value(Pick(r)) + g[Less(r, Pick(r))] /\ h[r] = Value(Pick(r)) + h[Less(r, Pick(r))]
  BY <1>4, <1>5, SumIs, SMTT(60)
<1> QED BY <1>4, <1>7, <1>8, Zenon

\* There is one for every finite set.
LEMMA SumExists ==
  ASSUME NEW S, IsFiniteSet(S)
  PROVE  \E g : IsSum(g, S)
<1> DEFINE D    == {T \in SUBSET S : ~\E g : IsSum(g, T)}
           H(s) == CHOOSE g : IsSum(g, s)
           F(s) == IF s = {} THEN 0 ELSE Value(Pick(s)) + H(Less(s, Pick(s)))[Less(s, Pick(s))]
<1>1. SUFFICES ASSUME S \in D PROVE FALSE
  OBVIOUS
<1>2. D \in SUBSET SUBSET S /\ D # {}
  BY <1>1
<1>3. PICK T \in D : \A r \in D : ~Below(r, T)
  <2> HIDE DEF D
  <2> QED BY <1>2, MinimalSubset, Zenon
<1>4. T \in SUBSET S /\ ~\E g : IsSum(g, T)
  OBVIOUS
<1>5. ASSUME NEW r \in SUBSET T, r # T PROVE IsFiniteSet(r) /\ IsSum(H(r), r)
  <2>1. r \in SUBSET S /\ r \notin D
    <3>1. r \in SUBSET S /\ Below(r, T)
      BY <1>4, <1>5 DEF Below
    <3> HIDE DEF D
    <3> QED BY <1>3, <1>5, <3>1, Zenon
  <2>2. \E g : IsSum(g, r)
    BY <2>1
  <2>3. IsFiniteSet(r)
    BY <2>1, FS_Subset, Zenon
  <2> QED BY <2>2, <2>3, Zenon
<1>6. ASSUME NEW s \in SUBSET T, s # {}
      PROVE  LET r == Less(s, Pick(s)) IN F(r) = H(r)[r]
  <2> DEFINE r == Less(s, Pick(s))
             q == Less(r, Pick(r))
  <2>1. r \in SUBSET T /\ r # T
    <3>1. Pick(s) \in s
      BY <1>6, Picked, Zenon
    <3>2. r \in SUBSET T /\ Below(r, s)
      BY <3>1, LessIs, Zenon
    <3> HIDE DEF r
    <3> QED BY <3>2 DEF Below
  <2>2. IsFiniteSet(r) /\ IsSum(H(r), r)
    <3> HIDE DEF r, H
    <3> QED BY <1>5, <2>1, Zenon
  <2>3. CASE r = {}
    <3>1. H(r)[r] = 0
      <4>1. r \in SUBSET r
        OBVIOUS
      <4> HIDE DEF r, H
      <4> QED BY <2>2, <2>3, <4>1, SumIs, Zenon
    <3> QED BY <2>3, <3>1, Zenon
  <2>4. CASE r # {}
    <3>1. q \in SUBSET T /\ q # T /\ q \in SUBSET r /\ q \in SUBSET q /\ r \in SUBSET r
      <4> HIDE DEF r
      <4>1. Pick(r) \in r
        BY <2>4, Picked, Zenon
      <4>2. q \in SUBSET T /\ q \in SUBSET r /\ Below(q, r)
        BY <2>1, <4>1, LessIs
      <4> HIDE DEF q
      <4> QED BY <2>1, <4>2 DEF Below
    <3>2. IsFiniteSet(q) /\ IsSum(H(q), q)
      <4> HIDE DEF q, H
      <4> QED BY <1>5, <3>1, Zenon
    <3>3. H(q)[q] = H(r)[q]
      <4> HIDE DEF q, r, H
      <4> QED BY <2>2, <3>1, <3>2, SumsAgree
    <3>4. H(r)[r] = Value(Pick(r)) + H(r)[q]
      <4> HIDE DEF r, H
      <4> QED BY <2>2, <2>4, <3>1, SumIs
    <3>5. F(r) = Value(Pick(r)) + H(q)[q]
      <4> HIDE DEF r, H
      <4> QED BY <2>4, Zenon
    <3> HIDE DEF q, r, H, F
    <3> QED BY <3>3, <3>4, <3>5, Zenon DEF r
  <2> HIDE DEF r, H, F
  <2> QED BY <2>3, <2>4, Zenon DEF r
<1>7. IsSum([s \in SUBSET T |-> F(s)], T)
  <2> DEFINE G == [s \in SUBSET T |-> F(s)]
  <2>1. ASSUME NEW s \in SUBSET T
        PROVE  F(s) = IF s = {} THEN 0 ELSE Value(Pick(s)) + G[Less(s, Pick(s))]
    <3>1. CASE s = {}
      BY <3>1, Zenon
    <3>2. CASE s # {}
      <4>1. PICK r : r = Less(s, Pick(s))
        BY Zenon
      <4>2. r \in SUBSET T
        BY <3>2, <4>1, Picked, LessIs
      <4>3. F(s) = Value(Pick(s)) + H(r)[r]
        <5> HIDE DEF H
        <5> QED BY <3>2, <4>1, Zenon
      <4>4. F(r) = H(r)[r]
        <5> HIDE DEF H, F
        <5> QED BY <1>6, <3>2, <4>1, Zenon
      <4>5. G[r] = F(r)
        <5> HIDE DEF F
        <5> QED BY <4>2, Zenon
      <4> HIDE DEF F, G, H
      <4> QED BY <3>2, <4>1, <4>3, <4>4, <4>5, Zenon
    <3> QED BY <3>1, <3>2
  <2>2. G = [s \in SUBSET T |-> IF s = {} THEN 0 ELSE Value(Pick(s)) + G[Less(s, Pick(s))]]
    <3> DEFINE E(s) == IF s = {} THEN 0 ELSE Value(Pick(s)) + G[Less(s, Pick(s))]
    <3>1. \A s \in SUBSET T : F(s) = E(s)
      BY <2>1, Zenon
    <3>2. [s \in SUBSET T |-> F(s)] = [s \in SUBSET T |-> E(s)]
      <4> HIDE DEF E, F
      <4> QED BY <3>1, Zenon
    <3> HIDE DEF F
    <3> QED BY <3>2, Zenon
  <2> HIDE DEF G
  <2> QED BY <2>2, Zenon DEF IsSum, G
<1> QED BY <1>4, <1>7, Zenon

\* It gives numbers.
LEMMA SumTyped ==
  ASSUME NEW S, IsFiniteSet(S), NEW g, IsSum(g, S), \A x \in S : Value(x) \in Int,
         NEW s \in SUBSET S
  PROVE  g[s] \in Int
<1> DEFINE D == {r \in SUBSET S : g[r] \notin Int}
<1>1. SUFFICES ASSUME s \in D PROVE FALSE
  OBVIOUS
<1>2. D \in SUBSET SUBSET S /\ D # {}
  BY <1>1
<1>3. PICK r \in D : \A q \in D : ~Below(q, r)
  <2> HIDE DEF D
  <2> QED BY <1>2, MinimalSubset, Zenon
<1>4. r \in SUBSET S /\ g[r] \notin Int
  OBVIOUS
<1>5. r # {}
  <2>1. 0 \in Int
    OBVIOUS
  <2> QED BY <1>4, <2>1, SumIs, Zenon
<1>6. Less(r, Pick(r)) \notin D /\ Less(r, Pick(r)) \in SUBSET S /\ Pick(r) \in S
  <2>1. Pick(r) \in r
    BY <1>5, Picked, Zenon
  <2> HIDE DEF D
  <2> QED BY <1>3, <1>4, <2>1, LessIs, SMTT(60)
<1>7. g[Less(r, Pick(r))] \in Int /\ Value(Pick(r)) \in Int
  BY <1>6
<1>8. g[r] = Value(Pick(r)) + g[Less(r, Pick(r))]
  BY <1>4, <1>5, SumIs, SMTT(60)
<1>9. \A a, b \in Int : a + b \in Int
  OBVIOUS
<1> QED BY <1>4, <1>7, <1>8, <1>9, Zenon

\* The order does not matter: any element may be the last.
LEMMA SumWithout ==
  ASSUME NEW S, IsFiniteSet(S), NEW g, IsSum(g, S), \A x \in S : Value(x) \in Int,
         NEW s \in SUBSET S, NEW x \in s
  PROVE  g[s] = Value(x) + g[Less(s, x)]
<1> DEFINE D == {r \in SUBSET S : \E y \in r : g[r] # Value(y) + g[Less(r, y)]}
<1>1. SUFFICES ASSUME s \in D PROVE FALSE
  OBVIOUS
<1>2. D \in SUBSET SUBSET S /\ D # {}
  BY <1>1
<1>3. PICK r \in D : \A q \in D : ~Below(q, r)
  <2> HIDE DEF D
  <2> QED BY <1>2, MinimalSubset, Zenon
<1>4. r \in SUBSET S
  OBVIOUS
<1>5. PICK y \in r : g[r] # Value(y) + g[Less(r, y)]
  BY <1>3
<1>6. r # {}
  BY <1>5
<1>7. PICK p \in r : p = Pick(r)
  BY <1>6, Picked, Zenon
<1>8. g[r] = Value(p) + g[Less(r, p)]
  BY <1>4, <1>6, <1>7, SumIs, SMTT(60)
<1>9. p # y
  BY <1>5, <1>8
<1>10. ASSUME NEW z \in r, NEW w \in Less(r, z)
       PROVE  g[Less(r, z)] = Value(w) + g[Less(Less(r, z), w)]
  <2>1. Less(r, z) \in SUBSET S /\ Below(Less(r, z), r)
    BY <1>4, LessIs, Zenon
  <2>2. Less(r, z) \notin D
    <3> HIDE DEF D
    <3> QED BY <1>3, <2>1, Zenon
  <2>3. \A q \in SUBSET S : q \notin D => \A v \in q : g[q] = Value(v) + g[Less(q, v)]
    OBVIOUS
  <2> HIDE DEF D
  <2> QED BY <2>1, <2>2, <2>3, Zenon
<1>11. g[Less(r, p)] = Value(y) + g[Less(Less(r, p), y)] /\ g[Less(r, y)] = Value(p) + g[Less(Less(r, y), p)]
  <2>1. y \in Less(r, p) /\ p \in Less(r, y)
    BY <1>9 DEF Less
  <2> QED BY <1>10, <2>1, Zenon
<1>12. Less(Less(r, p), y) = Less(Less(r, y), p)
  BY DEF Less
<1>13. /\ Value(p) \in Int /\ Value(y) \in Int /\ g[Less(Less(r, y), p)] \in Int
  <2>1. p \in S /\ y \in S /\ Less(Less(r, y), p) \in SUBSET S
    BY <1>4 DEF Less
  <2> QED BY <2>1, SumTyped, Zenon
<1>14. PICK a, b, c : a = Value(p) /\ b = Value(y) /\ c = g[Less(Less(r, y), p)]
  BY Zenon
<1>15. /\ a \in Int /\ b \in Int /\ c \in Int /\ g[r] # b + g[Less(r, y)]
       /\ g[r] = a + g[Less(r, p)] /\ g[Less(r, p)] = b + c /\ g[Less(r, y)] = a + c
  BY <1>5, <1>8, <1>11, <1>12, <1>13, <1>14, Zenon
<1> QED BY <1>15

\* The sum of a set and one element more.
LEMMA SumAdds ==
  ASSUME NEW S, IsFiniteSet(S), NEW o, o \notin S, \A x \in S \cup {o} : Value(x) \in Int
  PROVE  SumOf(S \cup {o}) = SumOf(S) + Value(o) /\ SumOf(S) \in Int
<1> DEFINE T == S \cup {o}
<1>1. IsFiniteSet(T)
  BY FS_AddElement, Zenon
<1>2. PICK g : g = (CHOOSE k : IsSum(k, T)) /\ IsSum(g, T)
  <2> HIDE DEF T
  <2> QED BY <1>1, SumExists, Zenon
<1>3. PICK h : h = (CHOOSE k : IsSum(k, S)) /\ IsSum(h, S)
  BY SumExists, Zenon
<1>4. T \in SUBSET T /\ S \in SUBSET T /\ S \in SUBSET S /\ o \in T /\ Less(T, o) = S
  BY DEF Less
<1> HIDE DEF T
<1>5. \A x \in T : Value(x) \in Int
  BY DEF T
<1>6. g[T] = Value(o) + g[S]
  BY <1>1, <1>2, <1>4, <1>5, SumWithout
<1>7. g[S] = h[S]
  BY <1>1, <1>2, <1>3, <1>4, SumsAgree
<1>8. g[S] \in Int /\ Value(o) \in Int
  BY <1>1, <1>2, <1>4, <1>5, SumTyped, Zenon
<1>9. \A a, b \in Int : a + b = b + a
  OBVIOUS
<1>10. SumOf(T) = g[T] /\ SumOf(S) = h[S]
  BY <1>2, <1>3, Zenon DEF SumOf
<1> QED BY <1>6, <1>7, <1>8, <1>9, <1>10, Zenon DEF T

\* The sum of nothing.
LEMMA SumOfNone == SumOf({}) = 0
<1>1. IsFiniteSet({}) /\ {} \in SUBSET {}
  BY FS_EmptySet
<1>2. PICK g : g = (CHOOSE k : IsSum(k, {})) /\ IsSum(g, {})
  BY <1>1, SumExists, Zenon
<1> QED BY <1>1, <1>2, SumIs, Zenon DEF SumOf

AccountPlaces == {"acquires", "reads", "writes", "releases", "failed"}

AccountTypes ==
  /\ amount \in [Ids -> Int] /\ held \in [A!Thread -> Nat]
  /\ accountRecord \in [A!Thread -> Int] /\ finished \in [A!Thread -> Nat]
  /\ accountsAt \in [A!Thread -> AccountPlaces]

\* A thread has the lock for its operation.
HasLock(t) == accountsAt[t] \in {"reads", "writes", "releases"}

\* What it has locked, and the record that it has read while it does.
LockInvOf(t) ==
  /\ finished[t] <= Len(Operations[t])
  /\ HasLock(t) => finished[t] < Len(Operations[t]) /\ held[t] = A!Operation(t)[1]
  /\ ~HasLock(t) => held[t] = 0
  /\ accountsAt[t] = "writes" =>
       A!Operation(t)[1] \in Ids /\ accountRecord[t] = amount[A!Operation(t)[1]]

\* Two threads have locks only in version A, and of different records.
LocksApart ==
  \A t, u \in A!Thread :
    t # u /\ HasLock(t) /\ HasLock(u) => accountsVersion = "A" /\ held[t] # held[u]

\* The operations on an account that were written.
WrittenTo(n) == {o \in A!Written : Operations[o[1]][o[2]][1] = n}
SumsInv      == \A n \in Ids : amount[n] = SumOf(WrittenTo(n))

AccountsInv == AccountTypes /\ LocksApart /\ SumsInv /\ \A t \in A!Thread : LockInvOf(t)

\* The bound of the operations of a thread, and how many of them it has written.
MaxOperations == A!FX!Max({Len(Operations[u]) : u \in A!Thread})
WrittenBy(t)  == finished[t] + (IF accountsAt[t] = "releases" THEN 1 ELSE 0)

\* What is known of the operations.
LEMMA OperationsAre ==
  /\ IsFiniteSet(A!Thread)
  /\ \A t \in A!Thread : /\ Len(Operations[t]) \in Nat
                         /\ \A k \in 1..Len(Operations[t]) :
                              /\ Operations[t][k][1] \in Nat /\ Operations[t][k][1] # 0
                              /\ Operations[t][k][2] \in Int
<1>1. Operations \in Seq(Seq((Nat \ {0}) \X Int))
  BY LabAssumption, Zenon DEF LabAssumption, A!AccountsAssumption
<1>2. A!Thread = 1..Len(Operations) /\ Len(Operations) \in Nat
  BY <1>1 DEF A!Thread
<1>3. IsFiniteSet(A!Thread)
  <2>1. \A n \in Nat : 1 \in Int /\ n \in Int
    OBVIOUS
  <2> QED BY <1>2, <2>1, FS_Interval, Zenon
<1>4. ASSUME NEW t \in A!Thread PROVE Operations[t] \in Seq((Nat \ {0}) \X Int)
  BY <1>1, <1>2
<1>5. ASSUME NEW s \in Seq((Nat \ {0}) \X Int)
      PROVE  /\ Len(s) \in Nat
             /\ \A k \in 1..Len(s) : s[k][1] \in Nat /\ s[k][1] # 0 /\ s[k][2] \in Int
  OBVIOUS
<1> QED BY <1>3, <1>4, <1>5, Zenon

\* The bound is one.
LEMMA MaxIs ==
  ASSUME NEW t \in A!Thread
  PROVE  MaxOperations \in Nat /\ Len(Operations[t]) <= MaxOperations
<1> DEFINE S == {Len(Operations[u]) : u \in A!Thread}
           f == [u \in A!Thread |-> Len(Operations[u])]
<1>1. f \in Surjection(A!Thread, S)
  <2>1. f \in [A!Thread -> S] /\ \A n \in S : \E u \in A!Thread : f[u] = n
    OBVIOUS
  <2> HIDE DEF f, S
  <2> QED BY <2>1, Zenon DEF Surjection
<1>2. IsFiniteSet(S)
  <2> HIDE DEF f, S
  <2> QED BY <1>1, OperationsAre, FS_Surjection, Zenon
<1>3. Len(Operations[t]) \in S /\ S \in SUBSET Int /\ \A n \in S : n \in Nat
  <2>1. \A n \in Nat : n \in Int
    OBVIOUS
  <2>2. \A u \in A!Thread : Len(Operations[u]) \in Nat
    BY OperationsAre, Zenon
  <2> QED BY <2>1, <2>2
<1>4. MaxOperations = CHOOSE x \in S : \A y \in S : x >= y
  BY Zenon DEF MaxOperations, A!FX!Max
<1> HIDE DEF S
<1>5. PICK x \in S : \A y \in S : x >= y
  <2>1. PICK x \in S : \A y \in S : y <= x
    BY <1>2, <1>3, GreatestExists, Zenon
  <2>2. \A a, b \in Nat : a <= b => b >= a
    OBVIOUS
  <2> QED BY <1>3, <2>1, <2>2, Zenon
<1>6. MaxOperations \in S /\ \A y \in S : MaxOperations >= y
  BY <1>4, <1>5, Zenon
<1>7. \A a, b \in Nat : a >= b => b <= a
  OBVIOUS
<1> QED BY <1>3, <1>6, <1>7, Zenon

\* The operations that were written, thread by thread.
LEMMA WrittenIs ==
  \A o : o \in A!Written <=> /\ o \in A!Thread \X (1..MaxOperations)
                             /\ o[2] <= WrittenBy(o[1])
BY Zenon DEF A!Written, MaxOperations, WrittenBy

\* And after a step.
LEMMA WrittenNext ==
  \A o : o \in A!Written' <=> /\ o \in A!Thread \X (1..MaxOperations)
                              /\ o[2] <= WrittenBy(o[1])'
BY Zenon DEF A!Written, MaxOperations, WrittenBy, A!Thread

\* The property takes these sums.
LEMMA SumsAre == SumsInv <=> A!NoLostUpdate
BY Zenon DEF SumsInv, WrittenTo, SumOf, IsSum, Value, Pick, Less, A!NoLostUpdate,
             A!FX!MapThenSumSet, A!FX!MapThenFoldSet

\* They are finite sets of numbers.
LEMMA WrittenFinite ==
  ASSUME NEW n
  PROVE  IsFiniteSet(WrittenTo(n))
<1>1. WrittenTo(n) \subseteq A!Thread \X (1..MaxOperations)
  BY WrittenIs DEF WrittenTo
<1>2. CASE A!Thread = {}
  <2>1. WrittenTo(n) = {}
    BY <1>1, <1>2
  <2> QED BY <2>1, FS_EmptySet, Zenon
<1>3. CASE A!Thread # {}
  <2>1. PICK t : t \in A!Thread
    BY <1>3
  <2>2. \A m \in Nat : 1 \in Int /\ m \in Int
    OBVIOUS
  <2>3. IsFiniteSet(1..MaxOperations)
    BY <2>1, <2>2, MaxIs, FS_Interval, Zenon
  <2>4. IsFiniteSet(A!Thread \X (1..MaxOperations))
    BY <2>3, OperationsAre, FS_Product, Zenon
  <2> QED BY <1>1, <2>4, FS_Subset, Zenon
<1> QED BY <1>2, <1>3

\* The operation of a thread that has a lock.
LEMMA OperationIs ==
  ASSUME AccountsInv, NEW t \in A!Thread, finished[t] < Len(Operations[t])
  PROVE  /\ A!Operation(t)[1] \in Nat /\ A!Operation(t)[1] # 0 /\ A!Operation(t)[2] \in Int
         /\ <<t, finished[t] + 1>> \in A!Thread \X (1..MaxOperations)
         /\ Value(<<t, finished[t] + 1>>) = A!Operation(t)[2]
         /\ Operations[<<t, finished[t] + 1>>[1]][<<t, finished[t] + 1>>[2]][1] = A!Operation(t)[1]
<1>1. finished[t] \in Nat
  BY Zenon DEF AccountsInv, AccountTypes
<1>2. Len(Operations[t]) \in Nat /\ MaxOperations \in Nat /\ Len(Operations[t]) <= MaxOperations
  BY OperationsAre, MaxIs, Zenon
<1>3. ASSUME NEW a \in Nat, NEW b \in Nat, NEW c \in Nat, a < b, b <= c
      PROVE  a + 1 \in 1..b /\ a + 1 \in 1..c
  BY <1>3
<1>4. finished[t] + 1 \in 1..Len(Operations[t]) /\ finished[t] + 1 \in 1..MaxOperations
  BY <1>1, <1>2, <1>3, Zenon
<1>5. PICK k : k = finished[t] + 1
  BY Zenon
<1>6. A!Operation(t) = Operations[t][k]
  BY <1>5, Zenon DEF A!Operation
<1>7. <<t, k>> \in A!Thread \X (1..MaxOperations)
  BY <1>4, <1>5
<1>8. <<t, k>>[1] = t /\ <<t, k>>[2] = k
  OBVIOUS
<1>9. /\ Operations[t][k][1] \in Nat /\ Operations[t][k][1] # 0 /\ Operations[t][k][2] \in Int
  BY <1>4, <1>5, OperationsAre, Zenon
<1> QED BY <1>5, <1>6, <1>7, <1>8, <1>9, Zenon DEF Value

\* What a thread and the amounts are.
LEMMA AccountTypesNow ==
  ASSUME AccountsInv
  PROVE  /\ amount \in [Ids -> Int] /\ held \in [A!Thread -> Nat]
         /\ accountRecord \in [A!Thread -> Int] /\ finished \in [A!Thread -> Nat]
         /\ accountsAt \in [A!Thread -> AccountPlaces]
BY Zenon DEF AccountsInv, AccountTypes

\* A thread that a step leaves alone.
LEMMA SameLock ==
  ASSUME AccountsInv, NEW t \in A!Thread, held'[t] = held[t], finished'[t] = finished[t],
         accountRecord'[t] = accountRecord[t], accountsAt'[t] = accountsAt[t],
         accountsAt[t] = "writes" => amount'[A!Operation(t)[1]] = amount[A!Operation(t)[1]]
  PROVE  LockInvOf(t)' /\ (HasLock(t)' <=> HasLock(t)) /\ A!Operation(t)' = A!Operation(t)
<1>1. LockInvOf(t)
  BY Zenon DEF AccountsInv
<1>2. HasLock(t)' <=> HasLock(t)
  BY Zenon DEF HasLock
<1>3. A!Operation(t)' = A!Operation(t)
  BY Zenon DEF A!Operation
<1>4. LockInvOf(t)'
  BY <1>1, <1>2, <1>3, Zenon DEF LockInvOf
<1> QED BY <1>2, <1>3, <1>4

\* Where a thread goes.
LEMMA AccountsGoto ==
  ASSUME AccountsInv, NEW t \in A!Thread, NEW l \in AccountPlaces, A!Goto(t, l)
  PROVE  /\ accountsAt' \in [A!Thread -> AccountPlaces] /\ accountsAt'[t] = l
         /\ \A u \in A!Thread \ {t} : accountsAt'[u] = accountsAt[u]
<1>1. accountsAt' = [accountsAt EXCEPT ![t] = l]
  BY Zenon DEF A!Goto
<1> QED BY <1>1, AccountTypesNow, Update, Zenon

\* The sums stay when nothing is written.
LEMMA SameSums ==
  ASSUME AccountsInv, amount' = amount, \A t \in A!Thread : WrittenBy(t)' = WrittenBy(t)
  PROVE  SumsInv'
<1>1. \A o : o \in A!Written' <=> o \in A!Written
  <2>1. ASSUME NEW o PROVE o \in A!Written' <=> o \in A!Written
    <3>1. CASE o \in A!Thread \X (1..MaxOperations)
      <4>1. PICK t \in A!Thread : t = o[1]
        BY <3>1
      <4>2. WrittenBy(o[1])' = WrittenBy(o[1])
        BY <4>1, Zenon DEF WrittenBy
      <4> QED BY <4>2, WrittenIs, WrittenNext, Zenon
    <3>2. CASE o \notin A!Thread \X (1..MaxOperations)
      BY <3>2, WrittenIs, WrittenNext, Zenon
    <3> QED BY <3>1, <3>2
  <2> QED BY <2>1
<1>2. A!Written' = A!Written
  BY <1>1
<1>3. \A n : WrittenTo(n)' = WrittenTo(n)
  BY <1>2, Zenon DEF WrittenTo
<1>4. \A n : SumOf(WrittenTo(n))' = SumOf(WrittenTo(n))
  BY <1>3, Zenon DEF SumOf, IsSum, Value
<1> QED BY <1>4, Zenon DEF AccountsInv, SumsInv

\* The thread that gets the lock for its next operation.
LEMMA AcquiresKeep ==
  ASSUME AccountsInv, NEW t \in A!Thread, A!Acquire(t)
  PROVE  AccountsInv'
<1>1. /\ accountsAt[t] = "acquires" /\ finished[t] < Len(Operations[t])
      /\ \A u \in A!Thread : ~A!Conflict(t, u)
      /\ held' = [held EXCEPT ![t] = A!Operation(t)[1]] /\ A!Goto(t, "reads")
      /\ accountsVersion' = accountsVersion /\ amount' = amount /\ accountRecord' = accountRecord
      /\ finished' = finished
  BY Zenon DEF A!Acquire
<1>2. A!Operation(t)[1] \in Nat /\ A!Operation(t)[1] # 0
  BY <1>1, OperationIs, Zenon
<1>3. /\ held' \in [A!Thread -> Nat] /\ held'[t] = A!Operation(t)[1]
      /\ \A u \in A!Thread \ {t} : held'[u] = held[u]
  BY <1>1, <1>2, AccountTypesNow, Update, Zenon
<1>4. /\ accountsAt' \in [A!Thread -> AccountPlaces] /\ accountsAt'[t] = "reads"
      /\ \A u \in A!Thread \ {t} : accountsAt'[u] = accountsAt[u]
  <2>1. "reads" \in AccountPlaces
    BY DEF AccountPlaces
  <2> QED BY <1>1, <2>1, AccountsGoto, Zenon
<1>5. AccountTypes'
  BY <1>1, <1>3, <1>4, AccountTypesNow, Zenon DEF AccountTypes, A!Thread
<1>6. HasLock(t)' /\ accountsAt'[t] # "writes" /\ accountsAt[t] # "releases" /\ accountsAt'[t] # "releases"
  BY <1>1, <1>4 DEF HasLock
<1>7. A!Operation(t)' = A!Operation(t)
  BY <1>1, Zenon DEF A!Operation
<1>8. LockInvOf(t)'
  <2>1. finished[t] <= Len(Operations[t])
    BY Zenon DEF AccountsInv, LockInvOf
  <2> QED BY <1>1, <1>3, <1>6, <1>7, <2>1, Zenon DEF LockInvOf
<1>9. ASSUME NEW u \in A!Thread, u # t
      PROVE  LockInvOf(u)' /\ (HasLock(u)' <=> HasLock(u)) /\ held'[u] = held[u]
  BY <1>1, <1>3, <1>4, <1>9, SameLock, Zenon
<1>10. ASSUME NEW u \in A!Thread, u # t, HasLock(u)
       PROVE  accountsVersion = "A" /\ held[u] # A!Operation(t)[1]
  <2>1. held[u] # 0
    <3>1. held[u] = A!Operation(u)[1] /\ finished[u] < Len(Operations[u])
      BY <1>10, Zenon DEF AccountsInv, LockInvOf
    <3> QED BY <3>1, OperationIs, Zenon
  <2>2. ~A!Conflict(t, u)
    BY <1>1, Zenon
  <2> QED BY <2>1, <2>2, Zenon DEF A!Conflict
<1>11. LocksApart'
  <2>1. ASSUME NEW u \in A!Thread, NEW v \in A!Thread, u # v, HasLock(u)', HasLock(v)'
        PROVE  accountsVersion' = "A" /\ held'[u] # held'[v]
    <3>1. CASE u = t
      BY <1>1, <1>3, <1>9, <1>10, <2>1, <3>1, Zenon
    <3>2. CASE v = t
      BY <1>1, <1>3, <1>9, <1>10, <2>1, <3>2, Zenon
    <3>3. CASE u # t /\ v # t
      <4>1. HasLock(u) /\ HasLock(v) /\ held'[u] = held[u] /\ held'[v] = held[v]
        BY <1>9, <2>1, <3>3, Zenon
      <4> QED BY <1>1, <2>1, <4>1, Zenon DEF AccountsInv, LocksApart
    <3> QED BY <3>1, <3>2, <3>3
  <2> QED BY <2>1, Zenon DEF LocksApart, A!Thread
<1>12. SumsInv'
  <2>1. ASSUME NEW u \in A!Thread PROVE WrittenBy(u)' = WrittenBy(u)
    <3>1. accountsAt'[u] = "releases" <=> accountsAt[u] = "releases"
      BY <1>4, <1>6, Zenon
    <3> QED BY <1>1, <3>1, Zenon DEF WrittenBy
  <2> QED BY <1>1, <2>1, SameSums, Zenon
<1>13. ASSUME NEW u \in A!Thread PROVE LockInvOf(u)'
  BY <1>8, <1>9, Zenon
<1> QED BY <1>5, <1>11, <1>12, <1>13, Zenon DEF AccountsInv, A!Thread

\* A thread that lets go of its lock, with its operation done or not.
LEMMA LetGoKeeps ==
  ASSUME AccountsInv, NEW t \in A!Thread, NEW l \in AccountPlaces, A!Goto(t, l),
         l \notin {"reads", "writes", "releases"}, held' = [held EXCEPT ![t] = 0],
         accountsVersion' = accountsVersion, amount' = amount, accountRecord' = accountRecord,
         finished' \in [A!Thread -> Nat], \A u \in A!Thread \ {t} : finished'[u] = finished[u],
         finished'[t] <= Len(Operations[t]), WrittenBy(t)' = WrittenBy(t)
  PROVE  AccountsInv'
<1>1. /\ held' \in [A!Thread -> Nat] /\ held'[t] = 0
      /\ \A u \in A!Thread \ {t} : held'[u] = held[u]
  <2>1. 0 \in Nat
    OBVIOUS
  <2> QED BY <2>1, AccountTypesNow, Update, Zenon
<1>2. /\ accountsAt' \in [A!Thread -> AccountPlaces] /\ accountsAt'[t] = l
      /\ \A u \in A!Thread \ {t} : accountsAt'[u] = accountsAt[u]
  BY AccountsGoto, Zenon
<1>3. AccountTypes'
  BY <1>1, <1>2, AccountTypesNow, Zenon DEF AccountTypes, A!Thread
<1>4. ~HasLock(t)' /\ accountsAt'[t] # "writes"
  BY <1>2 DEF HasLock
<1>5. LockInvOf(t)'
  BY <1>1, <1>4, Zenon DEF LockInvOf
<1>6. ASSUME NEW u \in A!Thread, u # t
      PROVE  LockInvOf(u)' /\ (HasLock(u)' <=> HasLock(u)) /\ held'[u] = held[u]
  BY <1>1, <1>2, <1>6, SameLock, Zenon
<1>7. LocksApart'
  <2>1. ASSUME NEW u \in A!Thread, NEW v \in A!Thread, u # v, HasLock(u)', HasLock(v)'
        PROVE  accountsVersion' = "A" /\ held'[u] # held'[v]
    <3>1. HasLock(u) /\ HasLock(v) /\ held'[u] = held[u] /\ held'[v] = held[v]
      BY <1>4, <1>6, <2>1, Zenon
    <3> QED BY <2>1, <3>1, Zenon DEF AccountsInv, LocksApart
  <2> QED BY <2>1, Zenon DEF LocksApart, A!Thread
<1>8. SumsInv'
  <2>1. ASSUME NEW u \in A!Thread PROVE WrittenBy(u)' = WrittenBy(u)
    <3>1. CASE u = t
      BY <3>1, Zenon
    <3>2. CASE u # t
      BY <1>2, <3>2, Zenon DEF WrittenBy
    <3> QED BY <3>1, <3>2
  <2> QED BY <2>1, SameSums, Zenon
<1>9. ASSUME NEW u \in A!Thread PROVE LockInvOf(u)'
  BY <1>5, <1>6, Zenon
<1> QED BY <1>3, <1>7, <1>8, <1>9, Zenon DEF AccountsInv, A!Thread

\* A thread that finds no such record, and one that has written.
LEMMA ReleasesKeep ==
  ASSUME AccountsInv, NEW t \in A!Thread, A!ReadFails(t) \/ A!Release(t)
  PROVE  AccountsInv'
<1>1. "failed" \in AccountPlaces /\ "acquires" \in AccountPlaces
  BY DEF AccountPlaces
<1>2. finished \in [A!Thread -> Nat]
  BY AccountTypesNow, Zenon
<1>3. CASE A!ReadFails(t)
  <2>1. /\ accountsAt[t] = "reads" /\ held' = [held EXCEPT ![t] = 0] /\ A!Goto(t, "failed")
        /\ accountsVersion' = accountsVersion /\ amount' = amount
        /\ accountRecord' = accountRecord /\ finished' = finished
    BY <1>3, Zenon DEF A!ReadFails
  <2>2. accountsAt'[t] = "failed"
    BY <1>1, <2>1, AccountsGoto, Zenon
  <2>3. accountsAt[t] # "releases" /\ accountsAt'[t] # "releases"
    BY <2>1, <2>2
  <2>4. WrittenBy(t)' = WrittenBy(t)
    BY <2>1, <2>3, Zenon DEF WrittenBy
  <2>5. "failed" \notin {"reads", "writes", "releases"}
    OBVIOUS
  <2>6. finished'[t] <= Len(Operations[t])
    BY <2>1, Zenon DEF AccountsInv, LockInvOf
  <2> QED BY <1>1, <1>2, <2>1, <2>4, <2>5, <2>6, LetGoKeeps, Zenon
<1>4. CASE A!Release(t)
  <2>1. /\ accountsAt[t] = "releases" /\ held' = [held EXCEPT ![t] = 0] /\ A!Goto(t, "acquires")
        /\ accountsVersion' = accountsVersion /\ amount' = amount
        /\ accountRecord' = accountRecord
        /\ finished' = [finished EXCEPT ![t] = finished[t] + 1]
    BY <1>4, Zenon DEF A!Release
  <2>2. accountsAt'[t] = "acquires"
    BY <1>1, <2>1, AccountsGoto, Zenon
  <2>3. finished[t] \in Nat /\ finished[t] + 1 \in Nat /\ finished[t] + 1 + 0 = finished[t] + 1
    <3>1. \A n \in Nat : n + 1 \in Nat /\ n + 1 + 0 = n + 1
      OBVIOUS
    <3> QED BY <1>2, <3>1, Zenon
  <2>4. /\ finished' \in [A!Thread -> Nat] /\ finished'[t] = finished[t] + 1
        /\ \A u \in A!Thread \ {t} : finished'[u] = finished[u]
    BY <1>2, <2>1, <2>3, Update, Zenon
  <2>5. accountsAt'[t] # "releases" /\ "acquires" \notin {"reads", "writes", "releases"}
    BY <2>2
  <2>6. WrittenBy(t) = finished[t] + 1 /\ WrittenBy(t)' = finished[t] + 1 + 0
    BY <2>1, <2>4, <2>5, Zenon DEF WrittenBy
  <2>7. WrittenBy(t)' = WrittenBy(t)
    BY <2>3, <2>6, Zenon
  <2>8. finished'[t] <= Len(Operations[t])
    <3>1. HasLock(t)
      BY <2>1 DEF HasLock
    <3>2. finished[t] < Len(Operations[t]) /\ Len(Operations[t]) \in Nat
      BY <3>1, OperationsAre, Zenon DEF AccountsInv, LockInvOf
    <3>3. \A a, b \in Nat : a < b => a + 1 <= b
      OBVIOUS
    <3> QED BY <2>3, <2>4, <3>2, <3>3, Zenon
  <2> QED BY <1>1, <2>1, <2>4, <2>5, <2>7, <2>8, LetGoKeeps, Zenon
<1> QED BY <1>3, <1>4

\* A thread that reads the amount in its record, which it has locked.
LEMMA ReadsKeep ==
  ASSUME AccountsInv, NEW t \in A!Thread, A!Read(t)
  PROVE  AccountsInv'
<1>1. /\ accountsAt[t] = "reads" /\ A!Operation(t)[1] \in Ids /\ A!Goto(t, "writes")
      /\ accountRecord' = [accountRecord EXCEPT ![t] = amount[A!Operation(t)[1]]]
      /\ accountsVersion' = accountsVersion /\ amount' = amount /\ held' = held
      /\ finished' = finished
  BY Zenon DEF A!Read
<1>2. amount[A!Operation(t)[1]] \in Int
  BY <1>1, AccountTypesNow, Zenon
<1>3. /\ accountRecord' \in [A!Thread -> Int]
      /\ accountRecord'[t] = amount[A!Operation(t)[1]]
      /\ \A u \in A!Thread \ {t} : accountRecord'[u] = accountRecord[u]
  BY <1>1, <1>2, AccountTypesNow, Update, Zenon
<1>4. /\ accountsAt' \in [A!Thread -> AccountPlaces] /\ accountsAt'[t] = "writes"
      /\ \A u \in A!Thread \ {t} : accountsAt'[u] = accountsAt[u]
  <2>1. "writes" \in AccountPlaces
    BY DEF AccountPlaces
  <2> QED BY <1>1, <2>1, AccountsGoto, Zenon
<1>5. AccountTypes'
  BY <1>1, <1>3, <1>4, AccountTypesNow, Zenon DEF AccountTypes, A!Thread
<1>6. HasLock(t)' /\ HasLock(t) /\ accountsAt[t] # "releases" /\ accountsAt'[t] # "releases"
  BY <1>1, <1>4 DEF HasLock
<1>7. A!Operation(t)' = A!Operation(t)
  BY <1>1, Zenon DEF A!Operation
<1>8. LockInvOf(t)'
  <2>1. finished[t] < Len(Operations[t]) /\ held[t] = A!Operation(t)[1]
    BY <1>6, Zenon DEF AccountsInv, LockInvOf
  <2>2. finished[t] <= Len(Operations[t])
    BY Zenon DEF AccountsInv, LockInvOf
  <2> QED BY <1>1, <1>3, <1>6, <1>7, <2>1, <2>2, Zenon DEF LockInvOf
<1>9. ASSUME NEW u \in A!Thread, u # t PROVE LockInvOf(u)' /\ (HasLock(u)' <=> HasLock(u))
  BY <1>1, <1>3, <1>4, <1>9, SameLock, Zenon
<1>10. LocksApart'
  <2>1. ASSUME NEW u \in A!Thread, NEW v \in A!Thread, u # v, HasLock(u)', HasLock(v)'
        PROVE  accountsVersion' = "A" /\ held'[u] # held'[v]
    <3>1. HasLock(u) /\ HasLock(v)
      BY <1>6, <1>9, <2>1, Zenon
    <3> QED BY <1>1, <2>1, <3>1, Zenon DEF AccountsInv, LocksApart
  <2> QED BY <2>1, Zenon DEF LocksApart, A!Thread
<1>11. SumsInv'
  <2>1. ASSUME NEW u \in A!Thread PROVE WrittenBy(u)' = WrittenBy(u)
    <3>1. accountsAt'[u] = "releases" <=> accountsAt[u] = "releases"
      BY <1>4, <1>6, Zenon
    <3> QED BY <1>1, <3>1, Zenon DEF WrittenBy
  <2> QED BY <1>1, <2>1, SameSums, Zenon
<1>12. ASSUME NEW u \in A!Thread PROVE LockInvOf(u)'
  BY <1>8, <1>9, Zenon
<1> QED BY <1>5, <1>10, <1>11, <1>12, Zenon DEF AccountsInv, A!Thread

\* A thread has written no more operations than it has.
LEMMA WrittenFits ==
  ASSUME AccountsInv, NEW t \in A!Thread
  PROVE  WrittenBy(t) \in Nat /\ WrittenBy(t) <= Len(Operations[t])
<1>1. finished[t] \in Nat /\ Len(Operations[t]) \in Nat
  BY AccountTypesNow, OperationsAre, Zenon
<1>2. ASSUME NEW a \in Nat, NEW b \in Nat
      PROVE  /\ a <= b => a + 0 \in Nat /\ a + 0 <= b
             /\ a < b => a + 1 \in Nat /\ a + 1 <= b
  OBVIOUS
<1>3. CASE accountsAt[t] = "releases"
  <2>1. HasLock(t)
    BY <1>3 DEF HasLock
  <2>2. finished[t] < Len(Operations[t])
    BY <2>1, Zenon DEF AccountsInv, LockInvOf
  <2> QED BY <1>1, <1>2, <1>3, <2>2, Zenon DEF WrittenBy
<1>4. CASE accountsAt[t] # "releases"
  <2>1. finished[t] <= Len(Operations[t])
    BY Zenon DEF AccountsInv, LockInvOf
  <2> QED BY <1>1, <1>2, <1>4, <2>1, Zenon DEF WrittenBy
<1> QED BY <1>3, <1>4

\* The operation that a thread writes is one more on its account.
LEMMA WrittenAdds ==
  ASSUME AccountsInv, NEW t \in A!Thread, finished[t] < Len(Operations[t]),
         accountsAt[t] = "writes", finished' = finished, accountsAt'[t] = "releases",
         \A u \in A!Thread \ {t} : accountsAt'[u] = accountsAt[u], NEW n
  PROVE  LET o == <<t, finished[t] + 1>>
         IN  /\ o \notin WrittenTo(n)
             /\ WrittenTo(n)' = IF n = A!Operation(t)[1] THEN WrittenTo(n) \cup {o}
                                                         ELSE WrittenTo(n)
<1>1. finished[t] \in Nat
  BY AccountTypesNow, Zenon
<1>2. PICK k, w : k = finished[t] + 1 /\ w = <<t, k>>
  BY Zenon
<1>3. w \in A!Thread \X (1..MaxOperations) /\ w[1] = t /\ w[2] = k /\ k \in Nat
  BY <1>1, <1>2, OperationIs
<1>4. WrittenBy(t) = finished[t] + 0 /\ WrittenBy(t)' = k
  <2>1. accountsAt[t] # "releases"
    OBVIOUS
  <2> QED BY <1>2, <2>1, Zenon DEF WrittenBy
<1>5. MaxOperations \in Nat
  BY MaxIs, Zenon
<1>6. ASSUME NEW o \in A!Thread \X (1..MaxOperations), o # w
      PROVE  o[2] <= WrittenBy(o[1])' <=> o[2] <= WrittenBy(o[1])
  <2>1. CASE o[1] = t
    <3>1. o[2] \in 1..MaxOperations /\ o[2] # k
      BY <1>2, <1>6, <2>1
    <3>2. PICK m : m = o[2]
      BY Zenon
    <3>3. ASSUME NEW a \in Nat, NEW b \in 1..MaxOperations, b # a + 1
          PROVE  b <= a + 1 <=> b <= a + 0
      BY <1>5, <3>3
    <3>4. m <= k <=> m <= finished[t] + 0
      BY <1>1, <1>2, <3>1, <3>2, <3>3, Zenon
    <3>5. WrittenBy(o[1]) = WrittenBy(t) /\ WrittenBy(o[1])' = WrittenBy(t)'
      BY <2>1, Zenon DEF WrittenBy
    <3> QED BY <1>4, <3>2, <3>4, <3>5, Zenon
  <2>2. CASE o[1] # t
    <3>1. PICK u \in A!Thread : u = o[1]
      OBVIOUS
    <3>2. WrittenBy(o[1])' = WrittenBy(o[1])
      BY <2>2, <3>1, Zenon DEF WrittenBy
    <3> QED BY <3>2, Zenon
  <2> QED BY <2>1, <2>2
<1>7. w \in A!Written' /\ w \notin A!Written
  <2>1. \A a \in Nat : a + 1 <= a + 1 /\ ~(a + 1 <= a + 0)
    OBVIOUS
  <2>2. k <= k /\ ~(k <= finished[t] + 0)
    BY <1>1, <1>2, <2>1, Zenon
  <2>3. WrittenBy(w[1])' = k /\ WrittenBy(w[1]) = finished[t] + 0
    <3>1. WrittenBy(w[1]) = WrittenBy(t) /\ WrittenBy(w[1])' = WrittenBy(t)'
      BY <1>3, Zenon DEF WrittenBy
    <3> QED BY <1>4, <3>1, Zenon
  <2> QED BY <1>3, <2>2, <2>3, WrittenIs, WrittenNext, Zenon
<1>8. ASSUME NEW o, o # w PROVE o \in A!Written' <=> o \in A!Written
  BY <1>6, <1>8, WrittenIs, WrittenNext, Zenon
<1>9. Operations[w[1]][w[2]][1] = A!Operation(t)[1]
  BY <1>2, OperationIs, Zenon
<1>10. w \notin WrittenTo(n)
  BY <1>7, Zenon DEF WrittenTo
<1>11. \A o : o \in WrittenTo(n)' <=> o \in A!Written' /\ Operations[o[1]][o[2]][1] = n
  BY Zenon DEF WrittenTo
<1>12. \A o : o \in WrittenTo(n) <=> o \in A!Written /\ Operations[o[1]][o[2]][1] = n
  BY Zenon DEF WrittenTo
<1>13. CASE n = A!Operation(t)[1]
  <2>1. \A o : o \in WrittenTo(n)' <=> o \in WrittenTo(n) \/ o = w
    BY <1>7, <1>8, <1>9, <1>11, <1>12, <1>13, Zenon
  <2>2. WrittenTo(n)' = WrittenTo(n) \cup {w}
    BY <2>1
  <2> QED BY <1>2, <1>10, <1>13, <2>2, Zenon
<1>14. CASE n # A!Operation(t)[1]
  <2>1. \A o : o \in WrittenTo(n)' <=> o \in WrittenTo(n)
    BY <1>7, <1>8, <1>9, <1>11, <1>12, <1>14, Zenon
  <2>2. WrittenTo(n)' = WrittenTo(n)
    BY <2>1
  <2> QED BY <1>2, <1>10, <1>14, <2>2, Zenon
<1> QED BY <1>13, <1>14

\* The amount that a thread writes is the one in the file and its own.
LEMMA WritesKeep ==
  ASSUME AccountsInv, NEW t \in A!Thread, A!Write(t)
  PROVE  AccountsInv'
<1> DEFINE id == A!Operation(t)[1]
<1>1. /\ accountsAt[t] = "writes" /\ A!Goto(t, "releases")
      /\ amount' = [amount EXCEPT ![id] = accountRecord[t] + A!Operation(t)[2]]
      /\ accountsVersion' = accountsVersion /\ held' = held /\ accountRecord' = accountRecord
      /\ finished' = finished
  BY Zenon DEF A!Write
<1>2. HasLock(t)
  BY <1>1 DEF HasLock
<1>3. /\ finished[t] < Len(Operations[t]) /\ held[t] = id /\ id \in Ids
      /\ accountRecord[t] = amount[id] /\ finished[t] <= Len(Operations[t])
  BY <1>1, <1>2, Zenon DEF AccountsInv, LockInvOf
<1>4. A!Operation(t)[2] \in Int /\ amount[id] \in Int /\ amount[id] + A!Operation(t)[2] \in Int
  <2>1. A!Operation(t)[2] \in Int
    BY <1>3, OperationIs, Zenon
  <2>2. amount[id] \in Int
    BY <1>3, AccountTypesNow, Zenon
  <2>3. \A a, b \in Int : a + b \in Int
    OBVIOUS
  <2> QED BY <2>1, <2>2, <2>3, Zenon
<1>5. /\ amount' \in [Ids -> Int] /\ amount'[id] = amount[id] + A!Operation(t)[2]
      /\ \A n \in Ids \ {id} : amount'[n] = amount[n]
  BY <1>1, <1>3, <1>4, AccountTypesNow, Update, Zenon
<1>6. /\ accountsAt' \in [A!Thread -> AccountPlaces] /\ accountsAt'[t] = "releases"
      /\ \A u \in A!Thread \ {t} : accountsAt'[u] = accountsAt[u]
  <2>1. "releases" \in AccountPlaces
    BY DEF AccountPlaces
  <2> QED BY <1>1, <2>1, AccountsGoto, Zenon
<1>7. AccountTypes'
  BY <1>1, <1>5, <1>6, AccountTypesNow, Zenon DEF AccountTypes, A!Thread
<1>8. HasLock(t)' /\ accountsAt'[t] # "writes"
  BY <1>6 DEF HasLock
<1>9. A!Operation(t)' = A!Operation(t)
  BY <1>1, Zenon DEF A!Operation
<1>10. LockInvOf(t)'
  BY <1>1, <1>3, <1>8, <1>9, Zenon DEF LockInvOf
<1>11. ASSUME NEW u \in A!Thread, u # t PROVE LockInvOf(u)' /\ (HasLock(u)' <=> HasLock(u))
  <2>1. accountsAt[u] = "writes" => amount'[A!Operation(u)[1]] = amount[A!Operation(u)[1]]
    <3>1. SUFFICES ASSUME accountsAt[u] = "writes"
                   PROVE  amount'[A!Operation(u)[1]] = amount[A!Operation(u)[1]]
      OBVIOUS
    <3>2. HasLock(u)
      BY <3>1 DEF HasLock
    <3>3. held[u] = A!Operation(u)[1] /\ A!Operation(u)[1] \in Ids
      BY <3>1, <3>2, Zenon DEF AccountsInv, LockInvOf
    <3>4. held[u] # held[t]
      BY <1>2, <1>11, <3>2, Zenon DEF AccountsInv, LocksApart
    <3> QED BY <1>3, <1>5, <3>3, <3>4, Zenon
  <2> QED BY <1>1, <1>6, <1>11, <2>1, SameLock, Zenon
<1>12. LocksApart'
  <2>1. ASSUME NEW u \in A!Thread, NEW v \in A!Thread, u # v, HasLock(u)', HasLock(v)'
        PROVE  accountsVersion' = "A" /\ held'[u] # held'[v]
    <3>1. HasLock(u) /\ HasLock(v)
      BY <1>2, <1>11, <2>1, Zenon
    <3> QED BY <1>1, <2>1, <3>1, Zenon DEF AccountsInv, LocksApart
  <2> QED BY <2>1, Zenon DEF LocksApart, A!Thread
<1>13. SumsInv'
  <2>1. ASSUME NEW n \in Ids PROVE amount'[n] = SumOf(WrittenTo(n)')
    <3>1. PICK o : o = <<t, finished[t] + 1>>
      BY Zenon
    <3>2. /\ o \notin WrittenTo(n)
          /\ n = id => WrittenTo(n)' = WrittenTo(n) \cup {o}
          /\ n # id => WrittenTo(n)' = WrittenTo(n)
      BY <1>1, <1>3, <1>6, <3>1, WrittenAdds, Zenon
    <3>3. amount[n] = SumOf(WrittenTo(n))
      BY Zenon DEF AccountsInv, SumsInv
    <3>4. CASE n = id
      <4>1. \A x \in WrittenTo(n) \cup {o} : Value(x) \in Int
        <5>1. Value(o) \in Int
          BY <1>3, <3>1, OperationIs, Zenon
        <5>2. ASSUME NEW x \in WrittenTo(n) PROVE Value(x) \in Int
          <6>1. x \in A!Written
            BY Zenon DEF WrittenTo
          <6>2. x \in A!Thread \X (1..MaxOperations) /\ x[2] <= WrittenBy(x[1])
            BY <6>1, WrittenIs, Zenon
          <6>3. PICK u \in A!Thread, m \in 1..MaxOperations : x = <<u, m>>
            BY <6>2
          <6>4. m <= WrittenBy(u) /\ x[1] = u /\ x[2] = m
            BY <6>2, <6>3
          <6>5. WrittenBy(u) \in Nat /\ WrittenBy(u) <= Len(Operations[u])
            BY WrittenFits, Zenon
          <6>6. m \in 1..Len(Operations[u])
            <7>1. MaxOperations \in Nat /\ Len(Operations[u]) \in Nat
              BY OperationsAre, MaxIs, Zenon
            <7> QED BY <6>4, <6>5, <7>1
          <6> QED BY <6>4, <6>6, OperationsAre, Zenon DEF Value
        <5> QED BY <5>1, <5>2
      <4>2. IsFiniteSet(WrittenTo(n))
        BY WrittenFinite, Zenon
      <4>3. SumOf(WrittenTo(n) \cup {o}) = SumOf(WrittenTo(n)) + Value(o)
        BY <3>2, <4>1, <4>2, SumAdds, Zenon
      <4>4. Value(o) = A!Operation(t)[2]
        BY <1>3, <3>1, OperationIs, Zenon
      <4> QED BY <1>5, <3>2, <3>3, <3>4, <4>3, <4>4, Zenon
    <3>5. CASE n # id
      BY <1>5, <3>2, <3>3, <3>5, Zenon
    <3> QED BY <3>4, <3>5
  <2>2. \A n : SumOf(WrittenTo(n))' = SumOf(WrittenTo(n)')
    BY Zenon DEF SumOf, IsSum, Value
  <2> QED BY <2>1, <2>2, Zenon DEF SumsInv
<1>14. ASSUME NEW u \in A!Thread PROVE LockInvOf(u)'
  BY <1>10, <1>11, Zenon
<1> QED BY <1>7, <1>12, <1>13, <1>14, Zenon DEF AccountsInv, A!Thread

\* Nothing is locked and nothing written at the start.
LEMMA AccountsStart == A!Init => AccountsInv
<1> SUFFICES ASSUME A!Init PROVE AccountsInv
  OBVIOUS
<1>1. /\ amount = [n \in Ids |-> 0] /\ held = [t \in A!Thread |-> 0]
      /\ accountRecord = [t \in A!Thread |-> 0] /\ finished = [t \in A!Thread |-> 0]
      /\ accountsAt = [t \in A!Thread |-> "acquires"]
  BY Zenon DEF A!Init
<1>2. AccountTypes
  BY <1>1 DEF AccountTypes, AccountPlaces
<1>3. ASSUME NEW t \in A!Thread
      PROVE  /\ ~HasLock(t) /\ held[t] = 0 /\ finished[t] = 0
             /\ accountsAt[t] # "writes" /\ accountsAt[t] # "releases"
  BY <1>1 DEF HasLock
<1>4. ASSUME NEW t \in A!Thread PROVE LockInvOf(t)
  <2>1. 0 <= Len(Operations[t])
    <3>1. \A k \in Nat : 0 <= k
      OBVIOUS
    <3> QED BY <3>1, OperationsAre, Zenon
  <2> QED BY <1>3, <2>1, Zenon DEF LockInvOf
<1>5. LocksApart
  BY <1>3, Zenon DEF LocksApart
<1>6. SumsInv
  <2>1. ASSUME NEW o PROVE o \notin A!Written
    <3>1. SUFFICES ASSUME o \in A!Written PROVE FALSE
      OBVIOUS
    <3>2. o \in A!Thread \X (1..MaxOperations) /\ o[2] <= WrittenBy(o[1])
      BY <3>1, WrittenIs, Zenon
    <3>3. PICK u \in A!Thread, m \in 1..MaxOperations : o = <<u, m>>
      BY <3>2
    <3>4. o[1] = u /\ o[2] = m
      BY <3>3
    <3>5. WrittenBy(u) = 0 + 0
      BY <1>3, Zenon DEF WrittenBy
    <3>6. MaxOperations \in Nat
      BY MaxIs, Zenon
    <3>7. ASSUME NEW k \in 1..MaxOperations, k <= 0 + 0 PROVE FALSE
      BY <3>6, <3>7
    <3> QED BY <3>2, <3>4, <3>5, <3>7, Zenon
  <2>2. ASSUME NEW n PROVE WrittenTo(n) = {}
    BY <2>1 DEF WrittenTo
  <2>3. ASSUME NEW n \in Ids PROVE amount[n] = SumOf(WrittenTo(n))
    <3>1. amount[n] = 0
      BY <1>1
    <3> QED BY <2>2, <3>1, SumOfNone, Zenon
  <2> QED BY <2>3, Zenon DEF SumsInv
<1> QED BY <1>2, <1>4, <1>5, <1>6, Zenon DEF AccountsInv

\* Every step keeps it.
LEMMA AccountsNext == AccountsInv /\ [A!Next]_(A!vars) => AccountsInv'
<1> SUFFICES ASSUME AccountsInv, [A!Next]_(A!vars) PROVE AccountsInv'
  OBVIOUS
<1>1. CASE UNCHANGED A!vars
  <2>1. /\ accountsVersion' = accountsVersion /\ amount' = amount /\ held' = held
        /\ accountRecord' = accountRecord /\ finished' = finished /\ accountsAt' = accountsAt
    BY <1>1, Zenon DEF A!vars
  <2>2. AccountTypes'
    BY <2>1, AccountTypesNow, Zenon DEF AccountTypes, A!Thread
  <2>3. ASSUME NEW u \in A!Thread PROVE LockInvOf(u)' /\ (HasLock(u)' <=> HasLock(u))
    BY <2>1, SameLock, Zenon
  <2>4. LocksApart'
    BY <2>1, <2>3, Zenon DEF AccountsInv, LocksApart, A!Thread
  <2>5. SumsInv'
    <3>1. ASSUME NEW u \in A!Thread PROVE WrittenBy(u)' = WrittenBy(u)
      BY <2>1, Zenon DEF WrittenBy
    <3> QED BY <2>1, <3>1, SameSums, Zenon
  <2> QED BY <2>2, <2>3, <2>4, <2>5, Zenon DEF AccountsInv, A!Thread
<1>2. CASE A!Next
  <2>1. PICK t \in A!Thread : A!Step(t)
    BY <1>2, Zenon DEF A!Next
  <2> QED BY <2>1, AcquiresKeep, ReleasesKeep, ReadsKeep, WritesKeep, Zenon DEF A!Step
<1> QED BY <1>1, <1>2

\* lab11es01, in all four versions, for any operations of any number of threads:
\* an account is always the sum of the operations on it that were written, so no
\* update of it is lost.
THEOREM NoUpdateIsLost == A!Spec => []A!NoLostUpdate
<1>1. AccountsInv => A!NoLostUpdate
  BY SumsAre, Zenon DEF AccountsInv
<1> QED BY <1>1, AccountsStart, AccountsNext, PTL DEF A!Spec

\* The behaviours of the labs are behaviours of lab11es01.
LEMMA LabHasAccounts == LabSpec => A!Spec
<1>1. LabInit => A!Init
  BY Zenon DEF LabInit
<1>2. [LabNext]_labVars => [A!Next]_(A!vars)
  <2>1. UNCHANGED accounts => UNCHANGED A!vars
    BY Zenon DEF accounts, A!vars
  <2>2. ASSUME LabNext PROVE [A!Next]_(A!vars)
    <3>1. CASE lab = "accounts"
      BY <2>2, <3>1, SMTT(10) DEF LabNext
    <3>2. CASE lab # "accounts"
      BY <2>1, <2>2, <3>2, Zenon DEF LabNext
    <3> QED BY <3>1, <3>2
  <2>3. UNCHANGED labVars => UNCHANGED accounts
    BY Zenon DEF labVars
  <2> QED BY <2>1, <2>2, <2>3
<1> QED BY <1>1, <1>2, PTL DEF LabSpec, A!Spec

-----------------------------------------------------------------------------
(* lab13es01: the processing threads, their output files and the collector. *)

CollectorPlaces == {"reads", "waits", "opens", "writes", "signals", "left", "ends"}

CollectorTypes ==
  /\ Len(records) \in Nat /\ next \in 1..Len(records) + 1
  /\ record \in [K!Thread -> Nat] /\ pat \in [K!Thread -> CollectorPlaces]
  /\ offset \in [K!Thread -> Nat]
  /\ mutex \in [K!Output -> Nat] /\ rows \in [K!Output -> Seq(Nat)]
  /\ sem \in [K!Handle -> Nat] /\ nTerminated \in Nat
  /\ rowsReady \in [K!Output -> 0..Interval - 1] /\ printed \in [K!Output -> Nat]
  /\ cat \in {"waits", "wait failed", "ends"}

\* A thread has a record that it has not written; and the records in an output file.
InHand(t) == pat[t] \in {"waits", "opens", "writes", "left"}
IsRow(o, k) == \E j \in 1..Len(rows[o]) : rows[o][j] = k

\* A thread has a record of its own that was read, the mutex of its output
\* file while it works there, and writes at the end of it.
HandInv(t) ==
  /\ InHand(t) \/ pat[t] = "signals" => record[t] \in 1..next - 1
  /\ pat[t] \in {"opens", "writes"} => mutex[K!OutputOf(record[t])] = t
  /\ pat[t] = "writes" => offset[t] = Len(rows[K!OutputOf(record[t])])
  /\ InHand(t) => ~IsRow(K!OutputOf(record[t]), record[t])
  /\ pat[t] = "ends" => next > Len(records)

\* The threads that have written a row and not told the collector of it.
Signalling(o) == {t \in K!Thread : pat[t] = "signals" /\ K!OutputOf(record[t]) = o}

\* The rows of an output file are records of its own, once; the collector has
\* printed them or was told of them, or a thread is about to tell it.
RowInv(o) ==
  /\ \A j \in 1..Len(rows[o]) : rows[o][j] \in 1..next - 1 /\ K!OutputOf(rows[o][j]) = o
  /\ \A j, k \in 1..Len(rows[o]) : rows[o][j] = rows[o][k] => j = k
  /\ cat # "ends" =>
       sem[o] + rowsReady[o] + printed[o] + Cardinality(Signalling(o)) = Len(rows[o])
  /\ cat = "ends" => printed[o] = Len(rows[o])

\* A record that was read is a row or in the hands of a thread.
NoneLost ==
  \A k \in 1..next - 1 :
    IsRow(K!OutputOf(k), k) \/ \E t \in K!Thread : InHand(t) /\ record[t] = k

\* No two threads have the same record.
OneEach == \A t, u \in K!Thread : InHand(t) /\ InHand(u) /\ record[t] = record[u] => t = u

\* The threads that have come to the end, counted.
AtEnd == {t \in K!Thread : pat[t] = "ends"}
EndsCount ==
  /\ sem[K!Termination] + nTerminated = Cardinality(AtEnd)
  /\ cat = "ends" => nTerminated = nProcessing

CollectorInv ==
  /\ CollectorTypes /\ NoneLost /\ OneEach /\ EndsCount
  /\ \A t \in K!Thread : HandInv(t)
  /\ \A o \in K!Output : RowInv(o)

\* What is known of the constants.
LEMMA CollectorConstants ==
  /\ nProcessing \in Nat /\ nProcessing > 0 /\ Interval \in Nat /\ Interval > 0
  /\ IsFiniteSet(K!Thread) /\ Cardinality(K!Thread) = nProcessing
  /\ K!NoThread = 0 /\ \A t \in K!Thread : t \in Nat /\ t # 0
  /\ \A S : K!Cardinality(S) = Cardinality(S)
<1>1. nProcessing \in Nat \ {0} /\ Interval \in Nat \ {0}
  BY LabAssumption, Zenon DEF LabAssumption, K!CollectorAssumption
<1>2. IsFiniteSet(1..nProcessing) /\ Cardinality(1..nProcessing) = nProcessing
  <2>1. 1 \in Int /\ nProcessing \in Int /\ ~(1 > nProcessing) /\ nProcessing - 1 + 1 = nProcessing
    BY <1>1
  <2> QED BY <2>1, FS_Interval, Zenon
<1>3. K!Thread = 1..nProcessing /\ K!NoThread = 0
  BY DEF K!Thread, K!NoThread
<1>4. \A S : K!Cardinality(S) = Cardinality(S)
  BY Zenon DEF K!Cardinality, Cardinality, K!IsFiniteSet, IsFiniteSet
<1> QED BY <1>1, <1>2, <1>3, <1>4

\* An output file goes by one of the records up to the one that names it.
LEMMA OutputIs ==
  ASSUME Len(records) \in Nat
  PROVE  /\ \A k \in 1..Len(records) : K!OutputOf(k) \in K!Output
         /\ K!Output \subseteq 1..Len(records)
         /\ K!Termination \notin K!Output /\ K!Termination \in K!Handle
         /\ K!Output \subseteq K!Handle
<1>1. ASSUME NEW k \in 1..Len(records) PROVE K!OutputOf(k) \in 1..k
  <2> DEFINE S == {o \in 1..k : records[o] = records[k]}
             P(o) == /\ records[o] = records[k]
                     /\ \A j \in 1..o - 1 : records[j] # records[k]
  <2>1. k \in Nat /\ k >= 1
    OBVIOUS
  <2>2. S \in SUBSET Int /\ IsFiniteSet(S) /\ S # {}
    <3>1. IsFiniteSet(1..k) /\ S \in SUBSET (1..k)
      BY <2>1, FS_Interval
    <3>2. k \in S
      BY <2>1
    <3> HIDE DEF S
    <3>3. IsFiniteSet(S)
      BY <3>1, FS_Subset, Zenon
    <3>4. 1..k \subseteq Int
      OBVIOUS
    <3> QED BY <3>1, <3>2, <3>3, <3>4
  <2>3. PICK x \in S : \A y \in S : x <= y
    <3> HIDE DEF S
    <3> QED BY <2>2, LeastExists, Zenon
  <2>4. x \in 1..k /\ P(x)
    <3>1. ASSUME NEW j \in 1..x - 1, records[j] = records[k] PROVE FALSE
      <4>1. x \in 1..k
        OBVIOUS
      <4>2. j \in 1..k /\ j < x
        BY <2>1, <4>1
      <4>3. j \in S
        BY <3>1, <4>2
      <4>4. x <= j
        BY <2>3, <4>3, Zenon
      <4> QED BY <4>1, <4>2, <4>4
    <3> QED BY <3>1
  <2>5. K!OutputOf(k) = CHOOSE o \in 1..k : P(o)
    BY Zenon DEF K!OutputOf
  <2> HIDE DEF P, S
  <2> QED BY <2>4, <2>5, Zenon
<1>2. K!Output \subseteq 1..Len(records)
  <2>1. ASSUME NEW k \in 1..Len(records) PROVE K!OutputOf(k) \in 1..Len(records)
    BY <1>1
  <2> QED BY <2>1, Zenon DEF K!Output
<1>3. \A k \in 1..Len(records) : K!OutputOf(k) \in K!Output
  BY Zenon DEF K!Output
<1>4. Len(records) + 1 \notin 1..Len(records)
  OBVIOUS
<1> QED BY <1>2, <1>3, <1>4, Zenon DEF K!Handle, K!Termination

\* The file of records does not change.
LEMMA SameFile ==
  ASSUME records' = records
  PROVE  /\ K!Output' = K!Output /\ K!Handle' = K!Handle /\ K!Termination' = K!Termination
         /\ \A k : K!OutputOf(k)' = K!OutputOf(k)
<1>1. \A k : K!OutputOf(k)' = K!OutputOf(k)
  BY Zenon DEF K!OutputOf
<1>2. K!Termination' = K!Termination
  BY Zenon DEF K!Termination
<1>4. K!Output' = K!Output
  <2>1. \A x : x \in K!Output' <=> \E k \in 1..Len(records)' : x = K!OutputOf(k)'
    BY Zenon DEF K!Output
  <2>2. \A x : x \in K!Output <=> \E k \in 1..Len(records) : x = K!OutputOf(k)
    BY Zenon DEF K!Output
  <2>3. \A x : x \in K!Output' <=> x \in K!Output
    BY <1>1, <2>1, <2>2, Zenon
  <2> QED BY <2>3
<1>3. K!Handle' = K!Handle
  BY <1>2, <1>4, Zenon DEF K!Handle
<1> QED BY <1>1, <1>2, <1>3, <1>4

\* The output file of a thread after a step, and the threads that are to signal.
LEMMA OutputNext ==
  ASSUME records' = records
  PROVE  /\ \A t : K!OutputOf(record[t])' = K!OutputOf(record'[t])
         /\ \A o, j : K!OutputOf(rows[o][j])' = K!OutputOf(rows'[o][j])
         /\ \A o : Signalling(o)' =
              {t \in K!Thread : pat'[t] = "signals" /\ K!OutputOf(record'[t]) = o}
         /\ AtEnd' = {t \in K!Thread : pat'[t] = "ends"}
<1>1. \A t : K!OutputOf(record[t])' = K!OutputOf(record'[t])
  BY Zenon DEF K!OutputOf
<1>2. \A o, j : K!OutputOf(rows[o][j])' = K!OutputOf(rows'[o][j])
  BY Zenon DEF K!OutputOf
<1>3. \A o : Signalling(o)' =
        {t \in K!Thread : pat'[t] = "signals" /\ K!OutputOf(record'[t]) = o}
  BY <1>1, Zenon DEF Signalling, K!Thread
<1>4. AtEnd' = {t \in K!Thread : pat'[t] = "ends"}
  BY Zenon DEF AtEnd, K!Thread
<1> QED BY <1>1, <1>2, <1>3, <1>4

\* Where a thread is and what it has in its hands.
LEMMA HandIs ==
  ASSUME CollectorInv, NEW t \in K!Thread
  PROVE  /\ pat[t] \in CollectorPlaces /\ record[t] \in Nat
         /\ InHand(t) \/ pat[t] = "signals" =>
              /\ record[t] \in 1..next - 1 /\ record[t] \in 1..Len(records)
              /\ K!OutputOf(record[t]) \in K!Output
<1>1. /\ Len(records) \in Nat /\ next \in 1..Len(records) + 1
      /\ pat[t] \in CollectorPlaces /\ record[t] \in Nat
  BY DEF CollectorInv, CollectorTypes
<1>2. InHand(t) \/ pat[t] = "signals" => record[t] \in 1..next - 1
  BY Zenon DEF CollectorInv, HandInv
<1>3. \A k \in 1..next - 1 : k \in 1..Len(records)
  BY <1>1
<1> QED BY <1>1, <1>2, <1>3, OutputIs, Zenon

\* The pointer of the records moves on by one at most.
LEMMA NextMoves ==
  ASSUME CollectorInv, next' = next \/ next' = next + 1
  PROVE  /\ \A k \in 1..next - 1 : k \in 1..next' - 1
         /\ next > Len(records) => next' > Len(records)
<1>1. Len(records) \in Nat /\ next \in 1..Len(records) + 1
  BY Zenon DEF CollectorInv, CollectorTypes
<1>2. ASSUME NEW n \in Nat, NEW x \in 1..n + 1, NEW y \in Int, y = x \/ y = x + 1
      PROVE  (\A k \in 1..x - 1 : k \in 1..y - 1) /\ (x > n => y > n)
  BY <1>2
<1>3. \A n \in Nat : \A x \in 1..n + 1 : x \in Int /\ x + 1 \in Int
  OBVIOUS
<1> QED BY <1>1, <1>2, <1>3, Zenon

\* A thread that a step leaves alone keeps its invariant.
LEMMA SameHand ==
  ASSUME CollectorInv, records' = records, NEW u \in K!Thread, pat'[u] = pat[u],
         record'[u] = record[u], offset'[u] = offset[u],
         next' = next \/ next' = next + 1,
         pat[u] \in {"opens", "writes"} =>
           mutex'[K!OutputOf(record[u])] = mutex[K!OutputOf(record[u])],
         pat[u] = "writes" => rows'[K!OutputOf(record[u])] = rows[K!OutputOf(record[u])],
         InHand(u) => \A j \in 1..Len(rows'[K!OutputOf(record[u])]) :
           rows'[K!OutputOf(record[u])][j] # record[u]
  PROVE  HandInv(u)'
<1> DEFINE o == K!OutputOf(record[u])
<1>1. HandInv(u)
  BY Zenon DEF CollectorInv
<1>2. K!OutputOf(record[u])' = o
  BY OutputNext, Zenon
<1>3. InHand(u)' <=> InHand(u)
  BY Zenon DEF InHand
<1>4. /\ InHand(u) \/ pat[u] = "signals" => record'[u] \in 1..next' - 1
      /\ pat[u] = "ends" => next' > Len(records')
  BY <1>1, NextMoves, Zenon DEF HandInv
<1>5. /\ pat'[u] \in {"opens", "writes"} => mutex'[o] = u
      /\ pat'[u] = "writes" => offset'[u] = Len(rows'[o])
  BY <1>1, Zenon DEF HandInv
<1>6. InHand(u) => ~IsRow(K!OutputOf(record[u]), record[u])'
  BY <1>2, Zenon DEF IsRow
<1> HIDE DEF o
<1> QED BY <1>2, <1>3, <1>4, <1>5, <1>6, Zenon DEF HandInv

\* An output file that a step leaves alone keeps its invariant.
LEMMA SameRows ==
  ASSUME CollectorInv, records' = records, NEW o \in K!Output, rows'[o] = rows[o],
         next' = next \/ next' = next + 1, cat' = cat,
         cat = "ends" => printed'[o] = printed[o],
         sem'[o] + rowsReady'[o] + printed'[o] + Cardinality(Signalling(o)') =
           sem[o] + rowsReady[o] + printed[o] + Cardinality(Signalling(o))
  PROVE  RowInv(o)'
<1>1. RowInv(o)
  BY Zenon DEF CollectorInv
<1>2. \A j \in 1..Len(rows'[o]) : rows'[o][j] \in 1..next' - 1 /\ K!OutputOf(rows'[o][j]) = o
  BY <1>1, NextMoves, Zenon DEF RowInv
<1>3. \A j : K!OutputOf(rows[o][j])' = K!OutputOf(rows'[o][j])
  BY OutputNext, Zenon
<1> QED BY <1>1, <1>2, <1>3, Zenon DEF RowInv

\* Nothing becomes of the records when they and those who hold them stay.
LEMMA SameHolders ==
  ASSUME CollectorInv, records' = records, record' = record, next' = next, rows' = rows,
         \A t \in K!Thread : InHand(t)' <=> InHand(t)
  PROVE  NoneLost' /\ OneEach'
<1>1. NoneLost /\ OneEach
  BY Zenon DEF CollectorInv
<1>2. \A k : K!OutputOf(k)' = K!OutputOf(k)
  BY SameFile, Zenon
<1>3. \A o, k : IsRow(o, k)' <=> IsRow(o, k)
  BY Zenon DEF IsRow
<1>4. K!Thread' = K!Thread
  BY Zenon DEF K!Thread
<1>5. NoneLost'
  <2>1. SUFFICES ASSUME NEW k \in 1..next - 1
                 PROVE  \/ IsRow(K!OutputOf(k), k)'
                        \/ \E t \in K!Thread : InHand(t)' /\ record'[t] = k
    BY <1>4, Zenon DEF NoneLost
  <2>2. IsRow(K!OutputOf(k), k) \/ \E t \in K!Thread : InHand(t) /\ record[t] = k
    BY <1>1, Zenon DEF NoneLost
  <2>3. IsRow(K!OutputOf(k), k) => IsRow(K!OutputOf(k), k)'
    BY <1>2, Zenon DEF IsRow
  <2> QED BY <2>2, <2>3, Zenon
<1>6. OneEach'
  BY <1>1, <1>4, Zenon DEF OneEach
<1> QED BY <1>5, <1>6

\* The threads that are to signal and those at the end, when none comes or goes.
LEMMA SameCounts ==
  ASSUME records' = records,
         \A t \in K!Thread : /\ pat'[t] = "signals" <=> pat[t] = "signals"
                             /\ pat'[t] = "ends" <=> pat[t] = "ends"
                             /\ pat[t] = "signals" => record'[t] = record[t]
  PROVE  AtEnd' = AtEnd /\ \A o : Signalling(o)' = Signalling(o)
<1>1. \A o : Signalling(o)' = {t \in K!Thread : pat'[t] = "signals" /\ K!OutputOf(record'[t]) = o}
  BY OutputNext, Zenon
<1>2. AtEnd' = {t \in K!Thread : pat'[t] = "ends"}
  BY OutputNext, Zenon
<1>3. \A o, t : t \in Signalling(o)' <=> t \in Signalling(o)
  BY <1>1, Zenon DEF Signalling
<1>4. \A t : t \in AtEnd' <=> t \in AtEnd
  BY <1>2, Zenon DEF AtEnd
<1> QED BY <1>3, <1>4

\* The count of the threads at the end, when nothing of it changes.
LEMMA SameEnds ==
  ASSUME CollectorInv, records' = records, AtEnd' = AtEnd, nTerminated' = nTerminated,
         sem'[K!Termination] = sem[K!Termination], cat' = cat
  PROVE  EndsCount'
<1>1. EndsCount
  BY Zenon DEF CollectorInv
<1>2. K!Termination' = K!Termination
  BY SameFile, Zenon
<1>3. Cardinality(AtEnd)' = Cardinality(AtEnd)
  BY Zenon
<1> QED BY <1>1, <1>2, <1>3, Zenon DEF EndsCount

\* A step of a thread that the collector does not see.
LEMMA SilentKeeps ==
  ASSUME CollectorInv, CollectorTypes', records' = records, NEW t \in K!Thread,
         next' = next \/ next' = next + 1,
         rows' = rows, sem' = sem, UNCHANGED K!collector,
         \A u \in K!Thread \ {t} : /\ pat'[u] = pat[u] /\ record'[u] = record[u]
                                   /\ offset'[u] = offset[u],
         pat[t] \notin {"signals", "ends"}, pat'[t] \notin {"signals", "ends"},
         \A u \in K!Thread \ {t} : pat[u] \in {"opens", "writes"} =>
           mutex'[K!OutputOf(record[u])] = mutex[K!OutputOf(record[u])],
         HandInv(t)', NoneLost', OneEach'
  PROVE  CollectorInv'
<1>1. AtEnd' = AtEnd /\ \A o : Signalling(o)' = Signalling(o)
  <2>1. \A u \in K!Thread : /\ pat'[u] = "signals" <=> pat[u] = "signals"
                            /\ pat'[u] = "ends" <=> pat[u] = "ends"
                            /\ pat[u] = "signals" => record'[u] = record[u]
    <3>1. ASSUME NEW u \in K!Thread
          PROVE  /\ pat'[u] = "signals" <=> pat[u] = "signals"
                 /\ pat'[u] = "ends" <=> pat[u] = "ends"
                 /\ pat[u] = "signals" => record'[u] = record[u]
      <4>1. CASE u = t
        BY <4>1, Zenon
      <4>2. CASE u # t
        BY <4>2, Zenon
      <4> QED BY <4>1, <4>2
    <3> QED BY <3>1
  <2> QED BY <2>1, SameCounts, Zenon
<1>2. cat' = cat /\ nTerminated' = nTerminated /\ rowsReady' = rowsReady /\ printed' = printed
  BY Zenon DEF K!collector
<1>3. EndsCount'
  BY <1>1, <1>2, SameEnds, Zenon
<1>4. ASSUME NEW o \in K!Output PROVE RowInv(o)'
  <2>1. Cardinality(Signalling(o))' = Cardinality(Signalling(o))
    BY <1>1, Zenon
  <2> QED BY <1>2, <2>1, SameRows, Zenon
<1>5. ASSUME NEW u \in K!Thread \ {t} PROVE HandInv(u)'
  <2>1. InHand(u) => \A j \in 1..Len(rows[K!OutputOf(record[u])]) :
                       rows[K!OutputOf(record[u])][j] # record[u]
    BY Zenon DEF CollectorInv, HandInv, IsRow
  <2> QED BY <2>1, SameHand, Zenon
<1>6. K!Thread' = K!Thread /\ K!Output' = K!Output
  BY SameFile, Zenon DEF K!Thread
<1>7. \A u \in K!Thread : HandInv(u)'
  <2>1. ASSUME NEW u \in K!Thread PROVE HandInv(u)'
    <3>1. CASE u = t
      BY <3>1, Zenon
    <3>2. CASE u # t
      BY <1>5, <3>2
    <3> QED BY <3>1, <3>2
  <2> QED BY <2>1
<1> QED BY <1>3, <1>4, <1>6, <1>7, Zenon DEF CollectorInv

\* Threads that work on their output files work on different ones.
LEMMA OthersFile ==
  ASSUME CollectorInv, NEW t \in K!Thread, NEW u \in K!Thread, u # t,
         pat[u] \in {"opens", "writes"}, mutex[K!OutputOf(record[t])] \in {t, K!NoThread}
  PROVE  K!OutputOf(record[u]) # K!OutputOf(record[t])
<1>1. mutex[K!OutputOf(record[u])] = u
  BY Zenon DEF CollectorInv, HandInv
<1>2. u # K!NoThread
  BY CollectorConstants, Zenon
<1> QED BY <1>1, <1>2, Zenon

\* The types after a step that leaves the file of records alone.
LEMMA TypesNext ==
  ASSUME CollectorInv, records' = records, next' \in 1..Len(records) + 1,
         record' \in [K!Thread -> Nat], pat' \in [K!Thread -> CollectorPlaces],
         offset' \in [K!Thread -> Nat], mutex' \in [K!Output -> Nat],
         rows' \in [K!Output -> Seq(Nat)], sem' \in [K!Handle -> Nat], nTerminated' \in Nat,
         rowsReady' \in [K!Output -> 0..Interval - 1], printed' \in [K!Output -> Nat],
         cat' \in {"waits", "wait failed", "ends"}
  PROVE  CollectorTypes'
<1>1. Len(records) \in Nat
  BY Zenon DEF CollectorInv, CollectorTypes
<1>2. K!Thread' = K!Thread /\ K!Output' = K!Output /\ K!Handle' = K!Handle
  BY SameFile, Zenon DEF K!Thread
<1> QED BY <1>1, <1>2, Zenon DEF CollectorTypes

\* The types themselves, one by one.
LEMMA TypesNow ==
  ASSUME CollectorInv
  PROVE  /\ Len(records) \in Nat /\ next \in 1..Len(records) + 1
         /\ record \in [K!Thread -> Nat] /\ pat \in [K!Thread -> CollectorPlaces]
         /\ offset \in [K!Thread -> Nat]
         /\ mutex \in [K!Output -> Nat] /\ rows \in [K!Output -> Seq(Nat)]
         /\ sem \in [K!Handle -> Nat] /\ nTerminated \in Nat
         /\ rowsReady \in [K!Output -> 0..Interval - 1] /\ printed \in [K!Output -> Nat]
         /\ cat \in {"waits", "wait failed", "ends"}
BY Zenon DEF CollectorInv, CollectorTypes

\* Where a thread goes.
LEMMA PatNext ==
  ASSUME CollectorInv, NEW t \in K!Thread, NEW l \in CollectorPlaces, K!Goto(t, l)
  PROVE  /\ pat' \in [K!Thread -> CollectorPlaces] /\ pat'[t] = l
         /\ \A u \in K!Thread \ {t} : pat'[u] = pat[u]
<1>1. pat' = [pat EXCEPT ![t] = l]
  BY Zenon DEF K!Goto
<1>2. pat \in [K!Thread -> CollectorPlaces]
  BY TypesNow, Zenon
<1> QED BY <1>1, <1>2, Update, Zenon

\* A record that is read is new to everybody.
LEMMA ReadRecordKeeps ==
  ASSUME CollectorInv, NEW t \in K!Thread, K!ReadRecord(t)
  PROVE  CollectorInv'
<1>1. /\ pat[t] = "reads" /\ next <= Len(records) /\ K!Goto(t, "waits") /\ next' = next + 1
      /\ record' = [record EXCEPT ![t] = next]
      /\ records' = records /\ mutex' = mutex /\ rows' = rows /\ sem' = sem /\ offset' = offset
      /\ UNCHANGED K!collector
  BY Zenon DEF K!ReadRecord
<1>2. /\ cat' = cat /\ nTerminated' = nTerminated /\ rowsReady' = rowsReady /\ printed' = printed
  BY <1>1, Zenon DEF K!collector
<1>3. /\ next \in Nat /\ next' \in 1..Len(records) + 1 /\ next \in 1..next' - 1
      /\ next \notin 1..next - 1 /\ \A k \in 1..next' - 1 : k = next \/ k \in 1..next - 1
  <2>1. Len(records) \in Nat /\ next \in 1..Len(records) + 1
    BY TypesNow, Zenon
  <2>2. ASSUME NEW n \in Nat, NEW x \in 1..n + 1, x <= n
        PROVE  /\ x \in Nat /\ x + 1 \in 1..n + 1 /\ x \in 1..(x + 1) - 1 /\ x \notin 1..x - 1
               /\ \A k \in 1..(x + 1) - 1 : k = x \/ k \in 1..x - 1
    BY <2>2
  <2> QED BY <1>1, <2>1, <2>2, Zenon
<1>4. /\ record' \in [K!Thread -> Nat] /\ record'[t] = next
      /\ \A u \in K!Thread \ {t} : record'[u] = record[u]
  <2>1. record \in [K!Thread -> Nat]
    BY TypesNow, Zenon
  <2> QED BY <1>1, <1>3, <2>1, Update, Zenon
<1>5. /\ pat' \in [K!Thread -> CollectorPlaces] /\ pat'[t] = "waits"
      /\ \A u \in K!Thread \ {t} : pat'[u] = pat[u]
  <2>1. "waits" \in CollectorPlaces
    BY DEF CollectorPlaces
  <2> QED BY <1>1, <2>1, PatNext, Zenon
<1>6. CollectorTypes'
  BY <1>1, <1>2, <1>3, <1>4, <1>5, TypesNow, TypesNext, Zenon
<1>7. K!OutputOf(record[t])' = K!OutputOf(next)
  BY <1>1, <1>4, OutputNext, Zenon
<1>8. K!OutputOf(next) \in K!Output
  <2>1. next \in 1..Len(records)
    <3>1. Len(records) \in Nat
      BY TypesNow, Zenon
    <3>2. next \in 1..Len(records) + 1
      BY TypesNow, Zenon
    <3>3. ASSUME NEW n \in Nat, NEW x \in 1..n + 1, x <= n PROVE x \in 1..n
      BY <3>3
    <3> QED BY <1>1, <3>1, <3>2, <3>3, Zenon
  <2>2. Len(records) \in Nat
    BY TypesNow, Zenon
  <2> QED BY <2>1, <2>2, OutputIs, Zenon
<1>9. \A j \in 1..Len(rows[K!OutputOf(next)]) : rows[K!OutputOf(next)][j] # next
  <2>1. RowInv(K!OutputOf(next))
    BY <1>8, Zenon DEF CollectorInv
  <2> QED BY <1>3, <2>1, Zenon DEF RowInv
<1>10. HandInv(t)'
  <2>1. ~IsRow(K!OutputOf(record[t]), record[t])'
    BY <1>1, <1>4, <1>7, <1>9, Zenon DEF IsRow
  <2>2. pat'[t] \notin {"opens", "writes", "ends"}
    BY <1>5
  <2> QED BY <1>3, <1>4, <2>1, <2>2, Zenon DEF HandInv
<1>11. K!Thread' = K!Thread
  BY Zenon DEF K!Thread
<1>12. InHand(t)' /\ ~InHand(t) /\ \A u \in K!Thread \ {t} : InHand(u)' <=> InHand(u)
  <2>1. InHand(t)' /\ ~InHand(t)
    BY <1>1, <1>5 DEF InHand
  <2> QED BY <1>5, <2>1, Zenon DEF InHand
<1>13. NoneLost'
  <2>1. ASSUME NEW k \in 1..next' - 1
        PROVE  IsRow(K!OutputOf(k), k)' \/ \E u \in K!Thread : InHand(u)' /\ record'[u] = k
    <3>1. CASE k = next
      BY <1>4, <1>12, <3>1, Zenon
    <3>2. CASE k \in 1..next - 1
      <4>1. IsRow(K!OutputOf(k), k) \/ \E u \in K!Thread : InHand(u) /\ record[u] = k
        BY <3>2, Zenon DEF CollectorInv, NoneLost
      <4>2. CASE IsRow(K!OutputOf(k), k)
        <5>1. K!OutputOf(k)' = K!OutputOf(k)
          BY <1>1, SameFile, Zenon
        <5> QED BY <1>1, <4>2, <5>1, Zenon DEF IsRow
      <4>3. ASSUME NEW u \in K!Thread, InHand(u), record[u] = k
            PROVE  InHand(u)' /\ record'[u] = k
        <5>1. u # t
          BY <1>12, <4>3, Zenon
        <5> QED BY <1>4, <1>12, <4>3, <5>1
      <4> QED BY <4>1, <4>2, <4>3, Zenon
    <3> QED BY <1>3, <2>1, <3>1, <3>2, Zenon
  <2> QED BY <1>11, <2>1, Zenon DEF NoneLost
<1>14. OneEach'
  <2>1. ASSUME NEW u \in K!Thread, u # t, InHand(u)' PROVE record'[u] # next
    <3>1. InHand(u) /\ record'[u] = record[u]
      BY <1>4, <1>12, <2>1, Zenon
    <3> QED BY <1>3, <3>1, HandIs, Zenon
  <2>2. ASSUME NEW u \in K!Thread, NEW v \in K!Thread, InHand(u)', InHand(v)', record'[u] = record'[v]
        PROVE  u = v
    <3>1. CASE u = t \/ v = t
      BY <1>4, <2>1, <2>2, <3>1, Zenon
    <3>2. CASE u # t /\ v # t
      <4>1. InHand(u) /\ InHand(v) /\ record[u] = record[v]
        BY <1>4, <1>12, <2>2, <3>2, Zenon
      <4> QED BY <4>1, Zenon DEF CollectorInv, OneEach
    <3> QED BY <3>1, <3>2
  <2> QED BY <1>11, <2>2, Zenon DEF OneEach
<1>15. pat[t] \notin {"signals", "ends"} /\ pat'[t] \notin {"signals", "ends"}
  BY <1>1, <1>5
<1> QED BY <1>1, <1>4, <1>5, <1>6, <1>10, <1>13, <1>14, <1>15, SilentKeeps, Zenon

\* A thread that a step takes elsewhere with what it has in its hands.
LEMMA ThreadMovesKeep ==
  ASSUME CollectorInv, NEW t \in K!Thread, NEW l \in CollectorPlaces, K!Goto(t, l),
         records' = records, next' = next, rows' = rows, sem' = sem, record' = record,
         UNCHANGED K!collector,
         pat[t] \in {"waits", "opens"}, l \in {"opens", "writes", "left"},
         offset' \in [K!Thread -> Nat], \A u \in K!Thread \ {t} : offset'[u] = offset[u],
         mutex[K!OutputOf(record[t])] \in {t, K!NoThread},
         NEW x \in Nat, mutex' = [mutex EXCEPT ![K!OutputOf(record[t])] = x],
         l \in {"opens", "writes"} => x = t,
         l = "writes" => offset'[t] = Len(rows[K!OutputOf(record[t])])
  PROVE  CollectorInv'
<1> DEFINE o == K!OutputOf(record[t])
<1>1. /\ cat' = cat /\ nTerminated' = nTerminated /\ rowsReady' = rowsReady /\ printed' = printed
  BY Zenon DEF K!collector
<1>2. /\ pat' \in [K!Thread -> CollectorPlaces] /\ pat'[t] = l
      /\ \A u \in K!Thread \ {t} : pat'[u] = pat[u]
  BY PatNext, Zenon
<1>3. InHand(t) /\ InHand(t)' /\ pat'[t] \notin {"signals", "ends"} /\ pat[t] \notin {"signals", "ends"}
  BY <1>2 DEF InHand
<1>4. o \in K!Output /\ record[t] \in 1..next - 1
  BY <1>3, HandIs, Zenon
<1>5. /\ mutex' \in [K!Output -> Nat] /\ mutex'[o] = x
      /\ \A p \in K!Output \ {o} : mutex'[p] = mutex[p]
  <2>1. mutex \in [K!Output -> Nat]
    BY TypesNow, Zenon
  <2> QED BY <1>4, <2>1, Update, Zenon
<1>6. CollectorTypes'
  BY <1>1, <1>2, <1>5, TypesNow, TypesNext, Zenon
<1>7. \A u \in K!Thread : InHand(u)' <=> InHand(u)
  <2>1. ASSUME NEW u \in K!Thread PROVE InHand(u)' <=> InHand(u)
    <3>1. CASE u = t
      BY <1>3, <3>1, Zenon
    <3>2. CASE u # t
      BY <1>2, <3>2, Zenon DEF InHand
    <3> QED BY <3>1, <3>2
  <2> QED BY <2>1
<1>8. NoneLost' /\ OneEach'
  BY <1>7, SameHolders, Zenon
<1>9. K!OutputOf(record[t])' = o
  BY OutputNext, Zenon
<1>10. HandInv(t)'
  <2>1. ~IsRow(o, record[t])
    BY <1>3, Zenon DEF CollectorInv, HandInv
  <2>2. ~IsRow(K!OutputOf(record[t]), record[t])'
    BY <1>9, <2>1, Zenon DEF IsRow
  <2>3. pat'[t] = "writes" => offset'[t] = Len(rows'[o])
    BY <1>2, Zenon
  <2>4. pat'[t] \in {"opens", "writes"} => mutex'[o] = t
    BY <1>2, <1>5, Zenon
  <2>5. record'[t] \in 1..next' - 1
    BY <1>4, Zenon
  <2> HIDE DEF o
  <2> QED BY <1>3, <1>9, <2>2, <2>3, <2>4, <2>5, Zenon DEF HandInv
<1>11. ASSUME NEW u \in K!Thread \ {t}, pat[u] \in {"opens", "writes"}
       PROVE  mutex'[K!OutputOf(record[u])] = mutex[K!OutputOf(record[u])]
  <2>1. K!OutputOf(record[u]) # o
    BY <1>11, OthersFile, Zenon
  <2>2. InHand(u)
    BY <1>11 DEF InHand
  <2>3. K!OutputOf(record[u]) \in K!Output
    BY <2>2, HandIs, Zenon
  <2> HIDE DEF o
  <2> QED BY <1>5, <2>1, <2>3, Zenon
<1> QED BY <1>1, <1>2, <1>3, <1>6, <1>8, <1>10, <1>11, SilentKeeps, Zenon

\* The thread that gets the mutex of its output file.
LEMMA AcquireKeeps ==
  ASSUME CollectorInv, NEW t \in K!Thread, K!Acquire(t)
  PROVE  CollectorInv'
<1>1. /\ pat[t] = "waits" /\ mutex[K!OutputOf(record[t])] = K!NoThread /\ K!Goto(t, "opens")
      /\ mutex' = [mutex EXCEPT ![K!OutputOf(record[t])] = t]
      /\ records' = records /\ next' = next /\ rows' = rows /\ sem' = sem /\ record' = record
      /\ offset' = offset /\ UNCHANGED K!collector
  BY Zenon DEF K!Acquire, K!Mine
<1>2. "opens" \in CollectorPlaces /\ "opens" # "writes"
  BY DEF CollectorPlaces
<1>3. t \in Nat /\ offset \in [K!Thread -> Nat]
  BY CollectorConstants, TypesNow, Zenon
<1> QED BY <1>1, <1>2, <1>3, ThreadMovesKeep, Zenon

\* A thread that opens its output file has the mutex of it.
LEMMA HasMutex ==
  ASSUME CollectorInv, NEW t \in K!Thread, pat[t] \in {"opens", "writes"}
  PROVE  /\ mutex[K!OutputOf(record[t])] = t
         /\ pat[t] = "writes" => offset[t] = Len(rows[K!OutputOf(record[t])])
BY Zenon DEF CollectorInv, HandInv

\* The thread that cannot open it leaves with its record in its hands.
LEMMA OpenFailsKeeps ==
  ASSUME CollectorInv, NEW t \in K!Thread, K!OpenFails(t)
  PROVE  CollectorInv'
<1>1. /\ pat[t] = "opens" /\ K!Goto(t, "left")
      /\ mutex' = [mutex EXCEPT ![K!OutputOf(record[t])] = K!NoThread]
      /\ records' = records /\ next' = next /\ rows' = rows /\ sem' = sem /\ record' = record
      /\ offset' = offset /\ UNCHANGED K!collector
  BY Zenon DEF K!OpenFails, K!ReleaseMutex, K!Mine
<1>2. "left" \in CollectorPlaces /\ "left" # "writes" /\ "left" # "opens"
  BY DEF CollectorPlaces
<1>3. K!NoThread \in Nat /\ offset \in [K!Thread -> Nat]
  <2>1. 0 \in Nat
    OBVIOUS
  <2> QED BY <2>1, CollectorConstants, TypesNow, Zenon
<1>4. mutex[K!OutputOf(record[t])] \in {t, K!NoThread}
  BY <1>1, HasMutex, Zenon
<1> QED BY <1>1, <1>2, <1>3, <1>4, ThreadMovesKeep, Zenon

\* It finds the end of the file, and nobody else writes there before it does.
LEMMA SeekKeeps ==
  ASSUME CollectorInv, NEW t \in K!Thread, K!Seek(t)
  PROVE  CollectorInv'
<1> DEFINE o == K!OutputOf(record[t])
<1>1. /\ pat[t] = "opens" /\ K!Goto(t, "writes")
      /\ offset' = [offset EXCEPT ![t] = Len(rows[o])]
      /\ records' = records /\ next' = next /\ rows' = rows /\ sem' = sem /\ record' = record
      /\ mutex' = mutex /\ UNCHANGED K!collector
  BY Zenon DEF K!Seek, K!Mine, K!files
<1>2. "writes" \in CollectorPlaces
  BY DEF CollectorPlaces
<1>3. InHand(t)
  BY <1>1 DEF InHand
<1>4. o \in K!Output
  BY <1>3, HandIs, Zenon
<1>5. Len(rows[o]) \in Nat
  <2>1. rows[o] \in Seq(Nat)
    BY <1>4, TypesNow, Zenon
  <2> HIDE DEF o
  <2> QED BY <2>1
<1>6. /\ offset' \in [K!Thread -> Nat] /\ offset'[t] = Len(rows[o])
      /\ \A u \in K!Thread \ {t} : offset'[u] = offset[u]
  BY <1>1, <1>5, TypesNow, Update, Zenon
<1>7. mutex[o] = t /\ t \in Nat
  BY <1>1, HasMutex, CollectorConstants, Zenon
<1>8. mutex' = [mutex EXCEPT ![o] = t]
  <2>1. mutex \in [K!Output -> Nat]
    BY TypesNow, Zenon
  <2> HIDE DEF o
  <2> QED BY <1>1, <1>4, <1>7, <2>1
<1>9. mutex[o] \in {t, K!NoThread} /\ "writes" # "left"
  BY <1>7
<1> QED BY <1>1, <1>2, <1>6, <1>7, <1>8, <1>9, ThreadMovesKeep, Zenon

\* A thread that comes or goes changes the count of a set of threads by one.
LEMMA CountOfThreads ==
  ASSUME NEW S \in SUBSET K!Thread, NEW t \in K!Thread
  PROVE  /\ IsFiniteSet(S) /\ Cardinality(S) \in Nat
         /\ t \notin S => Cardinality(S \cup {t}) = Cardinality(S) + 1
         /\ t \in S => Cardinality(S \ {t}) = Cardinality(S) - 1
<1>1. IsFiniteSet(S)
  BY CollectorConstants, FS_Subset, Zenon
<1> QED BY <1>1, FS_CardinalityType, FS_AddElement, FS_RemoveElement, Zenon

\* When the collector ends every thread has come to the end.
LEMMA AllEnded ==
  ASSUME CollectorInv, cat = "ends"
  PROVE  \A t \in K!Thread : pat[t] = "ends"
<1>1. sem[K!Termination] + nTerminated = Cardinality(AtEnd) /\ nTerminated = nProcessing
  BY Zenon DEF CollectorInv, EndsCount
<1>2. sem[K!Termination] \in Nat
  BY TypesNow, OutputIs, Zenon
<1>3. AtEnd \subseteq K!Thread
  BY DEF AtEnd
<1>4. IsFiniteSet(AtEnd) /\ Cardinality(AtEnd) \in Nat /\ Cardinality(AtEnd) <= nProcessing
  BY <1>3, CollectorConstants, FS_Subset, FS_CardinalityType, Zenon
<1>5. Cardinality(AtEnd) = nProcessing
  <2>1. ASSUME NEW a \in Nat, NEW c \in Nat, NEW n \in Nat, a + n = c, c <= n PROVE c = n
    BY <2>1
  <2> QED BY <1>1, <1>2, <1>4, <2>1, CollectorConstants, Zenon
<1>6. AtEnd = K!Thread
  BY <1>3, <1>5, CollectorConstants, FS_Subset, Zenon
<1> QED BY <1>6 DEF AtEnd

\* The thread that finds no more records tells the collector at its last handle.
LEMMA EndOfRecordsKeeps ==
  ASSUME CollectorInv, NEW t \in K!Thread, K!EndOfRecords(t)
  PROVE  CollectorInv'
<1>1. /\ pat[t] = "reads" /\ next > Len(records) /\ K!Goto(t, "ends")
      /\ sem' = [sem EXCEPT ![K!Termination] = sem[K!Termination] + 1]
      /\ records' = records /\ next' = next /\ rows' = rows /\ record' = record
      /\ mutex' = mutex /\ offset' = offset
      /\ cat' = cat /\ nTerminated' = nTerminated /\ rowsReady' = rowsReady /\ printed' = printed
  BY Zenon DEF K!EndOfRecords, K!files, K!collector
<1>2. /\ pat' \in [K!Thread -> CollectorPlaces] /\ pat'[t] = "ends"
      /\ \A u \in K!Thread \ {t} : pat'[u] = pat[u]
  <2>1. "ends" \in CollectorPlaces
    BY DEF CollectorPlaces
  <2> QED BY <1>1, <2>1, PatNext, Zenon
<1>3. K!Termination \in K!Handle /\ K!Termination \notin K!Output /\ K!Output \subseteq K!Handle
  BY TypesNow, OutputIs, Zenon
<1>4. sem[K!Termination] \in Nat /\ sem[K!Termination] + 1 \in Nat
  <2>1. sem[K!Termination] \in Nat
    BY <1>3, TypesNow, Zenon
  <2>2. \A n \in Nat : n + 1 \in Nat
    OBVIOUS
  <2> QED BY <2>1, <2>2, Zenon
<1>5. /\ sem' \in [K!Handle -> Nat] /\ sem'[K!Termination] = sem[K!Termination] + 1
      /\ \A o \in K!Output : sem'[o] = sem[o]
  BY <1>1, <1>3, <1>4, TypesNow, Update, Zenon
<1>6. CollectorTypes'
  BY <1>1, <1>2, <1>5, TypesNow, TypesNext, Zenon
<1>7. ~InHand(t) /\ ~InHand(t)' /\ pat[t] \notin {"ends", "signals"} /\ pat'[t] # "signals"
  BY <1>1, <1>2 DEF InHand
<1>8. \A u \in K!Thread : InHand(u)' <=> InHand(u)
  <2>1. ASSUME NEW u \in K!Thread, u # t PROVE InHand(u)' <=> InHand(u)
    BY <1>2, <2>1, Zenon DEF InHand
  <2> QED BY <1>7, <2>1, Zenon
<1>9. NoneLost' /\ OneEach'
  BY <1>1, <1>8, SameHolders, Zenon
<1>10. K!Thread' = K!Thread /\ K!Output' = K!Output /\ K!Termination' = K!Termination
  BY <1>1, SameFile, Zenon DEF K!Thread
<1>11. \A o : Signalling(o)' = Signalling(o)
  <2>1. \A o : Signalling(o)' = {u \in K!Thread : pat'[u] = "signals" /\ K!OutputOf(record'[u]) = o}
    BY <1>1, OutputNext, Zenon
  <2>2. ASSUME NEW o, NEW u PROVE u \in Signalling(o)' <=> u \in Signalling(o)
    <3>1. CASE u = t
      BY <1>1, <1>7, <2>1, <3>1, Zenon DEF Signalling
    <3>2. CASE u # t
      BY <1>1, <1>2, <2>1, <3>2, ZenonT(120) DEF Signalling
    <3> QED BY <3>1, <3>2
  <2> QED BY <2>2
<1>12. AtEnd' = AtEnd \cup {t} /\ t \notin AtEnd /\ AtEnd \in SUBSET K!Thread
  <2>1. AtEnd' = {u \in K!Thread : pat'[u] = "ends"}
    BY <1>1, OutputNext, Zenon
  <2>2. t \notin AtEnd /\ AtEnd \in SUBSET K!Thread
    BY <1>7 DEF AtEnd
  <2>3. ASSUME NEW u PROVE u \in AtEnd' <=> u \in AtEnd \/ u = t
    <3>1. CASE u = t
      BY <1>2, <2>1, <3>1, Zenon
    <3>2. CASE u # t
      BY <1>2, <2>1, <3>2, Zenon DEF AtEnd
    <3> QED BY <3>1, <3>2
  <2> QED BY <2>2, <2>3
<1>13. EndsCount'
  <2>1. sem[K!Termination] + nTerminated = Cardinality(AtEnd) /\ (cat = "ends" => nTerminated = nProcessing)
    BY Zenon DEF CollectorInv, EndsCount
  <2>2. Cardinality(AtEnd') = Cardinality(AtEnd) + 1 /\ Cardinality(AtEnd) \in Nat
    BY <1>12, CountOfThreads, Zenon
  <2>3. Cardinality(AtEnd') = Cardinality(AtEnd)'
    OBVIOUS
  <2>4. ASSUME NEW a \in Nat, NEW n \in Nat, NEW c \in Nat, a + n = c PROVE a + 1 + n = c + 1
    BY <2>4
  <2>5. nTerminated \in Nat
    BY TypesNow, Zenon
  <2>6. (sem[K!Termination] + 1) + nTerminated = Cardinality(AtEnd) + 1
    BY <1>4, <2>1, <2>2, <2>4, <2>5, SMTT(60)
  <2>7. sem'[K!Termination'] = sem[K!Termination] + 1
    BY <1>5, <1>10, Zenon
  <2> QED BY <1>1, <2>1, <2>2, <2>3, <2>6, <2>7, Zenon DEF EndsCount
<1>14. ASSUME NEW o \in K!Output PROVE RowInv(o)'
  <2>1. Cardinality(Signalling(o))' = Cardinality(Signalling(o))
    BY <1>11, Zenon
  <2> QED BY <1>1, <1>5, <2>1, SameRows, Zenon
<1>15. ASSUME NEW u \in K!Thread PROVE HandInv(u)'
  <2>1. CASE u = t
    BY <1>1, <1>2, <1>7, <2>1, Zenon DEF HandInv
  <2>2. CASE u # t
    <3>1. InHand(u) => \A j \in 1..Len(rows[K!OutputOf(record[u])]) :
                         rows[K!OutputOf(record[u])][j] # record[u]
      BY Zenon DEF CollectorInv, HandInv, IsRow
    <3> QED BY <1>1, <1>2, <2>2, <3>1, SameHand, Zenon
  <2> QED BY <2>1, <2>2
<1> QED BY <1>6, <1>9, <1>10, <1>13, <1>14, <1>15, Zenon DEF CollectorInv

\* The thread that tells the collector of its row.
LEMMA SignalKeeps ==
  ASSUME CollectorInv, NEW t \in K!Thread, K!Signal(t)
  PROVE  CollectorInv'
<1> DEFINE o == K!OutputOf(record[t])
<1>1. /\ pat[t] = "signals" /\ K!Goto(t, "reads") /\ sem' = [sem EXCEPT ![o] = sem[o] + 1]
      /\ records' = records /\ next' = next /\ rows' = rows /\ record' = record
      /\ mutex' = mutex /\ offset' = offset
      /\ cat' = cat /\ nTerminated' = nTerminated /\ rowsReady' = rowsReady /\ printed' = printed
  BY Zenon DEF K!Signal, K!Mine, K!files, K!collector
<1>2. /\ pat' \in [K!Thread -> CollectorPlaces] /\ pat'[t] = "reads"
      /\ \A u \in K!Thread \ {t} : pat'[u] = pat[u]
  <2>1. "reads" \in CollectorPlaces
    BY DEF CollectorPlaces
  <2> QED BY <1>1, <2>1, PatNext, Zenon
<1>3. o \in K!Output /\ o \in K!Handle /\ o # K!Termination /\ K!Output \subseteq K!Handle
      /\ K!Termination \in K!Handle
  <2>1. o \in K!Output
    BY <1>1, HandIs, Zenon
  <2> HIDE DEF o
  <2> QED BY <2>1, TypesNow, OutputIs, Zenon
<1>4. sem[o] \in Nat /\ sem[o] + 1 \in Nat
  <2>1. sem[o] \in Nat
    BY <1>3, TypesNow, Zenon
  <2>2. \A n \in Nat : n + 1 \in Nat
    OBVIOUS
  <2> QED BY <2>1, <2>2, Zenon
<1>5. /\ sem' \in [K!Handle -> Nat] /\ sem'[o] = sem[o] + 1
      /\ \A p \in K!Handle \ {o} : sem'[p] = sem[p]
  BY <1>1, <1>3, <1>4, TypesNow, Update, Zenon
<1>6. CollectorTypes'
  BY <1>1, <1>2, <1>5, TypesNow, TypesNext, Zenon
<1>7. ~InHand(t) /\ ~InHand(t)' /\ pat[t] # "ends" /\ pat'[t] \notin {"ends", "signals", "opens", "writes"}
  BY <1>1, <1>2 DEF InHand
<1>8. \A u \in K!Thread : InHand(u)' <=> InHand(u)
  <2>1. ASSUME NEW u \in K!Thread, u # t PROVE InHand(u)' <=> InHand(u)
    BY <1>2, <2>1, Zenon DEF InHand
  <2> QED BY <1>7, <2>1, Zenon
<1>9. NoneLost' /\ OneEach'
  BY <1>1, <1>8, SameHolders, Zenon
<1>10. K!Thread' = K!Thread /\ K!Output' = K!Output
  BY <1>1, SameFile, Zenon DEF K!Thread
<1>11. AtEnd' = AtEnd
  <2>1. AtEnd' = {u \in K!Thread : pat'[u] = "ends"}
    BY <1>1, OutputNext, Zenon
  <2>2. ASSUME NEW u PROVE u \in AtEnd' <=> u \in AtEnd
    <3>1. CASE u = t
      BY <1>1, <1>7, <2>1, <3>1, Zenon DEF AtEnd
    <3>2. CASE u # t
      BY <1>2, <2>1, <3>2, Zenon DEF AtEnd
    <3> QED BY <3>1, <3>2
  <2> QED BY <2>2
<1>12. EndsCount'
  BY <1>1, <1>3, <1>5, <1>11, SameEnds, Zenon
<1>13. /\ \A p : p # o => Signalling(p)' = Signalling(p)
       /\ t \in Signalling(o) /\ Signalling(o) \in SUBSET K!Thread
  <2>1. \A p : Signalling(p)' = {u \in K!Thread : pat'[u] = "signals" /\ K!OutputOf(record'[u]) = p}
    BY <1>1, OutputNext, Zenon
  <2>2. t \in Signalling(o) /\ Signalling(o) \in SUBSET K!Thread
    <3>1. Signalling(o) \in SUBSET K!Thread
      BY DEF Signalling
    <3> QED BY <1>1, <3>1, Zenon DEF Signalling
  <2>3. ASSUME NEW p, NEW u PROVE u \in Signalling(p)' <=> u \in Signalling(p) /\ u # t
    <3>1. CASE u = t
      BY <1>7, <2>1, <3>1, Zenon
    <3>2. CASE u # t
      BY <1>1, <1>2, <2>1, <3>2, SMTT(60) DEF Signalling
    <3> QED BY <3>1, <3>2
  <2>4. ASSUME NEW p, p # o PROVE Signalling(p)' = Signalling(p)
    <3>1. t \notin Signalling(p)
      BY <2>4, Zenon DEF Signalling
    <3>2. \A u : u \in Signalling(p)' <=> u \in Signalling(p)
      BY <2>3, <3>1, Zenon
    <3> QED BY <3>2
  <2> HIDE DEF o
  <2> QED BY <2>2, <2>4, Zenon
<1>14. ASSUME NEW p \in K!Output PROVE RowInv(p)'
  <2> HIDE DEF o
  <2>1. CASE p # o
    <3>1. Cardinality(Signalling(p))' = Cardinality(Signalling(p)) /\ sem'[p] = sem[p]
      BY <1>3, <1>5, <1>13, <2>1, Zenon
    <3> QED BY <1>1, <3>1, SameRows, Zenon
  <2>2. CASE p = o
    <3> DEFINE S == {v \in K!Thread : pat'[v] = "signals" /\ K!OutputOf(record'[v]) = p}
    <3>1. Signalling(p)' = S /\ S = Signalling(p) \ {t}
      <4>1. Signalling(p)' = S
        BY <1>1, OutputNext, Zenon
      <4>2. \A u : u \in S <=> u \in Signalling(p) /\ u # t
        <5>1. ASSUME NEW u PROVE u \in S <=> u \in Signalling(p) /\ u # t
          <6>1. CASE u = t
            BY <1>7, <6>1, Zenon
          <6>2. CASE u # t
            BY <1>1, <1>2, <6>2, Zenon DEF Signalling
          <6> QED BY <6>1, <6>2
        <5> QED BY <5>1
      <4> HIDE DEF S
      <4>3. S = Signalling(p) \ {t}
        BY <4>2
      <4> QED BY <4>1, <4>3
    <3> HIDE DEF S
    <3>2. Cardinality(S) = Cardinality(Signalling(p)) - 1 /\ Cardinality(Signalling(p)) \in Nat
      BY <1>13, <2>2, <3>1, CountOfThreads, Zenon
    <3>3. Cardinality(Signalling(p))' = Cardinality(S)
      BY <3>1, Zenon
    <3>4. sem'[p] = sem[p] + 1 /\ sem[p] \in Nat /\ rowsReady[p] \in 0..Interval - 1 /\ printed[p] \in Nat
      BY <1>4, <1>5, <2>2, TypesNow, Zenon
    <3>7. /\ Cardinality(Signalling(p))' = Cardinality(Signalling(p)) - 1
          /\ rowsReady'[p] = rowsReady[p] /\ printed'[p] = printed[p]
      BY <1>1, <3>2, <3>3, Zenon
    <3>6. sem'[p] + rowsReady'[p] + printed'[p] + Cardinality(Signalling(p))' =
            sem[p] + rowsReady[p] + printed[p] + Cardinality(Signalling(p))
      <4>1. PICK a, b, c, d, a1, d1 :
              /\ a = sem[p] /\ b = rowsReady[p] /\ c = printed[p] /\ d = Cardinality(Signalling(p))
              /\ a1 = sem'[p] /\ d1 = Cardinality(Signalling(p))'
        BY Zenon
      <4>2. /\ a \in Nat /\ b \in 0..Interval - 1 /\ c \in Nat /\ d \in Nat
            /\ a1 = a + 1 /\ d1 = d - 1
        BY <3>2, <3>4, <3>7, <4>1, Zenon
      <4>3. a1 + b + c + d1 = a + b + c + d
        BY <4>2, CollectorConstants
      <4> QED BY <3>7, <4>1, <4>3, Zenon
    <3> QED BY <1>1, <3>6, SameRows, Zenon
  <2> QED BY <2>1, <2>2
<1>15. ASSUME NEW u \in K!Thread PROVE HandInv(u)'
  <2>1. CASE u = t
    BY <1>2, <1>7, <2>1, Zenon DEF HandInv
  <2>2. CASE u # t
    <3>1. InHand(u) => \A j \in 1..Len(rows[K!OutputOf(record[u])]) :
                         rows[K!OutputOf(record[u])][j] # record[u]
      BY Zenon DEF CollectorInv, HandInv, IsRow
    <3> QED BY <1>1, <1>2, <2>2, <3>1, SameHand, Zenon
  <2> QED BY <2>1, <2>2
<1> QED BY <1>6, <1>9, <1>10, <1>12, <1>14, <1>15, Zenon DEF CollectorInv

\* The record of a thread that writes becomes the last row of its output file.
LEMMA WriteRowWrites ==
  ASSUME CollectorInv, NEW t \in K!Thread, K!WriteRow(t)
  PROVE  /\ K!OutputOf(record[t]) \in K!Output /\ cat # "ends"
         /\ rows' \in [K!Output -> Seq(Nat)]
         /\ \A p \in K!Output \ {K!OutputOf(record[t])} : rows'[p] = rows[p]
         /\ LET o == K!OutputOf(record[t])
            IN  /\ Len(rows'[o]) = Len(rows[o]) + 1 /\ rows'[o][Len(rows[o]) + 1] = record[t]
                /\ \A j \in 1..Len(rows[o]) : rows'[o][j] = rows[o][j]
                /\ \A j \in 1..Len(rows'[o]) : j \in 1..Len(rows[o]) \/ j = Len(rows[o]) + 1
                /\ rows[o] \in Seq(Nat)
<1> DEFINE o == K!OutputOf(record[t])
           f == [k \in 1..Len(rows[o]) \cup {offset[t] + 1} |->
                   IF k = offset[t] + 1 THEN record[t] ELSE rows[o][k]]
           g == [k \in 1..Len(rows[o]) \cup {Len(rows[o]) + 1} |->
                   IF k = Len(rows[o]) + 1 THEN record[t] ELSE rows[o][k]]
<1>1. pat[t] = "writes" /\ rows' = [rows EXCEPT ![o] = f]
  BY Zenon DEF K!WriteRow, K!Mine
<1>2. InHand(t)
  BY <1>1 DEF InHand
<1>3. o \in K!Output /\ record[t] \in Nat
  BY <1>2, HandIs, Zenon
<1>4. rows[o] \in Seq(Nat) /\ rows \in [K!Output -> Seq(Nat)]
  <2> HIDE DEF o
  <2> QED BY <1>3, TypesNow, Zenon
<1>5. offset[t] = Len(rows[o])
  BY <1>1, HasMutex, Zenon
<1>6. f = g
  BY <1>5, Zenon
<1>7. cat # "ends"
  <2>1. pat[t] # "ends"
    BY <1>1
  <2> QED BY <2>1, AllEnded, Zenon
<1> HIDE DEF o
<1>8. /\ g \in Seq(Nat) /\ Len(g) = Len(rows[o]) + 1 /\ g[Len(rows[o]) + 1] = record[t]
      /\ \A j \in 1..Len(rows[o]) : g[j] = rows[o][j]
      /\ \A j \in 1..Len(g) : j \in 1..Len(rows[o]) \/ j = Len(rows[o]) + 1
  <2>1. PICK s, x : s = rows[o] /\ x = record[t]
    BY Zenon
  <2>2. s \in Seq(Nat) /\ x \in Nat
    BY <1>3, <1>4, <2>1, Zenon
  <2>3. g = [k \in 1..Len(s) \cup {Len(s) + 1} |-> IF k = Len(s) + 1 THEN x ELSE s[k]]
    BY <2>1, Zenon
  <2> HIDE DEF g
  <2>4. /\ g \in Seq(Nat) /\ Len(g) = Len(s) + 1 /\ g[Len(s) + 1] = x
        /\ \A j \in 1..Len(s) : g[j] = s[j]
        /\ \A j \in 1..Len(g) : j \in 1..Len(s) \/ j = Len(s) + 1
    <3>1. Len(s) \in Nat /\ \A j \in 1..Len(s) : s[j] \in Nat
      BY <2>2
    <3>2. \A n \in Nat : 1..n \cup {n + 1} = 1..n + 1
      OBVIOUS
    <3>3. g = [k \in 1..Len(s) + 1 |-> IF k = Len(s) + 1 THEN x ELSE s[k]]
      BY <2>3, <3>1, <3>2, Zenon
    <3>4. \A k \in 1..Len(s) + 1 : (IF k = Len(s) + 1 THEN x ELSE s[k]) \in Nat
      BY <2>2, <3>1
    <3>5. g \in Seq(Nat) /\ Len(g) = Len(s) + 1
      BY <3>1, <3>3, <3>4
    <3>6. g[Len(s) + 1] = x /\ \A j \in 1..Len(s) : g[j] = s[j]
      BY <3>1, <3>3
    <3>7. \A j \in 1..Len(g) : j \in 1..Len(s) \/ j = Len(s) + 1
      <4>1. \A n \in Nat : \A j \in 1..n + 1 : j \in 1..n \/ j = n + 1
        OBVIOUS
      <4> QED BY <3>1, <3>5, <4>1, Zenon
    <3> QED BY <3>5, <3>6, <3>7
  <2> QED BY <2>1, <2>4, Zenon
<1> HIDE DEF f, g
<1>9. /\ rows' \in [K!Output -> Seq(Nat)] /\ rows'[o] = g
      /\ \A p \in K!Output \ {o} : rows'[p] = rows[p]
  BY <1>1, <1>3, <1>4, <1>6, <1>8, Update, Zenon
<1>10. /\ Len(rows'[o]) = Len(rows[o]) + 1 /\ rows'[o][Len(rows[o]) + 1] = record[t]
       /\ \A j \in 1..Len(rows[o]) : rows'[o][j] = rows[o][j]
       /\ \A j \in 1..Len(rows'[o]) : j \in 1..Len(rows[o]) \/ j = Len(rows[o]) + 1
  BY <1>8, <1>9, Zenon
<1> QED BY <1>3, <1>4, <1>7, <1>9, <1>10, Zenon DEF o

\* What is a row after it: the rows that were, and the record.
LEMMA WriteRowRows ==
  ASSUME CollectorInv, NEW t \in K!Thread, K!WriteRow(t), NEW o \in K!Output, NEW k
  PROVE  IsRow(o, k)' <=> IsRow(o, k) \/ (o = K!OutputOf(record[t]) /\ k = record[t])
<1>1. CASE o # K!OutputOf(record[t])
  <2>1. rows'[o] = rows[o]
    BY <1>1, WriteRowWrites, Zenon
  <2> QED BY <1>1, <2>1, Zenon DEF IsRow
<1>2. CASE o = K!OutputOf(record[t])
  <2>1. /\ Len(rows'[o]) = Len(rows[o]) + 1 /\ rows'[o][Len(rows[o]) + 1] = record[t]
        /\ \A j \in 1..Len(rows[o]) : rows'[o][j] = rows[o][j]
        /\ \A j \in 1..Len(rows'[o]) : j \in 1..Len(rows[o]) \/ j = Len(rows[o]) + 1
        /\ rows[o] \in Seq(Nat)
    BY <1>2, WriteRowWrites, Zenon
  <2>2. Len(rows[o]) \in Nat
    BY <2>1
  <2>3. \A n \in Nat : n + 1 \in 1..n + 1 /\ \A j \in 1..n : j \in 1..n + 1
    OBVIOUS
  <2>4. Len(rows[o]) + 1 \in 1..Len(rows'[o]) /\ \A j \in 1..Len(rows[o]) : j \in 1..Len(rows'[o])
    BY <2>1, <2>2, <2>3, Zenon
  <2>5. (\E j \in 1..Len(rows'[o]) : rows'[o][j] = k) <=> IsRow(o, k) \/ k = record[t]
    BY <2>1, <2>4, Zenon DEF IsRow
  <2> QED BY <1>2, <2>5, Zenon DEF IsRow
<1> QED BY <1>1, <1>2

\* The thread that writes its row and lets go of the file.
LEMMA WriteRowKeeps ==
  ASSUME CollectorInv, NEW t \in K!Thread, K!WriteRow(t)
  PROVE  CollectorInv'
<1> DEFINE o == K!OutputOf(record[t])
<1>1. /\ pat[t] = "writes" /\ K!Goto(t, "signals") /\ mutex' = [mutex EXCEPT ![o] = K!NoThread]
      /\ records' = records /\ next' = next /\ record' = record /\ sem' = sem /\ offset' = offset
      /\ cat' = cat /\ nTerminated' = nTerminated /\ rowsReady' = rowsReady /\ printed' = printed
  BY Zenon DEF K!WriteRow, K!ReleaseMutex, K!Mine, K!collector
<1>2. /\ pat' \in [K!Thread -> CollectorPlaces] /\ pat'[t] = "signals"
      /\ \A u \in K!Thread \ {t} : pat'[u] = pat[u]
  <2>1. "signals" \in CollectorPlaces
    BY DEF CollectorPlaces
  <2> QED BY <1>1, <2>1, PatNext, Zenon
<1>3. /\ o \in K!Output /\ cat # "ends" /\ rows' \in [K!Output -> Seq(Nat)]
      /\ \A p \in K!Output \ {o} : rows'[p] = rows[p]
      /\ rows[o] \in Seq(Nat) /\ Len(rows'[o]) = Len(rows[o]) + 1
      /\ rows'[o][Len(rows[o]) + 1] = record[t]
      /\ \A j \in 1..Len(rows[o]) : rows'[o][j] = rows[o][j]
      /\ \A j \in 1..Len(rows'[o]) : j \in 1..Len(rows[o]) \/ j = Len(rows[o]) + 1
  BY WriteRowWrites, Zenon
<1>4. /\ InHand(t) /\ ~InHand(t)' /\ pat[t] \notin {"signals", "ends"}
      /\ pat'[t] \notin {"ends", "opens", "writes"}
  BY <1>1, <1>2 DEF InHand
<1>5. record[t] \in 1..next - 1 /\ ~IsRow(o, record[t]) /\ mutex[o] = t
  BY <1>1, <1>4, HasMutex, Zenon DEF CollectorInv, HandInv
<1>6. /\ mutex' \in [K!Output -> Nat] /\ \A p \in K!Output \ {o} : mutex'[p] = mutex[p]
  <2>1. K!NoThread \in Nat
    BY CollectorConstants, SMT
  <2>2. mutex \in [K!Output -> Nat]
    BY TypesNow, Zenon
  <2> QED BY <1>1, <1>3, <2>1, <2>2, Update, Zenon
<1>7. CollectorTypes'
  BY <1>1, <1>2, <1>3, <1>6, TypesNow, TypesNext, Zenon
<1>8. \A p \in K!Output : \A k : IsRow(p, k)' <=> IsRow(p, k) \/ (p = o /\ k = record[t])
  BY WriteRowRows, Zenon
<1> HIDE DEF o
<1>9. K!Thread' = K!Thread /\ K!Output' = K!Output
  BY <1>1, SameFile, Zenon DEF K!Thread
<1>10. \A u \in K!Thread \ {t} : InHand(u)' <=> InHand(u)
  BY <1>2, Zenon DEF InHand
<1>11. NoneLost'
  <2>1. ASSUME NEW k \in 1..next - 1
        PROVE  IsRow(K!OutputOf(k), k)' \/ \E u \in K!Thread : InHand(u)' /\ record'[u] = k
    <3>1. IsRow(K!OutputOf(k), k) \/ \E u \in K!Thread : InHand(u) /\ record[u] = k
      BY Zenon DEF CollectorInv, NoneLost
    <3>2. K!OutputOf(k)' = K!OutputOf(k) /\ K!OutputOf(k) \in K!Output
      <4>1. Len(records) \in Nat /\ next \in 1..Len(records) + 1
        BY TypesNow, Zenon
      <4>2. ASSUME NEW n \in Nat, NEW x \in 1..n + 1, NEW y \in 1..x - 1 PROVE y \in 1..n
        OBVIOUS
      <4> QED BY <1>1, <4>1, <4>2, SameFile, OutputIs, Zenon
    <3>3. PICK p \in K!Output : p = K!OutputOf(k)
      BY <3>2, Zenon
    <3>4. IsRow(p, k)' => IsRow(K!OutputOf(k), k)'
      BY <3>2, <3>3, Zenon DEF IsRow
    <3>5. CASE IsRow(K!OutputOf(k), k)
      BY <1>8, <3>3, <3>4, <3>5, Zenon
    <3>6. CASE k = record[t]
      <4>1. p = o
        BY <3>3, <3>6, Zenon DEF o
      <4> QED BY <1>8, <3>4, <3>6, <4>1, Zenon
    <3>7. ASSUME NEW u \in K!Thread, u # t, InHand(u), record[u] = k
          PROVE  InHand(u)' /\ record'[u] = k
      BY <1>1, <1>10, <3>7, Zenon
    <3> QED BY <3>1, <3>5, <3>6, <3>7, Zenon
  <2> QED BY <1>1, <1>9, <2>1, Zenon DEF NoneLost
<1>12. OneEach'
  <2>1. ASSUME NEW u \in K!Thread, NEW v \in K!Thread, InHand(u)', InHand(v)', record'[u] = record'[v]
        PROVE  u = v
    <3>1. InHand(u) /\ InHand(v) /\ record[u] = record[v]
      BY <1>1, <1>4, <1>10, <2>1, Zenon
    <3> QED BY <3>1, Zenon DEF CollectorInv, OneEach
  <2> QED BY <1>9, <2>1, Zenon DEF OneEach
<1>13. /\ AtEnd' = AtEnd
       /\ \A p : p # o => Signalling(p)' = Signalling(p)
       /\ Signalling(o) \in SUBSET K!Thread /\ t \notin Signalling(o)
  <2>1. \A p : Signalling(p)' = {u \in K!Thread : pat'[u] = "signals" /\ K!OutputOf(record'[u]) = p}
    BY <1>1, OutputNext, Zenon
  <2>2. AtEnd' = {u \in K!Thread : pat'[u] = "ends"}
    BY <1>1, OutputNext, Zenon
  <2>3. ASSUME NEW u PROVE u \in AtEnd' <=> u \in AtEnd
    <3>1. CASE u = t
      BY <1>4, <2>2, <3>1, Zenon DEF AtEnd
    <3>2. CASE u # t
      BY <1>2, <2>2, <3>2, Zenon DEF AtEnd
    <3> QED BY <3>1, <3>2
  <2>4. ASSUME NEW p, p # o, NEW u PROVE u \in Signalling(p)' <=> u \in Signalling(p)
    <3>1. CASE u = t
      <4>1. K!OutputOf(record'[t]) # p
        BY <1>1, <2>4, Zenon DEF o
      <4>2. pat[t] # "signals"
        BY <1>4
      <4> QED BY <2>1, <3>1, <4>1, <4>2, Zenon DEF Signalling
    <3>2. CASE u # t
      BY <1>1, <1>2, <2>1, <3>2, SMTT(60) DEF Signalling
    <3> QED BY <3>1, <3>2
  <2>5. AtEnd' = AtEnd
    BY <2>3
  <2>6. ASSUME NEW p, p # o PROVE Signalling(p)' = Signalling(p)
    <3>1. \A u : u \in Signalling(p)' <=> u \in Signalling(p)
      BY <2>4, <2>6
    <3> QED BY <3>1
  <2>7. Signalling(o) \in SUBSET K!Thread
    BY DEF Signalling
  <2>8. t \notin Signalling(o)
    BY <1>4, Zenon DEF Signalling
  <2> QED BY <2>5, <2>6, <2>7, <2>8
<1>14. EndsCount'
  BY <1>1, <1>13, SameEnds, Zenon
<1>15. ASSUME NEW p \in K!Output, p = o PROVE RowInv(p)'
  <2> DEFINE S == {v \in K!Thread : pat'[v] = "signals" /\ K!OutputOf(record'[v]) = p}
  <2>1. Signalling(p)' = S
    BY <1>1, OutputNext, Zenon
  <2>2. S = Signalling(p) \cup {t}
    <3>1. ASSUME NEW u PROVE u \in S <=> u \in Signalling(p) \/ u = t
      <4>1. CASE u = t
        BY <1>1, <1>2, <1>15, <4>1, Zenon DEF o
      <4>2. CASE u # t
        BY <1>1, <1>2, <4>2, Zenon DEF Signalling
      <4> QED BY <4>1, <4>2
    <3> HIDE DEF S
    <3> QED BY <3>1
  <2> HIDE DEF S
  <2>3. Cardinality(Signalling(p))' = Cardinality(Signalling(p)) + 1 /\ Cardinality(Signalling(p)) \in Nat
    <3>1. Cardinality(S) = Cardinality(Signalling(p)) + 1 /\ Cardinality(Signalling(p)) \in Nat
      BY <1>13, <1>15, <2>2, CountOfThreads, Zenon
    <3>2. Cardinality(Signalling(p))' = Cardinality(S)
      BY <2>1, Zenon
    <3> QED BY <3>1, <3>2, Zenon
  <2>4. /\ Len(rows'[p]) = Len(rows[p]) + 1 /\ Len(rows[p]) \in Nat
        /\ sem[p] \in Nat /\ rowsReady[p] \in 0..Interval - 1 /\ printed[p] \in Nat
    <3>1. \A s \in Seq(Nat) : Len(s) \in Nat
      OBVIOUS
    <3>2. K!Output \subseteq K!Handle
      BY TypesNow, OutputIs, Zenon
    <3> QED BY <1>3, <1>15, <3>1, <3>2, TypesNow, Zenon
  <2>5. RowInv(p)
    BY Zenon DEF CollectorInv
  <2>6. sem'[p] + rowsReady'[p] + printed'[p] + Cardinality(Signalling(p))' = Len(rows'[p])
    <3>1. PICK a, b, c, d, d1, n :
            /\ a = sem[p] /\ b = rowsReady[p] /\ c = printed[p] /\ d = Cardinality(Signalling(p))
            /\ d1 = Cardinality(Signalling(p))' /\ n = Len(rows[p])
      BY Zenon
    <3>2. /\ a \in Nat /\ b \in 0..Interval - 1 /\ c \in Nat /\ d \in Nat /\ n \in Nat
          /\ d1 = d + 1
      BY <2>3, <2>4, <3>1, Zenon
    <3>3. a + b + c + d = n
      BY <1>3, <2>5, <3>1, Zenon DEF RowInv
    <3>4. a + b + c + d1 = n + 1
      BY <3>2, <3>3, CollectorConstants
    <3> QED BY <1>1, <2>4, <3>1, <3>4, Zenon
  <2>7. ASSUME NEW j \in 1..Len(rows'[p])
        PROVE  rows'[p][j] \in 1..next - 1 /\ K!OutputOf(rows'[p][j]) = p
    <3>1. CASE j \in 1..Len(rows[p])
      BY <1>3, <1>15, <2>5, <3>1, Zenon DEF RowInv
    <3>2. CASE j = Len(rows[p]) + 1
      BY <1>3, <1>5, <1>15, <3>2, Zenon DEF o
    <3> QED BY <1>3, <1>15, <3>1, <3>2, Zenon
  <2>8. ASSUME NEW j \in 1..Len(rows'[p]), NEW k \in 1..Len(rows'[p]), rows'[p][j] = rows'[p][k]
        PROVE  j = k
    <3>1. \A m \in 1..Len(rows[p]) : rows'[p][m] = rows[p][m] /\ rows[p][m] # record[t]
      BY <1>3, <1>5, <1>15, Zenon DEF IsRow
    <3>2. rows'[p][Len(rows[p]) + 1] = record[t]
      BY <1>3, <1>15, Zenon
    <3>3. /\ j \in 1..Len(rows[p]) \/ j = Len(rows[p]) + 1
          /\ k \in 1..Len(rows[p]) \/ k = Len(rows[p]) + 1
      BY <1>3, <1>15, Zenon
    <3> QED BY <2>5, <2>8, <3>1, <3>2, <3>3, Zenon DEF RowInv
  <2>9. \A j : K!OutputOf(rows[p][j])' = K!OutputOf(rows'[p][j])
    BY <1>1, OutputNext, Zenon
  <2> QED BY <1>1, <1>3, <2>6, <2>7, <2>8, <2>9, Zenon DEF RowInv
<1>16. ASSUME NEW p \in K!Output PROVE RowInv(p)'
  <2>1. CASE p # o
    <3>1. Cardinality(Signalling(p))' = Cardinality(Signalling(p)) /\ rows'[p] = rows[p]
      BY <1>3, <1>13, <2>1, Zenon
    <3> QED BY <1>1, <3>1, SameRows, Zenon
  <2> QED BY <1>15, <2>1
<1>17. ASSUME NEW u \in K!Thread PROVE HandInv(u)'
  <2>1. CASE u = t
    BY <1>1, <1>2, <1>4, <1>5, <2>1, Zenon DEF HandInv
  <2>2. CASE u # t
    <3>1. pat[u] \in {"opens", "writes"} =>
            InHand(u) /\ mutex'[K!OutputOf(record[u])] = mutex[K!OutputOf(record[u])]
                      /\ rows'[K!OutputOf(record[u])] = rows[K!OutputOf(record[u])]
      <4>1. SUFFICES ASSUME pat[u] \in {"opens", "writes"}
                     PROVE  InHand(u) /\ mutex'[K!OutputOf(record[u])] = mutex[K!OutputOf(record[u])]
                                      /\ rows'[K!OutputOf(record[u])] = rows[K!OutputOf(record[u])]
        OBVIOUS
      <4>2. InHand(u)
        BY <4>1 DEF InHand
      <4>3. K!OutputOf(record[u]) # o /\ K!OutputOf(record[u]) \in K!Output
        BY <1>5, <2>2, <4>1, <4>2, OthersFile, HandIs, Zenon DEF o
      <4> QED BY <1>3, <1>6, <4>2, <4>3, Zenon
    <3>2. ASSUME InHand(u), NEW j \in 1..Len(rows'[K!OutputOf(record[u])])
          PROVE  rows'[K!OutputOf(record[u])][j] # record[u]
      <4>1. ~IsRow(K!OutputOf(record[u]), record[u]) /\ K!OutputOf(record[u]) \in K!Output
        BY <3>2, HandIs, Zenon DEF CollectorInv, HandInv
      <4>2. record[u] # record[t]
        BY <1>4, <2>2, <3>2, Zenon DEF CollectorInv, OneEach
      <4>3. PICK p \in K!Output : p = K!OutputOf(record[u])
        BY <4>1, Zenon
      <4>4. ~IsRow(p, record[u])
        BY <4>1, <4>3, Zenon
      <4>5. PICK r : r = record[u]
        BY Zenon
      <4>6. ~IsRow(p, r)'
        BY <1>8, <4>2, <4>4, <4>5, Zenon
      <4> QED BY <3>2, <4>3, <4>5, <4>6, Zenon DEF IsRow
    <3> QED BY <1>1, <1>2, <2>2, <3>1, <3>2, SameHand, Zenon
  <2> QED BY <2>1, <2>2
<1> QED BY <1>7, <1>9, <1>11, <1>12, <1>14, <1>16, <1>17, Zenon DEF CollectorInv

\* The collector touches neither the files nor the threads.
LEMMA CollectorKeeps ==
  ASSUME CollectorInv, CollectorTypes', UNCHANGED <<K!files, K!threads>>,
         EndsCount', \A o \in K!Output : RowInv(o)'
  PROVE  CollectorInv'
<1>1. /\ records' = records /\ next' = next /\ rows' = rows /\ mutex' = mutex
      /\ record' = record /\ pat' = pat /\ offset' = offset
  BY Zenon DEF K!files, K!threads
<1>2. \A t \in K!Thread : InHand(t)' <=> InHand(t)
  BY <1>1, Zenon DEF InHand
<1>3. NoneLost' /\ OneEach'
  BY <1>1, <1>2, SameHolders, Zenon
<1>4. ASSUME NEW u \in K!Thread PROVE HandInv(u)'
  <2>1. InHand(u) => \A j \in 1..Len(rows[K!OutputOf(record[u])]) :
                       rows[K!OutputOf(record[u])][j] # record[u]
    BY Zenon DEF CollectorInv, HandInv, IsRow
  <2> QED BY <1>1, <2>1, SameHand, Zenon
<1>5. K!Thread' = K!Thread /\ K!Output' = K!Output
  BY <1>1, SameFile, Zenon DEF K!Thread
<1> QED BY <1>3, <1>4, <1>5, Zenon DEF CollectorInv

\* The types of what is left alone then.
LEMMA CollectorTypesNext ==
  ASSUME CollectorInv, UNCHANGED <<K!files, K!threads>>,
         sem' \in [K!Handle -> Nat], nTerminated' \in Nat,
         rowsReady' \in [K!Output -> 0..Interval - 1], printed' \in [K!Output -> Nat],
         cat' \in {"waits", "wait failed", "ends"}
  PROVE  CollectorTypes'
<1>1. /\ records' = records /\ next' = next /\ rows' = rows /\ mutex' = mutex
      /\ record' = record /\ pat' = pat /\ offset' = offset
  BY Zenon DEF K!files, K!threads
<1> QED BY <1>1, TypesNow, TypesNext, Zenon

\* The threads that signal or have ended stay as they are.
LEMMA CollectorCounts ==
  ASSUME UNCHANGED <<K!files, K!threads>>
  PROVE  /\ records' = records /\ next' = next /\ rows' = rows
         /\ AtEnd' = AtEnd /\ \A o : Signalling(o)' = Signalling(o)
         /\ K!Termination' = K!Termination
         /\ \A o : Cardinality(Signalling(o))' = Cardinality(Signalling(o))
<1>1. records' = records /\ next' = next /\ rows' = rows /\ record' = record /\ pat' = pat
  BY Zenon DEF K!files, K!threads
<1>2. AtEnd' = AtEnd /\ \A o : Signalling(o)' = Signalling(o)
  BY <1>1, SameCounts, Zenon
<1>3. K!Termination' = K!Termination
  BY <1>1, SameFile, Zenon
<1> QED BY <1>1, <1>2, <1>3, Zenon

\* A step of the collector that waits in vain.
LEMMA WaitsKeep ==
  ASSUME CollectorInv, K!WaitFails \/ K!WaitTimesOut
  PROVE  CollectorInv'
<1>1. /\ UNCHANGED <<K!files, K!threads>> /\ sem' = sem /\ nTerminated' = nTerminated
      /\ rowsReady' = rowsReady /\ printed' = printed
      /\ cat # "ends" /\ cat' # "ends" /\ cat' \in {"waits", "wait failed", "ends"}
  <2>1. CASE K!WaitFails
    <3>1. cat = "waits" /\ cat' = "wait failed" /\ UNCHANGED <<K!files, sem, K!threads>>
          /\ nTerminated' = nTerminated /\ rowsReady' = rowsReady /\ printed' = printed
      BY <2>1, Zenon DEF K!WaitFails
    <3>2. cat # "ends" /\ cat' # "ends" /\ cat' \in {"waits", "wait failed", "ends"}
      BY <3>1, Zenon
    <3> QED BY <3>1, <3>2, Zenon
  <2>2. CASE K!WaitTimesOut
    <3>1. cat = "waits" /\ cat' = cat /\ UNCHANGED <<K!files, sem, K!threads>>
          /\ nTerminated' = nTerminated /\ rowsReady' = rowsReady /\ printed' = printed
      BY <2>2, Zenon DEF K!WaitTimesOut
    <3>2. cat # "ends" /\ cat' # "ends" /\ cat' \in {"waits", "wait failed", "ends"}
      BY <3>1, Zenon
    <3> QED BY <3>1, <3>2, Zenon
  <2> QED BY <2>1, <2>2
<1>2. CollectorTypes'
  BY <1>1, TypesNow, CollectorTypesNext, Zenon
<1>3. EndsCount'
  <2>1. sem[K!Termination] + nTerminated = Cardinality(AtEnd)
    BY Zenon DEF CollectorInv, EndsCount
  <2>2. Cardinality(AtEnd)' = Cardinality(AtEnd)
    BY <1>1, CollectorCounts, Zenon
  <2> QED BY <1>1, <2>1, <2>2, CollectorCounts, Zenon DEF EndsCount
<1>4. ASSUME NEW o \in K!Output PROVE RowInv(o)'
  <2>1. RowInv(o)
    BY Zenon DEF CollectorInv
  <2>2. \A j : K!OutputOf(rows[o][j])' = K!OutputOf(rows'[o][j])
    BY <1>1, CollectorCounts, OutputNext, Zenon
  <2> QED BY <1>1, <2>1, <2>2, CollectorCounts, Zenon DEF RowInv
<1> QED BY <1>1, <1>2, <1>3, <1>4, CollectorKeeps, Zenon

\* What the collector waited for is there.
LEMMA WaitedFor ==
  ASSUME CollectorInv, NEW h \in K!Handle, K!Waited(h)
  PROVE  /\ cat = "waits" /\ sem[h] \in Nat /\ sem[h] > 0 /\ sem[h] - 1 \in Nat
         /\ sem' \in [K!Handle -> Nat] /\ sem'[h] = sem[h] - 1
         /\ \A g \in K!Handle \ {h} : sem'[g] = sem[g]
<1>1. cat = "waits" /\ h \in K!Ready /\ sem' = [sem EXCEPT ![h] = sem[h] - 1]
  BY Zenon DEF K!Waited
<1>2. sem[h] > 0
  BY <1>1, Zenon DEF K!Ready
<1>3. sem[h] \in Nat /\ sem \in [K!Handle -> Nat]
  BY TypesNow, Zenon
<1>4. sem[h] - 1 \in Nat
  BY <1>2, <1>3
<1> QED BY <1>1, <1>2, <1>3, <1>4, Update, Zenon

\* A thread that ended, counted.
LEMMA TerminatedKeeps ==
  ASSUME CollectorInv, K!Terminated
  PROVE  CollectorInv'
<1>1. /\ K!Waited(K!Termination) /\ nTerminated' = nTerminated + 1
      /\ UNCHANGED <<K!files, K!threads>> /\ cat' = cat /\ rowsReady' = rowsReady /\ printed' = printed
  BY Zenon DEF K!Terminated
<1>2. K!Termination \in K!Handle /\ K!Termination \notin K!Output /\ K!Output \subseteq K!Handle
  BY TypesNow, OutputIs, Zenon
<1>3. /\ cat = "waits" /\ sem[K!Termination] \in Nat
      /\ sem' \in [K!Handle -> Nat] /\ sem'[K!Termination] = sem[K!Termination] - 1
      /\ \A g \in K!Handle \ {K!Termination} : sem'[g] = sem[g]
  BY <1>1, <1>2, WaitedFor, Zenon
<1>4. cat # "ends" /\ cat' # "ends"
  BY <1>1, <1>3
<1>5. nTerminated \in Nat /\ nTerminated' \in Nat
  <2>1. nTerminated \in Nat
    BY TypesNow, Zenon
  <2>2. \A n \in Nat : n + 1 \in Nat
    OBVIOUS
  <2> QED BY <1>1, <2>1, <2>2, Zenon
<1>6. CollectorTypes'
  BY <1>1, <1>3, <1>5, TypesNow, CollectorTypesNext, Zenon
<1>7. EndsCount'
  <2>1. sem[K!Termination] + nTerminated = Cardinality(AtEnd)
    BY Zenon DEF CollectorInv, EndsCount
  <2>2. Cardinality(AtEnd)' = Cardinality(AtEnd) /\ sem'[K!Termination'] = sem[K!Termination] - 1
    BY <1>1, <1>3, CollectorCounts, Zenon
  <2>3. \A a, n \in Nat : (a - 1) + (n + 1) = a + n
    OBVIOUS
  <2>4. (sem[K!Termination] - 1) + (nTerminated + 1) = sem[K!Termination] + nTerminated
    BY <1>3, <1>5, <2>3, Zenon
  <2> QED BY <1>1, <1>4, <2>1, <2>2, <2>4, Zenon DEF EndsCount
<1>8. ASSUME NEW o \in K!Output PROVE RowInv(o)'
  <2>1. sem'[o] = sem[o]
    BY <1>2, <1>3, Zenon
  <2> QED BY <1>1, <2>1, CollectorCounts, SameRows, Zenon
<1> QED BY <1>1, <1>6, <1>7, <1>8, CollectorKeeps, Zenon

\* A row that the collector was told of, and perhaps the printing of Interval rows:
\* they are in the file, because no count runs ahead of it.
LEMMA RowKeeps ==
  ASSUME CollectorInv, NEW o \in K!Output, K!Row(o)
  PROVE  CollectorInv'
<1>1. /\ K!Waited(o) /\ UNCHANGED <<K!files, K!threads>> /\ nTerminated' = nTerminated
      /\ rowsReady[o] + 1 < Interval =>
           rowsReady' = [rowsReady EXCEPT ![o] = rowsReady[o] + 1] /\ UNCHANGED <<cat, printed>>
      /\ ~(rowsReady[o] + 1 < Interval) => rowsReady' = [rowsReady EXCEPT ![o] = 0]
      /\ ~(rowsReady[o] + 1 < Interval) /\ printed[o] + Interval <= Len(rows[o]) =>
           printed' = [printed EXCEPT ![o] = printed[o] + Interval] /\ UNCHANGED cat
  BY Zenon DEF K!Row
<1>2. o \in K!Handle /\ K!Termination \in K!Handle /\ K!Termination # o /\ K!Output \subseteq K!Handle
  BY TypesNow, OutputIs, Zenon
<1>3. /\ cat = "waits" /\ sem[o] \in Nat /\ sem[o] > 0
      /\ sem' \in [K!Handle -> Nat] /\ sem'[o] = sem[o] - 1
      /\ \A g \in K!Handle \ {o} : sem'[g] = sem[g]
  BY <1>1, <1>2, WaitedFor, Zenon
<1>4. PICK a, b, c, d, n :
        /\ a = sem[o] /\ b = rowsReady[o] /\ c = printed[o] /\ d = Cardinality(Signalling(o))
        /\ n = Len(rows[o])
  BY Zenon
<1>5. a \in Nat /\ a > 0 /\ b \in 0..Interval - 1 /\ c \in Nat /\ d \in Nat /\ n \in Nat
  <2>1. Signalling(o) \in SUBSET K!Thread
    BY DEF Signalling
  <2>2. \A s \in Seq(Nat) : Len(s) \in Nat
    OBVIOUS
  <2>3. \E u : u \in K!Thread
    <3>1. 1 \in 1..nProcessing
      BY CollectorConstants
    <3> QED BY <3>1, Zenon DEF K!Thread
  <2> QED BY <1>3, <1>4, <2>1, <2>2, <2>3, CountOfThreads, TypesNow, Zenon
<1>6. a + b + c + d = n
  <2>1. cat # "ends"
    BY <1>3
  <2> QED BY <1>4, <2>1, Zenon DEF CollectorInv, RowInv
<1>7. Interval \in Nat /\ Interval > 0
  BY CollectorConstants, Zenon
<1>8. \/ /\ b + 1 < Interval /\ b + 1 \in 0..Interval - 1
         /\ (a - 1) + (b + 1) + c + d = a + b + c + d
      \/ /\ ~(b + 1 < Interval) /\ c + Interval <= n /\ c + Interval \in Nat /\ 0 \in 0..Interval - 1
         /\ (a - 1) + 0 + (c + Interval) + d = a + b + c + d
  BY <1>5, <1>6, <1>7
<1>9. /\ rowsReady' \in [K!Output -> 0..Interval - 1] /\ printed' \in [K!Output -> Nat] /\ cat' = cat
      /\ sem'[o] + rowsReady'[o] + printed'[o] + d = sem[o] + rowsReady[o] + printed[o] + d
      /\ \A p \in K!Output \ {o} : rowsReady'[p] = rowsReady[p] /\ printed'[p] = printed[p]
  <2>1. rowsReady \in [K!Output -> 0..Interval - 1] /\ printed \in [K!Output -> Nat]
    BY TypesNow, Zenon
  <2>2. CASE /\ b + 1 < Interval /\ b + 1 \in 0..Interval - 1
             /\ (a - 1) + (b + 1) + c + d = a + b + c + d
    <3>1. rowsReady' = [rowsReady EXCEPT ![o] = b + 1] /\ cat' = cat /\ printed' = printed
      BY <1>1, <1>4, <2>2, Zenon
    <3>2. /\ rowsReady' \in [K!Output -> 0..Interval - 1] /\ rowsReady'[o] = b + 1
          /\ \A p \in K!Output \ {o} : rowsReady'[p] = rowsReady[p]
      BY <2>1, <2>2, <3>1, Update, Zenon
    <3> QED BY <1>3, <1>4, <2>1, <2>2, <3>1, <3>2, Zenon
  <2>3. CASE /\ ~(b + 1 < Interval) /\ c + Interval <= n /\ c + Interval \in Nat /\ 0 \in 0..Interval - 1
             /\ (a - 1) + 0 + (c + Interval) + d = a + b + c + d
    <3>1. /\ rowsReady' = [rowsReady EXCEPT ![o] = 0] /\ cat' = cat
          /\ printed' = [printed EXCEPT ![o] = c + Interval]
      BY <1>1, <1>4, <2>3, Zenon
    <3>2. /\ rowsReady' \in [K!Output -> 0..Interval - 1] /\ rowsReady'[o] = 0
          /\ \A p \in K!Output \ {o} : rowsReady'[p] = rowsReady[p]
      BY <2>1, <2>3, <3>1, Update, Zenon
    <3>3. /\ printed' \in [K!Output -> Nat] /\ printed'[o] = c + Interval
          /\ \A p \in K!Output \ {o} : printed'[p] = printed[p]
      BY <2>1, <2>3, <3>1, Update, Zenon
    <3> QED BY <1>3, <1>4, <2>3, <3>1, <3>2, <3>3, Zenon
  <2> QED BY <1>8, <2>2, <2>3
<1>10. CollectorTypes'
  BY <1>1, <1>3, <1>9, TypesNow, CollectorTypesNext, Zenon
<1>11. EndsCount'
  BY <1>1, <1>2, <1>3, <1>9, CollectorCounts, SameEnds, Zenon
<1>12. ASSUME NEW p \in K!Output PROVE RowInv(p)'
  <2>1. Cardinality(Signalling(p))' = Cardinality(Signalling(p))
    BY <1>1, CollectorCounts, Zenon
  <2>2. CASE p = o
    <3>1. sem'[p] + rowsReady'[p] + printed'[p] + Cardinality(Signalling(p)) =
            sem[p] + rowsReady[p] + printed[p] + Cardinality(Signalling(p))
      BY <1>4, <1>9, <2>2, Zenon
    <3>2. sem'[p] + rowsReady'[p] + printed'[p] + Cardinality(Signalling(p))' =
            sem[p] + rowsReady[p] + printed[p] + Cardinality(Signalling(p))
      BY <2>1, <3>1, Zenon
    <3>3. cat # "ends"
      BY <1>3
    <3> QED BY <1>1, <1>9, <3>2, <3>3, CollectorCounts, SameRows, Zenon
  <2>3. CASE p # o
    <3>1. sem'[p] = sem[p] /\ rowsReady'[p] = rowsReady[p] /\ printed'[p] = printed[p]
      BY <1>2, <1>3, <1>9, <2>3, Zenon
    <3>2. sem'[p] + rowsReady'[p] + printed'[p] + Cardinality(Signalling(p))' =
            sem[p] + rowsReady[p] + printed[p] + Cardinality(Signalling(p))
      BY <2>1, <3>1, Zenon
    <3> QED BY <1>1, <1>9, <3>1, <3>2, CollectorCounts, SameRows, Zenon
  <2> QED BY <2>2, <2>3
<1> QED BY <1>1, <1>10, <1>11, <1>12, CollectorKeeps, Zenon

\* The purging phase prints what is left.
LEMMA PurgeKeeps ==
  ASSUME CollectorInv, K!Purge
  PROVE  CollectorInv'
<1>1. /\ UNCHANGED <<K!files, K!threads>> /\ sem' = sem /\ nTerminated' = nTerminated
      /\ nTerminated = nProcessing /\ cat' = "ends" /\ rowsReady' = rowsReady
      /\ printed' = [o \in K!Output |-> Len(rows[o])]
  BY Zenon DEF K!Purge
<1>2. \A o \in K!Output : Len(rows[o]) \in Nat
  <2>1. \A s \in Seq(Nat) : Len(s) \in Nat
    OBVIOUS
  <2> QED BY <2>1, TypesNow, Zenon
<1>3. printed' \in [K!Output -> Nat] /\ \A o \in K!Output : printed'[o] = Len(rows[o])
  BY <1>1, <1>2, Zenon
<1>4. cat' \in {"waits", "wait failed", "ends"}
  BY <1>1, Zenon
<1>5. CollectorTypes'
  BY <1>1, <1>3, <1>4, TypesNow, CollectorTypesNext, Zenon
<1>6. EndsCount'
  <2>1. sem[K!Termination] + nTerminated = Cardinality(AtEnd)
    BY Zenon DEF CollectorInv, EndsCount
  <2>2. Cardinality(AtEnd)' = Cardinality(AtEnd)
    BY <1>1, CollectorCounts, Zenon
  <2> QED BY <1>1, <2>1, <2>2, CollectorCounts, Zenon DEF EndsCount
<1>7. ASSUME NEW o \in K!Output PROVE RowInv(o)'
  <2>1. RowInv(o)
    BY Zenon DEF CollectorInv
  <2>2. \A j : K!OutputOf(rows[o][j])' = K!OutputOf(rows'[o][j])
    BY <1>1, CollectorCounts, OutputNext, Zenon
  <2>3. printed'[o] = Len(rows'[o])
    BY <1>1, <1>3, CollectorCounts, Zenon
  <2> QED BY <1>1, <2>1, <2>2, <2>3, CollectorCounts, Zenon DEF RowInv
<1> QED BY <1>1, <1>5, <1>6, <1>7, CollectorKeeps, Zenon

\* The threads, the files and the counts at the start.
LEMMA CollectorStart == K!Init => CollectorInv
<1> SUFFICES ASSUME K!Init PROVE CollectorInv
  OBVIOUS
<1>1. /\ records \in RecordFiles /\ next = 1
      /\ mutex = [o \in K!Output |-> K!NoThread] /\ rows = [o \in K!Output |-> <<>>]
      /\ sem = [h \in K!Handle |-> 0]
      /\ record = [t \in K!Thread |-> 0] /\ pat = [t \in K!Thread |-> "reads"]
      /\ offset = [t \in K!Thread |-> 0]
      /\ cat = "waits" /\ nTerminated = 0
      /\ rowsReady = [o \in K!Output |-> 0] /\ printed = [o \in K!Output |-> 0]
  BY Zenon DEF K!Init
<1>2. Len(records) \in Nat
  <2>1. records \in Seq({records[k] : k \in DOMAIN records})
    BY <1>1, LabAssumption, Zenon DEF LabAssumption, K!CollectorAssumption
  <2>2. \A S : \A s \in Seq(S) : Len(s) \in Nat
    OBVIOUS
  <2> QED BY <2>1, <2>2, Zenon
<1>3. 0 \in 0..Interval - 1 /\ 0 \in Nat /\ K!NoThread \in Nat /\ <<>> \in Seq(Nat)
      /\ Len(<<>>) = 0 /\ 1..0 = {} /\ next - 1 = 0 /\ next \in 1..Len(records) + 1
  <2>1. 0 \in 0..Interval - 1 /\ 0 \in Nat /\ K!NoThread \in Nat
    BY CollectorConstants
  <2>2. <<>> \in Seq(Nat) /\ Len(<<>>) = 0 /\ 1..0 = {}
    OBVIOUS
  <2>3. \A n \in Nat : 1 \in 1..n + 1 /\ 1 - 1 = 0
    OBVIOUS
  <2> QED BY <1>1, <1>2, <2>1, <2>2, <2>3, Zenon
<1>4. K!Output \subseteq K!Handle /\ K!Termination \in K!Handle
  BY <1>2, OutputIs, Zenon
<1>5. "reads" \in CollectorPlaces /\ cat \in {"waits", "wait failed", "ends"}
  <2>1. "reads" \in CollectorPlaces
    BY DEF CollectorPlaces
  <2> QED BY <1>1, <2>1, Zenon
<1>6. CollectorTypes
  BY <1>1, <1>2, <1>3, <1>5, Zenon DEF CollectorTypes
<1>7. \A t \in K!Thread : pat[t] \notin {"signals", "opens", "writes", "ends"} /\ ~InHand(t)
  <2>1. \A t \in K!Thread : pat[t] = "reads"
    BY <1>1, Zenon
  <2> QED BY <2>1 DEF InHand
<1>8. NoneLost /\ OneEach /\ \A t \in K!Thread : HandInv(t)
  BY <1>3, <1>7, Zenon DEF NoneLost, OneEach, HandInv
<1>9. AtEnd = {} /\ \A o : Signalling(o) = {}
  <2>1. AtEnd = {}
    BY <1>7 DEF AtEnd
  <2>2. ASSUME NEW o PROVE Signalling(o) = {}
    BY <1>7 DEF Signalling
  <2> QED BY <2>1, <2>2
<1>10. Cardinality({}) = 0
  BY FS_EmptySet, Zenon
<1>11. 0 + 0 = 0 /\ 0 + 0 + 0 + 0 = 0 /\ cat # "ends"
  BY <1>1
<1>12. EndsCount
  BY <1>1, <1>4, <1>9, <1>10, <1>11, Zenon DEF EndsCount
<1>13. ASSUME NEW o \in K!Output PROVE RowInv(o)
  <2>1. Len(rows[o]) = 0 /\ sem[o] = 0 /\ rowsReady[o] = 0 /\ printed[o] = 0
    BY <1>1, <1>3, <1>4, Zenon
  <2>2. Cardinality(Signalling(o)) = 0
    BY <1>9, <1>10, Zenon
  <2>3. 1..Len(rows[o]) = {}
    BY <1>3, <2>1, Zenon
  <2> QED BY <1>11, <2>1, <2>2, <2>3, Zenon DEF RowInv
<1> QED BY <1>6, <1>8, <1>12, <1>13, Zenon DEF CollectorInv

\* Every step keeps the invariant.
LEMMA CollectorNext == CollectorInv /\ [K!Next]_(K!vars) => CollectorInv'
<1> SUFFICES ASSUME CollectorInv, [K!Next]_(K!vars) PROVE CollectorInv'
  OBVIOUS
<1>1. CASE UNCHANGED K!vars
  <2>1. UNCHANGED <<K!files, K!threads>> /\ sem' = sem /\ cat' = cat /\ nTerminated' = nTerminated
        /\ rowsReady' = rowsReady /\ printed' = printed
    BY <1>1, Zenon DEF K!vars, K!collector
  <2>2. CollectorTypes'
    BY <2>1, TypesNow, CollectorTypesNext, Zenon
  <2>3. EndsCount'
    BY <2>1, CollectorCounts, SameEnds, Zenon
  <2>4. ASSUME NEW o \in K!Output PROVE RowInv(o)'
    <3>1. Cardinality(Signalling(o))' = Cardinality(Signalling(o))
      BY <2>1, CollectorCounts, Zenon
    <3> QED BY <2>1, <3>1, CollectorCounts, SameRows, Zenon
  <2> QED BY <2>1, <2>2, <2>3, <2>4, CollectorKeeps, Zenon
<1>2. CASE K!Next
  <2>1. ASSUME NEW t \in K!Thread, K!ThreadStep(t) PROVE CollectorInv'
    BY <2>1, ReadRecordKeeps, EndOfRecordsKeeps, AcquireKeeps, OpenFailsKeeps, SeekKeeps,
       WriteRowKeeps, SignalKeeps, Zenon DEF K!ThreadStep
  <2>2. ASSUME K!CollectorStep PROVE CollectorInv'
    BY <2>2, WaitsKeep, TerminatedKeeps, RowKeeps, PurgeKeeps, Zenon DEF K!CollectorStep
  <2> QED BY <1>2, <2>1, <2>2, Zenon DEF K!Next
<1> QED BY <1>1, <1>2

\* When all have come to the end the rows of a file are the records that name it.
LEMMA AllWritten ==
  ASSUME CollectorInv, cat = "ends", NEW o \in K!Output
  PROVE  /\ {rows[o][k] : k \in 1..Len(rows[o])} = {k \in 1..Len(records) : K!OutputOf(k) = o}
         /\ Len(rows[o]) = Cardinality({k \in 1..Len(records) : K!OutputOf(k) = o})
<1> DEFINE S == {k \in 1..Len(records) : K!OutputOf(k) = o}
           W == {rows[o][k] : k \in 1..Len(rows[o])}
           f == [k \in 1..Len(rows[o]) |-> rows[o][k]]
<1>1. \A t \in K!Thread : pat[t] = "ends"
  BY AllEnded, Zenon
<1>2. \A t \in K!Thread : ~InHand(t)
  BY <1>1 DEF InHand
<1>3. next > Len(records)
  <2>1. 1 \in K!Thread
    <3>1. 1 \in 1..nProcessing
      BY CollectorConstants
    <3> QED BY <3>1, Zenon DEF K!Thread
  <2> QED BY <1>1, <2>1, Zenon DEF CollectorInv, HandInv
<1>4. \A k : k \in 1..next - 1 <=> k \in 1..Len(records)
  <2>1. Len(records) \in Nat /\ next \in 1..Len(records) + 1
    BY TypesNow, Zenon
  <2>2. ASSUME NEW n \in Nat, NEW x \in 1..n + 1, x > n PROVE x - 1 = n
    BY <2>2
  <2>3. next - 1 = Len(records)
    BY <1>3, <2>1, <2>2, Zenon
  <2> QED BY <2>3, Zenon
<1>5. RowInv(o)
  BY Zenon DEF CollectorInv
<1>6. \A j \in 1..Len(rows[o]) : rows[o][j] \in S
  BY <1>4, <1>5, Zenon DEF RowInv
<1>7. ASSUME NEW k \in S PROVE IsRow(o, k)
  BY <1>2, <1>4, Zenon DEF CollectorInv, NoneLost
<1>8. W = S
  <2>1. \A k : k \in W <=> IsRow(o, k)
    BY Zenon DEF IsRow
  <2>2. \A k : k \in W <=> k \in S
    BY <1>6, <1>7, <2>1, Zenon DEF IsRow
  <2> HIDE DEF W, S
  <2> QED BY <2>2
<1>9. Len(rows[o]) \in Nat
  <2>1. \A s \in Seq(Nat) : Len(s) \in Nat
    OBVIOUS
  <2> QED BY <2>1, TypesNow, Zenon
<1>10. f \in Bijection(1..Len(rows[o]), S)
  <2>1. f \in [1..Len(rows[o]) -> S] /\ DOMAIN f = 1..Len(rows[o])
    <3> HIDE DEF S
    <3> QED BY <1>6, Zenon
  <2>2. \A a, b \in DOMAIN f : f[a] = f[b] => a = b
    BY <1>5, <2>1, Zenon DEF RowInv
  <2>3. \A k \in S : \E j \in 1..Len(rows[o]) : f[j] = k
    BY <1>7, Zenon DEF IsRow
  <2> HIDE DEF f, S
  <2> QED BY <2>1, <2>2, <2>3, Zenon DEF Bijection, Injection, Surjection, IsInjective
<1>11. Cardinality(S) = Len(rows[o])
  <2>1. ExistsBijection(1..Len(rows[o]), S)
    <3> HIDE DEF f, S
    <3> QED BY <1>10, Zenon DEF ExistsBijection
  <2> HIDE DEF S
  <2> QED BY <1>9, <2>1, FS_CountingElements, Zenon
<1> QED BY <1>8, <1>11, Zenon

\* What the invariant says of the collector.
LEMMA CollectorIs == CollectorInv => K!RowsAreThere
<1> SUFFICES ASSUME CollectorInv PROVE K!RowsAreThere
  OBVIOUS
<1>1. cat # "read failed"
  BY TypesNow
<1>2. ASSUME NEW o \in K!Output, cat # "ends"
      PROVE  sem[o] + rowsReady[o] <= Len(rows[o]) - printed[o]
  <2>1. PICK a, b, c, d, n :
          /\ a = sem[o] /\ b = rowsReady[o] /\ c = printed[o] /\ d = Cardinality(Signalling(o))
          /\ n = Len(rows[o])
    BY Zenon
  <2>2. a \in Nat /\ b \in 0..Interval - 1 /\ c \in Nat /\ d \in Nat /\ n \in Nat
    <3>1. Signalling(o) \in SUBSET K!Thread
      BY DEF Signalling
    <3>2. \A s \in Seq(Nat) : Len(s) \in Nat
      OBVIOUS
    <3>3. \E u : u \in K!Thread
      <4>1. 1 \in 1..nProcessing
        BY CollectorConstants
      <4> QED BY <4>1, Zenon DEF K!Thread
    <3>4. K!Output \subseteq K!Handle
      BY TypesNow, OutputIs, Zenon
    <3> QED BY <2>1, <3>1, <3>2, <3>3, <3>4, CountOfThreads, TypesNow, Zenon
  <2>3. a + b + c + d = n
    BY <1>2, <2>1, Zenon DEF CollectorInv, RowInv
  <2>4. a + b <= n - c
    BY <2>2, <2>3, CollectorConstants
  <2> QED BY <2>1, <2>4, Zenon
<1>3. ASSUME NEW o \in K!Output, cat = "ends" PROVE printed[o] = Len(rows[o])
  BY <1>3, Zenon DEF CollectorInv, RowInv
<1>4. \A S : K!Cardinality(S) = Cardinality(S)
  BY CollectorConstants, Zenon
<1>5. ASSUME NEW o \in K!Output, cat = "ends"
      PROVE  /\ {rows[o][k] : k \in 1..Len(rows[o])} = {k \in 1..Len(records) : K!OutputOf(k) = o}
             /\ Len(rows[o]) = K!Cardinality({k \in 1..Len(records) : K!OutputOf(k) = o})
  BY <1>4, <1>5, AllWritten, Zenon
<1> QED BY <1>1, <1>2, <1>3, <1>5, Zenon DEF K!RowsAreThere

\* lab13es01, for any number of threads, any file of records and any interval: the
\* collector is told of rows that are there, and at the end every record was
\* written once, to its own file, and printed.
THEOREM CollectorIsRight == K!Spec => []K!RowsAreThere
BY CollectorStart, CollectorNext, CollectorIs, PTL DEF K!Spec

\* The behaviours of the labs are behaviours of lab13es01.
LEMMA LabHasCollector == LabSpec => K!Spec
<1>1. LabInit => K!Init
  BY Zenon DEF LabInit
<1>2. [LabNext]_labVars => [K!Next]_(K!vars)
  <2>1. UNCHANGED collector => UNCHANGED K!vars
    BY Zenon DEF collector, K!vars, K!files, K!threads, K!collector
  <2>2. ASSUME LabNext PROVE [K!Next]_(K!vars)
    <3>1. CASE lab = "collector"
      BY <2>2, <3>1, SMTT(10) DEF LabNext
    <3>2. CASE lab # "collector"
      BY <2>1, <2>2, <3>2, Zenon DEF LabNext
    <3> QED BY <3>1, <3>2
  <2>3. UNCHANGED labVars => UNCHANGED collector
    BY Zenon DEF labVars
  <2> QED BY <2>1, <2>2, <2>3
<1> QED BY <1>1, <1>2, PTL DEF LabSpec, K!Spec

-----------------------------------------------------------------------------
(* What four of these programs do together. *)

\* The four programs that hand data from thread to thread, in every execution of
\* the labs and for all the values of their constants: no row is told before it
\* is there, the lines are shown complete and in order, no update of an account
\* is lost, and the circular queue neither loses nor doubles a message.
THEOREM LabLosesNothing == LabSpec => []NothingLost
BY LabHasCollector, CollectorIsRight, LabHasLines, LinesAreShownInOrder, LabHasAccounts,
   NoUpdateIsLost, LabHasQueue, QueueInvariance, PTL DEF NothingLost
=============================================================================
