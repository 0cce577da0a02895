---------------------------- MODULE RoundsDoors ----------------------------
(***************************************************************************)
(* Version C of lab12es01: two MANUAL_RESET doors and two counters keep    *)
(* the consumers in step, an AUTO_RESET door wakes the producer.  The      *)
(* counters are incremented in the critical section, but the last consumer *)
(* resets them, closes one door and opens the next outside of it, in three *)
(* separate steps.                                                         *)
(***************************************************************************)
EXTENDS RoundsProgram

VARIABLES firstDoor, secondDoor, producerDoor,  \* the events: TRUE is open
          firstRoom, secondRoom                 \* threadInFirstRoom, ...Second

doors == <<firstDoor, secondDoor, producerDoor>>
rooms == <<firstRoom, secondRoom>>
vars  == <<common, doors, rooms>>

\* A consumer is, in turn, at "wait" (the first door), "enter1", "last1",
\* "close1", "open2", "job", "signal" (the second door), "enter2", "last2",
\* "close2", "openP", or at "end".
CPCs == {"wait", "enter1", "last1", "close1", "open2", "job", "signal",
         "enter2", "last2", "close2", "openP", "end"}

Init ==
  /\ InitProgram
  /\ firstDoor = FALSE /\ secondDoor = FALSE /\ producerDoor = FALSE
  /\ firstRoom = 0 /\ secondRoom = 0

Step(c, from, to) == cpc[c] = from /\ CGoto(c, to)
                     /\ UNCHANGED <<number, done, got, ppc>>

-----------------------------------------------------------------------------
ProducerSignal ==
  /\ ppc = "signal" /\ firstDoor' = TRUE /\ PGoto(AfterSignal)
  /\ UNCHANGED <<number, done, got, cpc, secondDoor, producerDoor, rooms>>

ProducerWait ==
  /\ ppc = "wait" /\ producerDoor /\ producerDoor' = FALSE /\ PGoto("read")
  /\ UNCHANGED <<number, done, got, cpc, firstDoor, secondDoor, rooms>>

-----------------------------------------------------------------------------
(* consumerWait *)

PassFirst(c) ==
  /\ Step(c, "wait", "enter1") /\ firstDoor /\ UNCHANGED <<doors, rooms>>

\* iAmTheLastToPassFirstDoor = (++threadInFirstRoom == 4)
EnterFirst(c) ==
  /\ Step(c, "enter1", IF firstRoom + 1 = N THEN "last1" ELSE "job")
  /\ firstRoom' = firstRoom + 1
  /\ UNCHANGED <<doors, secondRoom>>

EmptyFirst(c) ==
  /\ Step(c, "last1", "close1") /\ firstRoom' = 0
  /\ UNCHANGED <<doors, secondRoom>>

\* the first door left open
CloseFirst_Not(c) == Step(c, "close1", "open2") /\ UNCHANGED <<doors, rooms>>

CloseFirst(c) ==
  /\ Step(c, "close1", "open2") /\ firstDoor' = FALSE
  /\ UNCHANGED <<secondDoor, producerDoor, rooms>>

OpenSecond(c) ==
  /\ Step(c, "open2", "job") /\ secondDoor' = TRUE
  /\ UNCHANGED <<firstDoor, producerDoor, rooms>>

-----------------------------------------------------------------------------
(* consumerSignal *)

PassSecond(c) ==
  /\ Step(c, "signal", "enter2") /\ secondDoor /\ UNCHANGED <<doors, rooms>>

EnterSecond(c) ==
  /\ Step(c, "enter2", IF secondRoom + 1 = N THEN "last2" ELSE "wait")
  /\ secondRoom' = secondRoom + 1
  /\ UNCHANGED <<doors, firstRoom>>

\* the counter of the second room never reset
EmptySecond_Not(c) == Step(c, "last2", "close2") /\ UNCHANGED <<doors, rooms>>

EmptySecond(c) ==
  /\ Step(c, "last2", "close2") /\ secondRoom' = 0
  /\ UNCHANGED <<doors, firstRoom>>

CloseSecond(c) ==
  /\ Step(c, "close2", "openP") /\ secondDoor' = FALSE
  /\ UNCHANGED <<firstDoor, producerDoor, rooms>>

OpenProducer(c) ==
  /\ Step(c, "openP", "wait") /\ producerDoor' = TRUE
  /\ UNCHANGED <<firstDoor, secondDoor, rooms>>

-----------------------------------------------------------------------------
ConsumerWait(c) == \/ PassFirst(c) \/ EnterFirst(c) \/ EmptyFirst(c)
                   \/ CloseFirst(c) \/ OpenSecond(c)
ConsumerSignal(c) == \/ PassSecond(c) \/ EnterSecond(c) \/ EmptySecond(c)
                     \/ CloseSecond(c) \/ OpenProducer(c)

Next ==
  \/ Program /\ UNCHANGED <<doors, rooms>>
  \/ ProducerSignal \/ ProducerWait
  \/ \E c \in Consumer : ConsumerWait(c) \/ ConsumerSignal(c)

Spec == Init /\ [][Next]_vars

-----------------------------------------------------------------------------
\* The two counters count, although they are reset outside the critical
\* section: threadInFirstRoom the consumers that passed door 1, until the last
\* of them resets it; threadInSecondRoom those that passed door 2.
At(labels) == {c \in Consumer : cpc[c] \in labels}

RoomsCount ==
  /\ firstRoom = IF secondDoor \/ At({"close1", "open2"}) # {} THEN 0
                 ELSE Cardinality(At({"job", "last1", "signal", "end"}))
  /\ secondRoom = IF ~secondDoor \/ At({"close2"}) # {} THEN 0
                  ELSE Cardinality(At({"wait", "last2"}))

\* The doors are never open together ("must close the first door before
\* opening the other one"), and when the producer's door is open "no one is
\* inside the room with data": all consumers are back, in front of door 1.
DoorsApart ==
  /\ ~(firstDoor /\ secondDoor)
  /\ producerDoor => ~firstDoor /\ ~secondDoor /\ \A c \in Consumer : cpc[c] = "wait"
=============================================================================
