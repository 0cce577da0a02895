--------------------------- MODULE RoundsVersions ---------------------------
(***************************************************************************)
(* The program of lab12es01 as it can be built: the macro VERSION chooses  *)
(* one of the three synchronisation schemes, and with it the fields of     *)
(* struct sync and the bodies of the four functions that use them.         *)
(***************************************************************************)
EXTENDS RoundsProgram

VARIABLES version,
          producerSem, consumerSems,           \* of version A
          consumerEvents, producerEvents,      \* of version B
          firstDoor, secondDoor, producerDoor, firstRoom, secondRoom,  \* of C
          i                                    \* the loops of A and B

ofA  == <<producerSem, consumerSems>>
ofB  == <<consumerEvents, producerEvents>>
ofC  == <<firstDoor, secondDoor, producerDoor, firstRoom, secondRoom>>
vars == <<common, version, ofA, ofB, ofC, i>>

A == INSTANCE RoundsSemaphores
B == INSTANCE RoundsEvents
C == INSTANCE RoundsDoors

Init == version \in {"A", "B", "C"} /\ A!Init /\ B!Init /\ C!Init

Next ==
  /\ \/ version = "A" /\ A!Next /\ UNCHANGED <<ofB, ofC>>
     \/ version = "B" /\ B!Next /\ UNCHANGED <<ofA, ofC>>
     \/ version = "C" /\ C!Next /\ UNCHANGED <<ofA, ofB, i>>
  /\ UNCHANGED version

Spec == Init /\ [][Next]_vars

\* All threads run: some thread that can go on does go on.
FairSpec == Spec /\ WF_vars(Next)
-----------------------------------------------------------------------------
\* In version A no release exceeds the maximum of its semaphore, so that
\* nobody takes the error exits; and the releases the producer still waits for
\* come from consumers that have not given theirs yet.
ReleasesFit == version = "A" => A!ReleasesFit

\* In version B no event is set while it is still set: no signal is lost.
NoLostSignal == B!NoLostSignal

\* In version C the counters count, although they are reset outside the
\* critical section, and the doors are never open together.
RoomsCount == version = "C" => C!RoomsCount
DoorsApart == version = "C" => C!DoorsApart

\* Every version implements the rounds (module Rounds).
InStep == Promise!Spec

\* Every version ends: main returns, after all consumers.
Ends == <>(ppc = "end")
=============================================================================
