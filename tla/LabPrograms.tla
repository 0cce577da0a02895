---------------------------- MODULE LabPrograms ----------------------------
(***************************************************************************)
(* The concurrent programs of the labs, one of which is chosen at the      *)
(* start: the kernel semaphore of lab06, whose module this one extends,    *)
(* and an instance of the module of every other program.  The programs     *)
(* that are not chosen stay in a state in which they may start.            *)
(***************************************************************************)
EXTENDS Semaphore, Sequences

CONSTANTS Student, Office, Nobody, QUEUE_MAXDIM,   \* of lab3.1
          nthreads, Size, Element,                 \* of lab4.2
          nReaders, Visits, Failure,               \* of lab10es03
          Operations, Ids,                         \* of lab11es01
          Producer, Taker, Dimension, Iterations,  \* of lab11es02
          Consumer, LastRecord,                    \* of lab12es01
          Lines,                                   \* of lab12es03
          nProcessing, RecordFiles, ReadOnly, Interval, MAXIMUM_WAIT_OBJECTS  \* of lab13es01

VARIABLE lab           \* the program that was chosen

Labs == {"semaphore", "offices", "sort", "comparator", "accounts", "queue", "rounds", "locks",
         "collector"}

VARIABLES normal_Q, special_Q, urgent_Q, answer_Q, normal, urgent, condlock, waiting,
          spc, ms, opc, info, xpc, xinfo, st_count
VARIABLES vet, runningThreadsSorting, sem1, sem2, swapsCount, sortAt, sortPosts
VARIABLES visit, left, entry, readerDone, terminate, readerSemaphore, comparatorSemaphore, rat,
          comparatorAt, loop, strToCompare, someContinue, someFinished, different
VARIABLES accountsVersion, amount, held, accountRecord, finished, accountsAt
VARIABLES messages, insertPosition, removePosition, nMessages, message_id, hand, iter, sleeping,
          received
VARIABLES version, number, done, got, ppc, cpc, producerSem, consumerSems, consumerEvents,
          producerEvents, firstDoor, secondDoor, producerDoor, firstRoom, secondRoom, i
VARIABLES lines, locks, clat, ci, svat, si, shown
VARIABLES records, next, record, pat, mutex, offset, rows, sem, cat, chunkN, nTerminated,
          rowsReady, printed

offices    == <<normal_Q, special_Q, urgent_Q, answer_Q, normal, urgent, condlock, waiting,
                spc, ms, opc, info, xpc, xinfo, st_count>>
sort       == <<vet, runningThreadsSorting, sem1, sem2, swapsCount, sortAt, sortPosts>>
comparator == <<visit, left, entry, readerDone, terminate, readerSemaphore, comparatorSemaphore,
                rat, comparatorAt, loop, strToCompare, someContinue, someFinished, different>>
accounts   == <<accountsVersion, amount, held, accountRecord, finished, accountsAt>>
queue      == <<messages, insertPosition, removePosition, nMessages, message_id, hand, iter,
                sleeping, received>>
rounds     == <<version, number, done, got, ppc, cpc, producerSem, consumerSems, consumerEvents,
                producerEvents, firstDoor, secondDoor, producerDoor, firstRoom, secondRoom, i>>
locked     == <<lines, locks, clat, ci, svat, si, shown>>
collector  == <<records, next, record, pat, mutex, offset, rows, sem, cat, chunkN, nTerminated,
                rowsReady, printed>>
labVars    == <<lab, vars, offices, sort, comparator, accounts, queue, rounds, locked, collector>>

O == INSTANCE Offices WITH count <- st_count

B == INSTANCE BarrierSort WITH at <- sortAt, posts <- sortPosts

C == INSTANCE Comparator WITH done <- readerDone, cat <- comparatorAt, i <- loop

A == INSTANCE Accounts WITH version <- accountsVersion, done <- finished, at <- accountsAt

Q == INSTANCE MessageQueue WITH Consumer <- Taker

R == INSTANCE RoundsVersions WITH Last <- LastRecord

L == INSTANCE LineLocks

K == INSTANCE Collector

\* the assumptions of the modules about what they are given above
ASSUME LabAssumption ==
  /\ O!OfficesAssumption /\ B!SortAssumption /\ C!ComparatorAssumption /\ Q!QueueAssumption
  /\ A!AccountsAssumption /\ R!ProgramAssumption /\ K!CollectorAssumption

-----------------------------------------------------------------------------
LabInit ==
  /\ lab \in Labs
  /\ Init /\ O!Init /\ Q!Init /\ L!Init
  /\ B!Init /\ (lab # "sort" => vet = [n \in B!Index |-> 1])
  /\ C!Init /\ (lab # "comparator" => visit = [r \in C!Reader |-> CHOOSE v \in Visits : TRUE])
  /\ A!Init /\ (lab # "accounts" => accountsVersion = "A")
  /\ R!Init /\ (lab # "rounds" => version = "A" /\ ~done)
  /\ K!Init /\ (lab # "collector" => records = CHOOSE f \in RecordFiles : TRUE)

LabNext ==
  /\ UNCHANGED lab
  /\ lab # "semaphore"  => UNCHANGED vars
  /\ lab # "offices"    => UNCHANGED offices
  /\ lab # "sort"       => UNCHANGED sort
  /\ lab # "comparator" => UNCHANGED comparator
  /\ lab # "accounts"   => UNCHANGED accounts
  /\ lab # "queue"      => UNCHANGED queue
  /\ lab # "rounds"     => UNCHANGED rounds
  /\ lab # "locks"      => UNCHANGED locked
  /\ lab # "collector"  => UNCHANGED collector
  /\ \/ lab = "semaphore"  /\ Next
     \/ lab = "offices"    /\ O!Next
     \/ lab = "sort"       /\ B!Next
     \/ lab = "comparator" /\ C!Next
     \/ lab = "accounts"   /\ A!Next
     \/ lab = "queue"      /\ Q!Next
     \/ lab = "rounds"     /\ R!Next
     \/ lab = "locks"      /\ L!Next
     \/ lab = "collector"  /\ K!Next

\* The fairness that each module states, for the program that runs.
LabFairness ==
  /\ \A p \in Proc : WF_vars(lab = "semaphore" /\ InCall(p))
  /\ \A s \in Student : SF_offices(lab = "offices" /\ O!Running /\ O!StudentStep(s))
  /\ \A o \in Office : SF_offices(lab = "offices" /\ O!Running /\ O!OfficeStep(o))
  /\ WF_offices(lab = "offices" /\ O!Running /\ O!SpecialStep)
  /\ \A t \in B!Thread : WF_sort(lab = "sort" /\ B!Step(t))
  /\ \A r \in C!Reader : WF_comparator(lab = "comparator" /\ C!ReaderStep(r))
  /\ WF_comparator(lab = "comparator" /\ C!ComparatorStep)
  /\ \A t \in A!Thread : WF_accounts(lab = "accounts" /\ A!Step(t))
  /\ \A p \in Producer : WF_queue(lab = "queue" /\ Q!Produce(p))
  /\ \A c \in Taker : WF_queue(lab = "queue" /\ Q!Consume(c))
  /\ WF_rounds(lab = "rounds" /\ R!Next)
  /\ WF_locked(lab = "locks" /\ L!ClientStep) /\ WF_locked(lab = "locks" /\ L!ServerStep)
  /\ \A t \in K!Thread : WF_collector(lab = "collector" /\ K!ThreadStep(t))
  /\ WF_collector(lab = "collector" /\ K!CollectorStep)

LabSpec == LabInit /\ [][LabNext]_labVars /\ LabFairness
-----------------------------------------------------------------------------
(* What each program must do, over what its own module says of it.  The     *)
(* properties of the kernel semaphore are those of module Semaphore.        *)

\* lab12es01: no release exceeds its semaphore, the rooms count the consumers
\* in them, and the doors are never open together.
RoundsInv == R!ReleasesFit /\ R!RoomsCount /\ R!DoorsApart

\* lab12es01: whatever the synchronisation, all consumers work on every record
\* once and together, and no event is set twice before it is waited for.
InStep == R!InStep /\ R!NoLostSignal

\* lab11es02: the messages come out of the circular queue in the order in
\* which they went in, and never more of them are in it than it has places.
QueueIsFifo == Q!IsFifo

\* lab3.1: the counters that the offices wait for are the lengths of their
\* queues, and a student is in one place at a time, an urgent one at the office
\* that had served it.
OfficesInv == O!CountersInv /\ O!OnePlace

\* lab4.2: two barriers keep the threads in the same turn around the shared
\* swapsCount, and the array is sorted when the first thread leaves.
SortInv == B!InTheSameTurn

\* lab10es03, when every directory can be read: the comparator looks when every
\* reader is blocked, and it answers "different" exactly when two visits are.
AnswerIsRight == C!AnswerIsRight

\* The programs that hand data from thread to thread: the collector of lab13es01
\* is told of rows that are there, the server of lab12es03 shows complete lines
\* in order, the threads of lab11es01 lose no update of an account, and the
\* queue of lab11es02 neither loses nor doubles a message.
NothingLost == K!RowsAreThere /\ L!ShownInOrder /\ A!NoLostUpdate /\ Q!ExactlyOnce

=============================================================================
