------------------------------ MODULE Offices ------------------------------
(***************************************************************************)
(* lab03/lab3.1.c: students, offices and one special office that talk      *)
(* through bounded queues.  A student queues for any office, is served,    *)
(* and is either finished or sent to the special office and back, as       *)
(* urgent, to the office that had served it.                               *)
(*                                                                         *)
(* cond->lock protects the counters and the condition that the offices     *)
(* wait for; it is held across send() to normal_Q and urgent_Q and across  *)
(* receive() from them, so that a send to a full queue blocks inside it.   *)
(* send() and receive() are steps of a bounded queue (enqueue and dequeue  *)
(* of module MessageQueue are the same algorithm).                         *)
(***************************************************************************)
EXTENDS Integers, Sequences, FiniteSets

CONSTANTS Student, Office, Nobody,
          QUEUE_MAXDIM

OfficesAssumption ==
  /\ IsFiniteSet(Student) /\ IsFiniteSet(Office) /\ Nobody \notin Student \cup Office
  /\ QUEUE_MAXDIM \in Nat \ {0}

VARIABLES
  normal_Q, special_Q, urgent_Q, answer_Q,  \* the queues
  normal, urgent,  \* the counters of struct Cond
  condlock,        \* the holder of cond->lock
  waiting,         \* the offices inside pthread_cond_wait
  spc, ms,         \* where each student is; the office it remembers
  opc, info,       \* where each office is; the student it serves
  xpc, xinfo,      \* the same for the special office
  count            \* st_count.count

queues   == <<normal_Q, special_Q, urgent_Q, answer_Q>>
cond     == <<normal, urgent, condlock, waiting>>
students == <<spc, ms, count>>
offices  == <<opc, info>>
special  == <<xpc, xinfo>>
vars     == <<queues, cond, students, offices, special>>

None == [id |-> Nobody, office_no |-> Nobody, urgent |-> FALSE]
Msg(s, o, u) == [id |-> s, office_no |-> o, urgent |-> u]

Room(q) == Len(q) < QUEUE_MAXDIM

SGoto(s, l) == spc' = [spc EXCEPT ![s] = l]
OGoto(o, l) == opc' = [opc EXCEPT ![o] = l]

\* send(answer_Q[s], m)
Answer(s, m) == /\ Room(answer_Q[s])
                /\ answer_Q' = [answer_Q EXCEPT ![s] = Append(@, m)]

Init ==
  /\ normal_Q = <<>> /\ special_Q = <<>>
  /\ urgent_Q = [o \in Office |-> <<>>] /\ answer_Q = [s \in Student |-> <<>>]
  /\ normal = 0 /\ urgent = [o \in Office |-> 0]
  /\ condlock = Nobody /\ waiting = {}
  /\ spc = [s \in Student |-> "arrives"] /\ ms = [s \in Student |-> Nobody]
  /\ opc = [o \in Office |-> "free"] /\ info = [o \in Office |-> None]
  /\ xpc = "free" /\ xinfo = None
  /\ count = Cardinality(Student)

-----------------------------------------------------------------------------
(* studentFunction *)

StudentLocks(s) ==
  /\ spc[s] \in {"arrives", "returns"} /\ condlock = Nobody
  /\ condlock' = s
  /\ SGoto(s, IF spc[s] = "arrives" THEN "queues" ELSE "requeues")
  /\ UNCHANGED <<queues, normal, urgent, waiting, ms, count, offices, special>>

\* no broadcast
StudentQueues_Silent(s) ==
  /\ spc[s] = "queues" /\ Room(normal_Q)
  /\ normal_Q' = Append(normal_Q, Msg(s, Nobody, FALSE))
  /\ normal' = normal + 1 /\ condlock' = Nobody
  /\ SGoto(s, "selected")
  /\ UNCHANGED <<special_Q, urgent_Q, answer_Q, urgent, waiting, ms, count, offices,
                 special>>

\* send(normal_Q, st_info); normal++; broadcast; unlock
StudentQueues(s) ==
  /\ spc[s] = "queues" /\ Room(normal_Q)
  /\ normal_Q' = Append(normal_Q, Msg(s, Nobody, FALSE))
  /\ normal' = normal + 1 /\ waiting' = {} /\ condlock' = Nobody
  /\ SGoto(s, "selected")
  /\ UNCHANGED <<special_Q, urgent_Q, answer_Q, urgent, ms, count, offices, special>>

\* the returning student queues at any office
StudentRequeues_Any(s) ==
  /\ spc[s] = "requeues"
  /\ \E o \in Office :
       /\ Room(urgent_Q[o])
       /\ urgent_Q' = [urgent_Q EXCEPT ![o] = Append(@, Msg(s, ms[s], TRUE))]
       /\ urgent' = [urgent EXCEPT ![o] = @ + 1]
  /\ waiting' = {} /\ condlock' = Nobody
  /\ SGoto(s, "readmitted")
  /\ UNCHANGED <<normal_Q, special_Q, answer_Q, normal, ms, count, offices, special>>

\* the same on the urgent queue of the office that has served the student
StudentRequeues(s) ==
  /\ spc[s] = "requeues" /\ Room(urgent_Q[ms[s]])
  /\ urgent_Q' = [urgent_Q EXCEPT ![ms[s]] = Append(@, Msg(s, ms[s], TRUE))]
  /\ urgent' = [urgent EXCEPT ![ms[s]] = @ + 1] /\ waiting' = {} /\ condlock' = Nobody
  /\ SGoto(s, "readmitted")
  /\ UNCHANGED <<normal_Q, special_Q, answer_Q, normal, ms, count, offices, special>>

\* response = receive(answer_Q[i]), and what the student does with it
StudentReceives(s) ==
  LET response == Head(answer_Q[s])
  IN  /\ spc[s] \in {"selected", "served", "accepted", "examined", "readmitted", "final"}
      /\ answer_Q[s] # <<>> /\ answer_Q' = [answer_Q EXCEPT ![s] = Tail(@)]
      /\ SGoto(s, CASE spc[s] = "selected"   -> "served"
                    [] spc[s] = "served"     -> IF response.office_no # Nobody
                                                THEN "leaves" ELSE "sent"
                    [] spc[s] = "accepted"   -> "examined"
                    [] spc[s] = "examined"   -> "returns"
                    [] spc[s] = "readmitted" -> "final"
                    [] spc[s] = "final"      -> "leaves")
      /\ ms' = IF spc[s] = "selected" THEN [ms EXCEPT ![s] = response.office_no] ELSE ms
      /\ UNCHANGED <<normal_Q, special_Q, urgent_Q, cond, count, offices, special>>

StudentToSpecial(s) ==
  /\ spc[s] = "sent" /\ Room(special_Q)
  /\ special_Q' = Append(special_Q, Msg(s, ms[s], FALSE)) /\ SGoto(s, "accepted")
  /\ UNCHANGED <<normal_Q, urgent_Q, answer_Q, cond, ms, count, offices, special>>

\* the last one ends the program
StudentLeaves(s) ==
  /\ spc[s] = "leaves" /\ count' = count - 1 /\ SGoto(s, "gone")
  /\ UNCHANGED <<queues, cond, ms, offices, special>>

-----------------------------------------------------------------------------
(* officeFunction *)

OfficeLocks(o) ==
  /\ opc[o] = "free" /\ o \notin waiting /\ condlock = Nobody
  /\ condlock' = o /\ OGoto(o, "choosing")
  /\ UNCHANGED <<queues, normal, urgent, waiting, students, info, special>>

OfficeWaits(o) ==
  /\ opc[o] = "choosing" /\ normal = 0 /\ urgent[o] = 0
  /\ waiting' = waiting \cup {o} /\ condlock' = Nobody /\ OGoto(o, "free")
  /\ UNCHANGED <<queues, normal, urgent, students, info, special>>

\* pthread_cond_wait may return without a broadcast
OfficeWakesUp(o) ==
  /\ o \in waiting /\ waiting' = waiting \ {o}
  /\ UNCHANGED <<queues, normal, urgent, condlock, students, offices, special>>

OfficeTakesUrgent(o) ==
  /\ opc[o] = "choosing" /\ urgent[o] > 0 /\ urgent_Q[o] # <<>>
  /\ urgent' = [urgent EXCEPT ![o] = @ - 1]
  /\ info' = [info EXCEPT ![o] = Head(urgent_Q[o])]
  /\ urgent_Q' = [urgent_Q EXCEPT ![o] = Tail(@)]
  /\ condlock' = Nobody /\ OGoto(o, "accepts")
  /\ UNCHANGED <<normal_Q, special_Q, answer_Q, normal, waiting, students, special>>

\* the counter not lowered
OfficeTakesNormal_NoCount(o) ==
  /\ opc[o] = "choosing" /\ urgent[o] = 0 /\ normal > 0 /\ normal_Q # <<>>
  /\ info' = [info EXCEPT ![o] = Head(normal_Q)] /\ normal_Q' = Tail(normal_Q)
  /\ condlock' = Nobody /\ OGoto(o, "accepts")
  /\ UNCHANGED <<special_Q, urgent_Q, answer_Q, normal, urgent, waiting, students,
                 special>>

OfficeTakesNormal(o) ==
  /\ opc[o] = "choosing" /\ urgent[o] = 0 /\ normal > 0 /\ normal_Q # <<>>
  /\ normal' = normal - 1
  /\ info' = [info EXCEPT ![o] = Head(normal_Q)] /\ normal_Q' = Tail(normal_Q)
  /\ condlock' = Nobody /\ OGoto(o, "accepts")
  /\ UNCHANGED <<special_Q, urgent_Q, answer_Q, urgent, waiting, students, special>>

OfficeAccepts(o) ==
  /\ opc[o] = "accepts" /\ Answer(info[o].id, Msg(info[o].id, o, FALSE))
  /\ OGoto(o, "serves")
  /\ UNCHANGED <<normal_Q, special_Q, urgent_Q, cond, students, info, special>>

\* an urgent student is not sent to the special office again
OfficeAnswers(o) ==
  /\ opc[o] = "serves"
  /\ \E office_no \in {o} \cup (IF info[o].urgent THEN {} ELSE {Nobody}) :
       Answer(info[o].id, Msg(info[o].id, office_no, FALSE))
  /\ OGoto(o, "free") /\ info' = [info EXCEPT ![o] = None]
  /\ UNCHANGED <<normal_Q, special_Q, urgent_Q, cond, students, special>>

-----------------------------------------------------------------------------
(* officeSpecialFunction *)

SpecialReceives ==
  /\ xpc = "free" /\ special_Q # <<>>
  /\ xinfo' = Head(special_Q) /\ special_Q' = Tail(special_Q) /\ xpc' = "accepts"
  /\ UNCHANGED <<normal_Q, urgent_Q, answer_Q, cond, students, offices>>

SpecialAccepts ==
  /\ xpc = "accepts" /\ Answer(xinfo.id, Msg(xinfo.id, xinfo.office_no, FALSE))
  /\ xpc' = "serves"
  /\ UNCHANGED <<normal_Q, special_Q, urgent_Q, cond, students, offices, xinfo>>

SpecialAnswers ==
  /\ xpc = "serves" /\ Answer(xinfo.id, Msg(xinfo.id, xinfo.office_no, TRUE))
  /\ xpc' = "free" /\ xinfo' = None
  /\ UNCHANGED <<normal_Q, special_Q, urgent_Q, cond, students, offices>>

-----------------------------------------------------------------------------
StudentStep(s) == \/ StudentLocks(s) \/ StudentQueues(s) \/ StudentRequeues(s)
                  \/ StudentReceives(s) \/ StudentToSpecial(s) \/ StudentLeaves(s)
OfficeStep(o) == \/ OfficeLocks(o) \/ OfficeWaits(o) \/ OfficeTakesUrgent(o)
                 \/ OfficeTakesNormal(o) \/ OfficeAccepts(o) \/ OfficeAnswers(o)
SpecialStep == SpecialReceives \/ SpecialAccepts \/ SpecialAnswers

\* exit(0) by the last student stops everything
Running == count > 0

Next == Running /\ \/ \E s \in Student : StudentStep(s)
                   \/ \E o \in Office : OfficeStep(o) \/ OfficeWakesUp(o)
                   \/ SpecialStep

Spec == Init /\ [][Next]_vars

\* Every thread runs, and gets the mutex when it goes on asking for it.
FairSpec == /\ Spec
            /\ \A s \in Student : SF_vars(Running /\ StudentStep(s))
            /\ \A o \in Office : SF_vars(Running /\ OfficeStep(o))
            /\ WF_vars(Running /\ SpecialStep)
-----------------------------------------------------------------------------
\* The counters, which decide whether an office waits, are the lengths of the
\* queues whenever the lock is free.
CountersInv ==
  condlock = Nobody => /\ normal = Len(normal_Q)
                       /\ \A o \in Office : urgent[o] = Len(urgent_Q[o])

\* A student is in one place at a time: queued once, or at one office, and
\* only while it waits for an answer; an urgent one is at its own office.
Places(s) ==
  {<<"normal", k>> : k \in {k \in 1..Len(normal_Q) : normal_Q[k].id = s}} \cup
  {<<"special", k>> : k \in {k \in 1..Len(special_Q) : special_Q[k].id = s}} \cup
  (UNION {{<<o, k>> : k \in {k \in 1..Len(urgent_Q[o]) : urgent_Q[o][k].id = s}}
            : o \in Office}) \cup
  {<<o, 0>> : o \in {o \in Office : info[o].id = s}} \cup
  (IF xinfo.id = s THEN {<<"special", 0>>} ELSE {})

OnePlace ==
  /\ \A s \in Student :
       /\ Cardinality(Places(s)) <= 1
       /\ Places(s) # {} => spc[s] \in {"selected", "served", "accepted", "examined",
                                        "readmitted", "final"}
       /\ spc[s] \in {"selected", "accepted", "readmitted"} /\ answer_Q[s] = <<>>
            => Places(s) # {}
  /\ \A o \in Office : info[o].urgent => ms[info[o].id] = o

\* Every student is served: the last one ends the program.
AllServed == <>(count = 0)
=============================================================================
