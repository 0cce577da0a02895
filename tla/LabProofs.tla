----------------------------- MODULE LabProofs -----------------------------
(***************************************************************************)
(* The theorems about the programs of labs 3 to 10, each for every value   *)
(* of its constants: the kernel semaphore of lab06, the offices of lab3.1, *)
(* the sort of lab4.2 and the comparator of lab10es03.  What a program     *)
(* does by itself it does in module LabPrograms, where a behaviour is one  *)
(* of the program that was chosen, and leaves the others at their start.   *)
(***************************************************************************)
EXTENDS LabPrograms, FiniteSetTheorems, SequenceTheorems, TLAPS

-----------------------------------------------------------------------------
(* Facts that the programs need. *)

\* A function that is changed in one place.
LEMMA Update ==
  ASSUME NEW D, NEW E, NEW f \in [D -> E], NEW x \in D, NEW y \in E, NEW g,
         g = [f EXCEPT ![x] = y]
  PROVE  g \in [D -> E] /\ g[x] = y /\ \A z \in D \ {x} : g[z] = f[z]
OBVIOUS

\* A finite set of numbers has a least one.
LEMMA LeastExists ==
  ASSUME NEW S \in SUBSET Int, IsFiniteSet(S), S # {}
  PROVE  \E x \in S : \A y \in S : x <= y
<1> DEFINE To(x) == {y \in S : y <= x}
           T     == {To(x) : x \in S}
<1>1. IsWellFoundedOn(StrictSubsetOrdering(S), SUBSET S)
  BY FS_StrictSubsetOrderingWellFounded, FS_FiniteSubsetsOfFinite, Zenon
<1>2. T \subseteq SUBSET S /\ T # {}
  OBVIOUS
<1>3. PICK U \in T : \A V \in T : <<V, U>> \notin StrictSubsetOrdering(S)
  <2> HIDE DEF T
  <2> QED BY <1>1, <1>2, WFMin, Zenon
<1>4. PICK x \in S : U = To(x)
  BY <1>3
<1>5. ASSUME NEW y \in S, y < x PROVE FALSE
  <2>1. To(y) \in T /\ To(y) \subseteq S /\ To(x) \subseteq S
    OBVIOUS
  <2>2. x \in To(x) /\ x \notin To(y)
    BY <1>5
  <2>3. To(y) \subseteq To(x)
    <3>1. ASSUME NEW z \in S, z <= y PROVE z <= x
      <4>1. z \in Int /\ y \in Int /\ x \in Int
        OBVIOUS
      <4> QED BY <1>5, <3>1, <4>1
    <3> QED BY <3>1
  <2>4. To(y) # To(x)
    BY <2>2
  <2> HIDE DEF To
  <2>5. <<To(y), To(x)>> \in StrictSubsetOrdering(S)
    BY <2>1, <2>3, <2>4 DEF StrictSubsetOrdering
  <2> QED BY <1>3, <1>4, <2>1, <2>5
<1>6. \A y \in S : x <= y
  BY <1>4, <1>5
<1> QED BY <1>4, <1>6

\* The same of the greatest.
LEMMA GreatestExists ==
  ASSUME NEW S \in SUBSET Int, IsFiniteSet(S), S # {}
  PROVE  \E x \in S : \A y \in S : y <= x
<1> DEFINE To(x) == {y \in S : y >= x}
           T     == {To(x) : x \in S}
<1>1. IsWellFoundedOn(StrictSubsetOrdering(S), SUBSET S)
  BY FS_StrictSubsetOrderingWellFounded, FS_FiniteSubsetsOfFinite, Zenon
<1>2. T \subseteq SUBSET S /\ T # {}
  OBVIOUS
<1>3. PICK U \in T : \A V \in T : <<V, U>> \notin StrictSubsetOrdering(S)
  <2> HIDE DEF T
  <2> QED BY <1>1, <1>2, WFMin, Zenon
<1>4. PICK x \in S : U = To(x)
  BY <1>3
<1>5. ASSUME NEW y \in S, y > x PROVE FALSE
  <2>1. To(y) \in T /\ To(y) \subseteq S /\ To(x) \subseteq S
    OBVIOUS
  <2>2. x \in To(x) /\ x \notin To(y)
    BY <1>5
  <2>3. To(y) \subseteq To(x)
    <3>1. ASSUME NEW z \in S, z >= y PROVE z >= x
      <4>1. z \in Int /\ y \in Int /\ x \in Int
        OBVIOUS
      <4> QED BY <1>5, <3>1, <4>1
    <3> QED BY <3>1
  <2>4. To(y) # To(x)
    BY <2>2
  <2> HIDE DEF To
  <2>5. <<To(y), To(x)>> \in StrictSubsetOrdering(S)
    BY <2>1, <2>3, <2>4 DEF StrictSubsetOrdering
  <2> QED BY <1>3, <1>4, <2>1, <2>5
<1>6. \A y \in S : y <= x
  BY <1>4, <1>5
<1> QED BY <1>4, <1>6

\* Division with a remainder.
LEMMA DivMod ==
  ASSUME NEW x \in Int, NEW n \in Nat \ {0}
  PROVE /\ x % n \in 0..n - 1 /\ x \div n \in Int
        /\ x = (n * (x \div n)) + (x % n)
OBVIOUS

-----------------------------------------------------------------------------
(* lab06: one kernel semaphore. *)

\* The semaphore's state is always of the types struct semaphore gives it;
\* in particular tokens never goes below zero (lab06/src/file.c, sem_wait).
THEOREM TypeCorrect == Spec => []TypeOK
<1>1. Init => TypeOK
  BY SemAssumption DEF Init, TypeOK, PCs
<1>2. TypeOK /\ [Next]_vars => TypeOK'
  BY SemAssumption DEF TypeOK, PCs, Next, Wait, Post, WaitEnter, WaitSleep, WaitResume,
     WaitTake, PostEnter, PostWake, Kill, Goto, NoToken, vars
<1>3. QED
  BY <1>1, <1>2, PTL DEF Spec

\* The spinlock and the channel: LockInv and AsleepInv need no counting.
LEMMA LockStep ==
  TypeOK /\ LockInv /\ AsleepInv /\ [Next]_vars => LockInv' /\ AsleepInv'
BY SemAssumption DEF TypeOK, PCs, LockInv, AsleepInv, Next, Wait, Post, WaitEnter,
   WaitSleep, WaitResume, WaitTake, PostEnter, PostWake, Kill, Goto, NoToken, vars

\* The processes that wait can be counted.
LEMMA WaitersFinite ==
  /\ IsFiniteSet(Waiters)
  /\ Cardinality(Waiters) \in Nat
  /\ Waiters = {} <=> Cardinality(Waiters) = 0
<1>1. Waiters \subseteq Proc
  BY DEF Waiters
<1>2. IsFiniteSet(Waiters)
  BY <1>1, SemAssumption, FS_Subset
<1>3. QED
  BY <1>2, FS_CardinalityType, FS_EmptySet

\* A step changes the number of them together with tokens - count.
LEMMA WaitersStep ==
  ASSUME TypeOK, [Next]_vars
  PROVE  \/ Waiters' = Waiters /\ tokens' - count' = tokens - count
         \/ Cardinality(Waiters') = Cardinality(Waiters) + 1
            /\ tokens' - count' = tokens - count + 1
         \/ Cardinality(Waiters') = Cardinality(Waiters) - 1
            /\ tokens' - count' = tokens - count - 1
<1>1. ASSUME NEW p \in Proc, WaitEnter(p)
      PROVE  /\ Cardinality(Waiters') = Cardinality(Waiters) + 1
             /\ tokens' - count' = tokens - count + 1
  <2>1. p \notin Waiters /\ Waiters' = Waiters \cup {p}
    BY <1>1 DEF TypeOK, PCs, WaitEnter, Goto, Waiters
  <2>2. QED
    BY <1>1, <2>1, WaitersFinite, FS_AddElement, SMTT(60) DEF WaitEnter, TypeOK
<1>2. ASSUME NEW p \in Proc, WaitTake(p)
      PROVE  /\ Cardinality(Waiters') = Cardinality(Waiters) - 1
             /\ tokens' - count' = tokens - count - 1
  <2>1. p \in Waiters /\ Waiters' = Waiters \ {p}
    BY <1>2 DEF TypeOK, PCs, WaitTake, Goto, Waiters
  <2>2. QED
    BY <1>2, <2>1, WaitersFinite, FS_RemoveElement DEF WaitTake, TypeOK
<1>3. ASSUME NEW p \in Proc,
             WaitSleep(p) \/ WaitResume(p) \/ Post(p) \/ Kill(p)
      PROVE  Waiters' = Waiters /\ tokens' - count' = tokens - count
  BY <1>3 DEF TypeOK, PCs, WaitSleep, WaitResume, Post, PostEnter, PostWake, Kill,
     Goto, Waiters
<1>4. CASE UNCHANGED vars
  BY <1>4 DEF vars, Waiters
<1>5. QED
  BY <1>1, <1>2, <1>3, <1>4 DEF Next, Wait

\* count is the number of tokens minus the number of processes inside
\* sem_wait (file.c: "count--  // the count is updated immediately").
THEOREM CountCorrect == Spec => []CountInv
<1>1. Init => CountInv
  <2>1. Init => Waiters = {}
    BY DEF Init, Waiters
  <2>2. QED
    BY <2>1, FS_EmptySet, SemAssumption DEF Init, CountInv
<1>2. TypeOK /\ TypeOK' /\ CountInv /\ [Next]_vars => CountInv'
  BY WaitersStep, WaitersFinite DEF CountInv, TypeOK
<1>3. QED
  BY <1>1, <1>2, TypeCorrect, PTL DEF Spec

\* No wakeup is lost: unless a sem_post is about to call wakeup(), a process
\* sleeps on the channel only while there is no token (sem_post's test on
\* count never skips a wakeup that somebody needs).
THEOREM WakeupsAreNotLost == Spec => []NoLostWakeup
<1> DEFINE IInv == TypeOK /\ LockInv /\ AsleepInv /\ CountInv /\ NoLostWakeup
<1>1. Init => LockInv /\ AsleepInv /\ NoLostWakeup
  BY SemAssumption DEF Init, LockInv, AsleepInv, NoLostWakeup
<1>2. IInv /\ [Next]_vars => NoLostWakeup'
  <2> SUFFICES ASSUME IInv, [Next]_vars PROVE NoLostWakeup'
    OBVIOUS
  <2> USE DEF TypeOK, PCs, LockInv, AsleepInv, NoLostWakeup, Goto, NoToken,
             SomeoneWaiting
  <2>1. asleep # {} => Cardinality(Waiters) >= 1
    <3>1. asleep \subseteq Waiters
      BY DEF Waiters
    <3>2. QED
      BY <3>1, WaitersFinite
  <2>2. ASSUME NEW p \in Proc, Wait(p) PROVE NoLostWakeup'
    BY <2>2, SemAssumption DEF Wait, WaitEnter, WaitSleep, WaitResume, WaitTake
  <2>3. ASSUME NEW p \in Proc, PostEnter(p) PROVE NoLostWakeup'
    <3>1. asleep # {} => tokens = 0
      BY <2>3, SemAssumption DEF PostEnter
    <3>2. asleep # {} => count + 1 <= 0
      BY <3>1, <2>1, WaitersFinite DEF CountInv
    <3>3. QED
      BY <2>3, <3>2 DEF PostEnter
  <2>4. ASSUME NEW p \in Proc, PostWake(p) PROVE NoLostWakeup'
    BY <2>4, SemAssumption DEF PostWake
  <2>5. ASSUME NEW p \in Proc, Kill(p) PROVE NoLostWakeup'
    BY <2>5 DEF Kill
  <2>6. CASE UNCHANGED vars
    BY <2>6 DEF vars
  <2>7. QED
    BY <2>2, <2>3, <2>4, <2>5, <2>6 DEF Next, Post
<1>3. QED
  BY <1>1, <1>2, LockStep, TypeCorrect, CountCorrect, PTL DEF Spec

\* sem_wait and sem_post implement a counting semaphore (its safety part):
\* every step grants one permit, asks for one, releases one, or is invisible.
THEOREM ImplementsCountingSemaphore == Spec => Abstract!Spec
<1>1. Init => Abstract!Init
  BY DEF Init, Abstract!Init, Waiters
<1>2. TypeOK /\ [Next]_vars => [Abstract!Next]_(Abstract!vars)
  <2> SUFFICES ASSUME TypeOK, [Next]_vars
               PROVE  [Abstract!Next]_(Abstract!vars)
    OBVIOUS
  <2> DEFINE Invisible == UNCHANGED Abstract!vars
  <2> USE DEF TypeOK, PCs, Goto, Waiters, Abstract!vars
  <2>1. ASSUME NEW p \in Proc, Wait(p)
        PROVE  Abstract!Ask(p) \/ Abstract!Grant(p) \/ Invisible
    <3>1. WaitEnter(p) => Abstract!Ask(p)
      BY DEF WaitEnter, Abstract!Ask
    <3>2. WaitTake(p) => Abstract!Grant(p)
      BY DEF WaitTake, NoToken, Abstract!Grant
    <3>3. WaitSleep(p) \/ WaitResume(p) => Invisible
      BY DEF WaitSleep, WaitResume
    <3> QED BY <2>1, <3>1, <3>2, <3>3 DEF Wait
  <2>2. ASSUME NEW p \in Proc, Post(p) PROVE Abstract!Release(p) \/ Invisible
    <3>1. PostEnter(p) => Abstract!Release(p)
      BY DEF PostEnter, Abstract!Release
    <3>2. PostWake(p) => Invisible
      BY DEF PostWake
    <3> QED BY <2>2, <3>1, <3>2 DEF Post
  <2>3. (\E p \in Proc : Kill(p)) \/ UNCHANGED vars => Invisible
    BY DEF Kill, vars
  <2> QED BY <2>1, <2>2, <2>3 DEF Next, Abstract!Next
<1>3. QED
  BY <1>1, <1>2, TypeCorrect, PTL DEF Spec, Abstract!Spec

\* The behaviours of the labs are behaviours of the kernel semaphore.
LEMMA LabHasSemaphore == LabSpec => Spec
<1>1. LabInit => Init
  BY Zenon DEF LabInit
<1>2. [LabNext]_labVars => [Next]_vars
  <2>1. ASSUME LabNext PROVE [Next]_vars
    BY <2>1, SMTT(10) DEF LabNext
  <2>2. UNCHANGED labVars => UNCHANGED vars
    BY Zenon DEF labVars
  <2> QED BY <2>1, <2>2
<1> QED BY <1>1, <1>2, PTL DEF LabSpec, Spec

-----------------------------------------------------------------------------
(* lab3.1: the students, the offices and the special office. *)

Message == [id : Student, office_no : Office \cup {Nobody}, urgent : BOOLEAN]

\* The students of the messages in a queue, and a queue that has each of them once.
Queued(q) == {q[k].id : k \in 1..Len(q)}
Once(q)   == \A j, k \in 1..Len(q) : q[j].id = q[k].id => j = k

\* Where a student waits for two more answers, for one, or for none.
WaitsForTwo == {"selected", "accepted", "readmitted"}
WaitsForOne == {"served", "examined", "final"}
WaitsForNone == {"arrives", "queues", "sent", "returns", "requeues", "leaves", "gone"}
StudentPlaces == WaitsForTwo \cup WaitsForOne \cup WaitsForNone

OfficeTypes ==
  /\ normal_Q \in Seq(Message) /\ special_Q \in Seq(Message)
  /\ urgent_Q \in [Office -> Seq(Message)] /\ answer_Q \in [Student -> Seq(Message)]
  /\ spc \in [Student -> StudentPlaces]
  /\ ms \in [Student -> Office \cup {Nobody}]
  /\ opc \in [Office -> {"free", "choosing", "accepts", "serves"}]
  /\ info \in [Office -> Message \cup {O!None}]
  /\ \A o \in Office : info[o] \in Message <=> opc[o] \in {"accepts", "serves"}
  /\ xpc \in {"free", "accepts", "serves"} /\ xinfo \in Message \cup {O!None}
  /\ xinfo \in Message <=> xpc # "free"

\* The counters are the lengths, and a student is in a queue once.
OfficeQueues ==
  /\ normal = Len(normal_Q) /\ urgent \in [Office -> Nat]
  /\ \A o \in Office : urgent[o] = Len(urgent_Q[o])
  /\ Once(normal_Q) /\ Once(special_Q) /\ \A o \in Office : Once(urgent_Q[o])
  /\ \A k \in 1..Len(normal_Q) : ~normal_Q[k].urgent

HasPlace(s) ==
  \/ s \in Queued(normal_Q) \/ s \in Queued(special_Q) \/ xinfo.id = s
  \/ \E o \in Office : s \in Queued(urgent_Q[o]) \/ info[o].id = s

\* A student is in one place, and has the answers that were given there.
InQueue(s) ==
  /\ s \in Queued(normal_Q) =>
       spc[s] = "selected" /\ Len(answer_Q[s]) = 0 /\ \A o \in Office : info[o].id # s
  /\ s \in Queued(special_Q) =>
       spc[s] = "accepted" /\ Len(answer_Q[s]) = 0 /\ xinfo.id # s
  /\ \A o \in Office : s \in Queued(urgent_Q[o]) =>
       /\ spc[s] = "readmitted" /\ Len(answer_Q[s]) = 0 /\ ms[s] = o
       /\ \A p \in Office : info[p].id # s

AtOffice(s) ==
  /\ \A o \in Office : info[o].id = s =>
       /\ opc[o] = "accepts" =>
            spc[s] \in {"selected", "readmitted"} /\ Len(answer_Q[s]) = 0
       /\ opc[o] = "serves" =>
            \/ spc[s] \in {"selected", "readmitted"} /\ Len(answer_Q[s]) = 1
            \/ spc[s] \in {"served", "final"} /\ Len(answer_Q[s]) = 0
       /\ info[o].urgent => spc[s] \in {"readmitted", "final"} /\ ms[s] = o
  /\ \A o, p \in Office : info[o].id = s /\ info[p].id = s => o = p
  /\ xinfo.id = s =>
       /\ xpc = "accepts" => spc[s] = "accepted" /\ Len(answer_Q[s]) = 0
       /\ xpc = "serves" => \/ spc[s] = "accepted" /\ Len(answer_Q[s]) = 1
                            \/ spc[s] = "examined" /\ Len(answer_Q[s]) = 0

HasAnswers(s) ==
  /\ spc[s] \in WaitsForNone => Len(answer_Q[s]) = 0
  /\ spc[s] \in WaitsForOne => Len(answer_Q[s]) <= 1
  /\ spc[s] \in WaitsForTwo /\ Len(answer_Q[s]) = 0 => HasPlace(s)
  /\ Len(answer_Q[s]) <= 2
  /\ spc[s] = "selected" /\ Len(answer_Q[s]) > 0 => answer_Q[s][1].office_no \in Office
  /\ spc[s] \in {"served", "sent", "accepted", "examined", "returns", "requeues", "readmitted",
                 "final"} => ms[s] \in Office

StudentInv(s) == InQueue(s) /\ AtOffice(s) /\ HasAnswers(s)

PlacesInv == OfficeTypes /\ OfficeQueues /\ \A s \in Student : StudentInv(s)

\* A message at the end of a queue.
LEMMA AppendQueued ==
  ASSUME NEW q \in Seq(Message), NEW m \in Message
  PROVE  /\ Append(q, m) \in Seq(Message) /\ Len(Append(q, m)) = Len(q) + 1
         /\ Queued(Append(q, m)) = Queued(q) \cup {m.id}
         /\ Once(q) /\ m.id \notin Queued(q) => Once(Append(q, m))
         /\ \A k \in 1..Len(q) : Append(q, m)[k] = q[k]
         /\ Append(q, m)[Len(q) + 1] = m
<1>1. /\ Append(q, m) \in Seq(Message) /\ Len(Append(q, m)) = Len(q) + 1 /\ Len(q) \in Nat
      /\ \A k \in 1..Len(q) : Append(q, m)[k] = q[k]
      /\ Append(q, m)[Len(q) + 1] = m
  BY AppendProperties, LenProperties
<1>2. 1..Len(q) + 1 = (1..Len(q)) \cup {Len(q) + 1} /\ Len(q) + 1 \notin 1..Len(q)
  BY <1>1
<1>3. Queued(Append(q, m)) = Queued(q) \cup {m.id}
  <2>1. ASSUME NEW k \in 1..Len(q) + 1 PROVE Append(q, m)[k].id \in Queued(q) \cup {m.id}
    BY <1>1, <1>2, Zenon DEF Queued
  <2>2. ASSUME NEW k \in 1..Len(q) PROVE k \in 1..Len(q) + 1 /\ Append(q, m)[k].id = q[k].id
    BY <1>1, <1>2
  <2>3. Len(q) + 1 \in 1..Len(q) + 1
    BY <1>1
  <2> QED BY <1>1, <2>1, <2>2, <2>3 DEF Queued
<1>4. ASSUME Once(q), m.id \notin Queued(q) PROVE Once(Append(q, m))
  <2>1. ASSUME NEW j \in 1..Len(q) + 1, NEW k \in 1..Len(q) + 1,
               Append(q, m)[j].id = Append(q, m)[k].id
        PROVE  j = k
    <3>1. CASE j \in 1..Len(q) /\ k \in 1..Len(q)
      BY <1>1, <1>4, <2>1, <3>1, Zenon DEF Once
    <3>2. CASE j = Len(q) + 1 /\ k \in 1..Len(q)
      BY <1>1, <1>4, <2>1, <3>2, Zenon DEF Queued
    <3>3. CASE k = Len(q) + 1 /\ j \in 1..Len(q)
      BY <1>1, <1>4, <2>1, <3>3, Zenon DEF Queued
    <3>4. CASE k = Len(q) + 1 /\ j = Len(q) + 1
      BY <3>4
    <3> QED BY <1>2, <3>1, <3>2, <3>3, <3>4
  <2> QED BY <1>1, <2>1, Zenon DEF Once
<1> QED BY <1>1, <1>3, <1>4

\* The message at the head of a queue.
LEMMA TailQueued ==
  ASSUME NEW q \in Seq(Message), q # <<>>
  PROVE  /\ Tail(q) \in Seq(Message) /\ Len(Tail(q)) = Len(q) - 1 /\ Len(q) \in Nat /\ Len(q) > 0
         /\ Head(q) = q[1] /\ Head(q) \in Message
         /\ Queued(q) = Queued(Tail(q)) \cup {Head(q).id}
         /\ Once(q) => Once(Tail(q)) /\ Head(q).id \notin Queued(Tail(q))
         /\ \A k \in 1..Len(Tail(q)) : Tail(q)[k] = q[k + 1] /\ k + 1 \in 1..Len(q)
<1>1. /\ Tail(q) \in Seq(Message) /\ Len(Tail(q)) = Len(q) - 1 /\ Len(q) \in Nat /\ Len(q) > 0
      /\ Head(q) = q[1] /\ Head(q) \in Message
      /\ \A k \in 1..Len(Tail(q)) : Tail(q)[k] = q[k + 1]
  BY HeadTailProperties, LenProperties
<1>2. ASSUME NEW k \in 1..Len(q) PROVE k = 1 \/ (k - 1 \in 1..Len(Tail(q)) /\ (k - 1) + 1 = k)
  BY <1>1
<1>3. ASSUME NEW k \in 1..Len(Tail(q)) PROVE k + 1 \in 1..Len(q) /\ k + 1 # 1
  BY <1>1
<1>4. 1 \in 1..Len(q)
  BY <1>1
<1>5. Queued(q) = Queued(Tail(q)) \cup {Head(q).id}
  <2>1. ASSUME NEW k \in 1..Len(q) PROVE q[k].id \in Queued(Tail(q)) \cup {Head(q).id}
    <3>1. CASE k = 1
      BY <1>1, <3>1
    <3>2. CASE k - 1 \in 1..Len(Tail(q)) /\ (k - 1) + 1 = k
      BY <1>1, <3>2, Zenon DEF Queued
    <3> QED BY <1>2, <3>1, <3>2
  <2>2. ASSUME NEW k \in 1..Len(Tail(q)) PROVE Tail(q)[k].id \in Queued(q)
    BY <1>1, <1>3, Zenon DEF Queued
  <2>3. Head(q).id \in Queued(q)
    BY <1>1, <1>4, Zenon DEF Queued
  <2> QED BY <2>1, <2>2, <2>3 DEF Queued
<1>6. ASSUME Once(q) PROVE Once(Tail(q)) /\ Head(q).id \notin Queued(Tail(q))
  <2>1. ASSUME NEW j \in 1..Len(Tail(q)), NEW k \in 1..Len(Tail(q)),
               Tail(q)[j].id = Tail(q)[k].id
        PROVE  j = k
    <3>1. j + 1 = k + 1
      BY <1>1, <1>3, <1>6, <2>1, SMTT(60) DEF Once
    <3> QED BY <3>1
  <2>2. ASSUME NEW k \in 1..Len(Tail(q)) PROVE Tail(q)[k].id # Head(q).id
    BY <1>1, <1>3, <1>4, <1>6, Zenon DEF Once
  <2> QED BY <2>1, <2>2, Zenon DEF Once, Queued
<1> QED BY <1>1, <1>3, <1>5, <1>6

\* What a step leaves alone of a student.
SameStudent(t) ==
  /\ spc'[t] = spc[t] /\ ms'[t] = ms[t] /\ answer_Q'[t] = answer_Q[t]
  /\ t \in Queued(normal_Q)' <=> t \in Queued(normal_Q)
  /\ t \in Queued(special_Q)' <=> t \in Queued(special_Q)
  /\ \A o \in Office : t \in Queued(urgent_Q[o])' <=> t \in Queued(urgent_Q[o])
  /\ \A o \in Office : info'[o].id = t <=> info[o].id = t
  /\ \A o \in Office : info[o].id = t => opc'[o] = opc[o] /\ info'[o] = info[o]
  /\ xinfo'.id = t <=> xinfo.id = t
  /\ xinfo.id = t => xpc' = xpc

\* A student that is left alone keeps its invariant.
LEMMA SameKeeps == ASSUME NEW t, StudentInv(t), SameStudent(t) PROVE StudentInv(t)'
<1>1. HasPlace(t)' <=> HasPlace(t)
  BY Zenon DEF SameStudent, HasPlace
<1>2. InQueue(t)'
  BY Zenon DEF SameStudent, StudentInv, InQueue
<1>3. AtOffice(t)'
  BY Zenon DEF SameStudent, StudentInv, AtOffice
<1>4. HasAnswers(t)'
  BY <1>1, Zenon DEF SameStudent, StudentInv, HasAnswers
<1> QED BY <1>2, <1>3, <1>4 DEF StudentInv

\* What a message says.
LEMMA MessageIs ==
  ASSUME NEW s \in Student, NEW o \in Office \cup {Nobody}, NEW u \in BOOLEAN
  PROVE  /\ O!Msg(s, o, u) \in Message /\ O!Msg(s, o, u).id = s
         /\ O!Msg(s, o, u).office_no = o /\ O!Msg(s, o, u).urgent = u
BY DEF Message, O!Msg

\* Nobody is a student or an office.
LEMMA OfficeConstants ==
  /\ Nobody \notin Student /\ Nobody \notin Office
  /\ O!None.id = Nobody /\ O!None \notin Message /\ ~O!None.urgent
  /\ \A m \in Message : m.id \in Student /\ m.id # Nobody /\ m.urgent \in BOOLEAN
  /\ QUEUE_MAXDIM \in Nat /\ QUEUE_MAXDIM > 0
<1>1. Nobody \notin Student \cup Office /\ QUEUE_MAXDIM \in Nat \ {0}
  BY LabAssumption DEF LabAssumption, O!OfficesAssumption
<1>2. O!None.id = Nobody /\ ~O!None.urgent
  BY DEF O!None
<1>3. \A m \in Message : m.id \in Student /\ m.urgent \in BOOLEAN
  BY DEF Message
<1> QED BY <1>1, <1>2, <1>3

\* Who is at an office.
LEMMA AtOfficeIs ==
  ASSUME PlacesInv, NEW o \in Office, NEW s \in Student
  PROVE  /\ info[o].id = s => info[o] \in Message /\ opc[o] \in {"accepts", "serves"}
         /\ opc[o] \in {"accepts", "serves"} => info[o] \in Message /\ info[o].id \in Student
<1>1. /\ info[o] \in Message \cup {O!None}
      /\ info[o] \in Message <=> opc[o] \in {"accepts", "serves"}
  BY DEF PlacesInv, OfficeTypes
<1> QED BY <1>1, OfficeConstants, Zenon

\* Who is at the special office.
LEMMA AtSpecialIs ==
  ASSUME PlacesInv, NEW s \in Student
  PROVE  /\ xinfo.id = s => xinfo \in Message /\ xpc \in {"accepts", "serves"}
         /\ xpc \in {"accepts", "serves"} => xinfo \in Message /\ xinfo.id \in Student
<1>1. /\ xpc \in {"free", "accepts", "serves"} /\ xinfo \in Message \cup {O!None}
      /\ xinfo \in Message <=> xpc # "free"
  BY DEF PlacesInv, OfficeTypes
<1>2. xpc \in {"accepts", "serves"} <=> xpc # "free"
  BY <1>1
<1> QED BY <1>1, <1>2, OfficeConstants, Zenon

\* A student in a place waits for an answer.
LEMMA PlaceIs ==
  ASSUME PlacesInv, NEW s \in Student, HasPlace(s)
  PROVE  spc[s] \in WaitsForTwo \cup WaitsForOne
<1>1. InQueue(s) /\ AtOffice(s)
  BY Zenon DEF PlacesInv, StudentInv
<1>2. CASE s \in Queued(normal_Q) \/ s \in Queued(special_Q)
  BY <1>1, <1>2 DEF InQueue, WaitsForTwo
<1>3. CASE \E o \in Office : s \in Queued(urgent_Q[o])
  BY <1>1, <1>3 DEF InQueue, WaitsForTwo
<1>4. CASE \E o \in Office : info[o].id = s
  <2>1. PICK o \in Office : info[o].id = s
    BY <1>4
  <2>2. opc[o] \in {"accepts", "serves"}
    BY <2>1, AtOfficeIs
  <2> QED BY <1>1, <2>1, <2>2 DEF AtOffice, WaitsForTwo, WaitsForOne
<1>5. CASE xinfo.id = s
  <2>1. xpc \in {"accepts", "serves"}
    BY <1>5, AtSpecialIs
  <2> QED BY <1>1, <1>5, <2>1 DEF AtOffice, WaitsForTwo, WaitsForOne
<1> QED BY <1>2, <1>3, <1>4, <1>5, Zenon DEF HasPlace

\* So a student that waits for no answer is nowhere, and stays there.
LEMMA NowhereIs ==
  ASSUME PlacesInv, NEW s \in Student, spc[s] \in WaitsForNone
  PROVE  ~HasPlace(s) /\ Len(answer_Q[s]) = 0
<1>1. spc[s] \notin WaitsForTwo \cup WaitsForOne
  BY DEF WaitsForNone, WaitsForOne, WaitsForTwo
<1>2. HasAnswers(s)
  BY Zenon DEF PlacesInv, StudentInv
<1> QED BY <1>1, <1>2, PlaceIs, Zenon DEF HasAnswers

\* Its invariant follows from that.
LEMMA NowhereKeeps ==
  ASSUME NEW s \in Student, ~HasPlace(s)',
         spc'[s] \in WaitsForNone, Len(answer_Q'[s]) = 0,
         spc'[s] \in {"sent", "returns", "requeues"} => ms'[s] \in Office
  PROVE  StudentInv(s)'
<1>1. /\ spc'[s] \notin WaitsForTwo /\ spc'[s] # "selected"
      /\ spc'[s] \in {"served", "sent", "accepted", "examined", "returns", "requeues",
                      "readmitted", "final"} => spc'[s] \in {"sent", "returns", "requeues"}
      /\ Len(answer_Q'[s]) <= 1 /\ Len(answer_Q'[s]) <= 2
  BY DEF WaitsForNone, WaitsForTwo
<1>2. HasAnswers(s)'
  BY <1>1, Zenon DEF HasAnswers
<1>3. InQueue(s)' /\ AtOffice(s)'
  BY Zenon DEF InQueue, AtOffice, HasPlace
<1> QED BY <1>2, <1>3, Zenon DEF StudentInv

\* A student takes the lock, or leaves.
LEMMA StudentMovesKeep ==
  ASSUME PlacesInv, NEW s \in Student, O!StudentLocks(s) \/ O!StudentLeaves(s)
  PROVE  PlacesInv'
<1>1. PICK l \in {"queues", "requeues", "gone"} :
        /\ spc' = [spc EXCEPT ![s] = l]
        /\ l = "requeues" => spc[s] = "returns"
        /\ spc[s] \in {"arrives", "returns", "leaves"}
  <2>1. CASE O!StudentLocks(s)
    <3>1. /\ spc[s] \in {"arrives", "returns"}
          /\ spc' = [spc EXCEPT ![s] = IF spc[s] = "arrives" THEN "queues" ELSE "requeues"]
      BY <2>1, Zenon DEF O!StudentLocks, O!SGoto
    <3>2. CASE spc[s] = "arrives"
      BY <3>1, <3>2
    <3>3. CASE spc[s] = "returns"
      BY <3>1, <3>3
    <3> QED BY <3>1, <3>2, <3>3
  <2>2. CASE O!StudentLeaves(s)
    <3>1. spc[s] = "leaves" /\ spc' = [spc EXCEPT ![s] = "gone"]
      BY <2>2, Zenon DEF O!StudentLeaves, O!SGoto
    <3> QED BY <3>1
  <2> QED BY <2>1, <2>2
<1>2. /\ normal_Q' = normal_Q /\ special_Q' = special_Q /\ urgent_Q' = urgent_Q
      /\ answer_Q' = answer_Q /\ normal' = normal /\ urgent' = urgent
      /\ ms' = ms /\ opc' = opc /\ info' = info /\ xpc' = xpc /\ xinfo' = xinfo
  <2>1. CASE O!StudentLocks(s)
    BY <2>1, Zenon DEF O!StudentLocks, O!queues, O!offices, O!special
  <2>2. CASE O!StudentLeaves(s)
    BY <2>2, Zenon DEF O!StudentLeaves, O!queues, O!cond, O!offices, O!special
  <2> QED BY <2>1, <2>2
<1>3. spc \in [Student -> StudentPlaces]
  BY Zenon DEF PlacesInv, OfficeTypes
<1>4. /\ spc' \in [Student -> StudentPlaces]
      /\ spc'[s] \in WaitsForNone /\ spc[s] \in WaitsForNone /\ spc'[s] # "sent"
      /\ spc'[s] \in {"returns", "requeues"} => spc[s] = "returns"
      /\ \A t \in Student \ {s} : spc'[t] = spc[t]
  <2>1. l \in StudentPlaces /\ l \in WaitsForNone /\ spc[s] \in WaitsForNone
        /\ l # "sent" /\ l # "returns"
    BY <1>1 DEF StudentPlaces, WaitsForNone
  <2>2. spc' \in [Student -> StudentPlaces] /\ spc'[s] = l
        /\ \A t \in Student \ {s} : spc'[t] = spc[t]
    BY <1>1, <1>3, <2>1, Update, Zenon
  <2>3. l \in {"returns", "requeues"} => l = "requeues"
    BY <2>1
  <2> QED BY <1>1, <2>1, <2>2, <2>3, Zenon
<1>5. OfficeTypes' /\ OfficeQueues'
  BY <1>2, <1>4, Zenon DEF PlacesInv, OfficeTypes, OfficeQueues
<1>6. ASSUME NEW t \in Student PROVE StudentInv(t)'
  <2>1. CASE t = s
    <3>1. ~HasPlace(s) /\ Len(answer_Q[s]) = 0
      BY <1>4, NowhereIs, Zenon
    <3>2. HasAnswers(s)
      BY Zenon DEF PlacesInv, StudentInv
    <3>3. ~HasPlace(s)'
      BY <1>2, <3>1, Zenon DEF HasPlace
    <3>4. spc'[s] \in {"sent", "returns", "requeues"} => ms'[s] \in Office
      BY <1>2, <1>4, <3>2 DEF HasAnswers
    <3> QED BY <1>2, <1>4, <2>1, <3>1, <3>3, <3>4, NowhereKeeps, Zenon
  <2>2. CASE t # s
    <3>1. SameStudent(t)
      BY <1>2, <1>4, <2>2, Zenon DEF SameStudent
    <3> QED BY <3>1, SameKeeps, Zenon DEF PlacesInv
  <2> QED BY <2>1, <2>2
<1> QED BY <1>5, <1>6, Zenon DEF PlacesInv

\* A student that has just queued.
LEMMA InQueueKeeps ==
  ASSUME NEW s \in Student, InQueue(s)', HasPlace(s)', Len(answer_Q'[s]) = 0,
         \A o \in Office : info'[o].id # s, xinfo'.id # s,
         \/ spc'[s] = "selected"
         \/ spc'[s] \in {"accepted", "readmitted"} /\ ms'[s] \in Office
  PROVE  StudentInv(s)'
<1>1. AtOffice(s)'
  BY Zenon DEF AtOffice
<1>2. /\ spc'[s] \notin WaitsForNone /\ spc'[s] \notin WaitsForOne
      /\ Len(answer_Q'[s]) <= 2 /\ ~(Len(answer_Q'[s]) > 0)
      /\ spc'[s] \in {"served", "sent", "accepted", "examined", "returns", "requeues",
                      "readmitted", "final"} => ms'[s] \in Office
  BY DEF WaitsForNone, WaitsForOne
<1>3. HasAnswers(s)'
  BY <1>2, Zenon DEF HasAnswers
<1> QED BY <1>1, <1>3, Zenon DEF StudentInv

\* A student queues for any office.
LEMMA StudentQueuesKeeps ==
  ASSUME PlacesInv, NEW s \in Student, O!StudentQueues(s) PROVE PlacesInv'
<1> DEFINE m == O!Msg(s, Nobody, FALSE)
<1>1. /\ spc[s] = "queues" /\ normal_Q' = Append(normal_Q, m) /\ normal' = normal + 1
      /\ spc' = [spc EXCEPT ![s] = "selected"]
      /\ special_Q' = special_Q /\ urgent_Q' = urgent_Q
      /\ answer_Q' = answer_Q /\ urgent' = urgent
      /\ ms' = ms /\ opc' = opc /\ info' = info /\ xpc' = xpc /\ xinfo' = xinfo
  BY Zenon DEF O!StudentQueues, O!SGoto, O!offices, O!special
<1>2. /\ spc \in [Student -> StudentPlaces] /\ normal_Q \in Seq(Message)
      /\ normal = Len(normal_Q) /\ Once(normal_Q)
      /\ \A k \in 1..Len(normal_Q) : ~normal_Q[k].urgent
  BY Zenon DEF PlacesInv, OfficeTypes, OfficeQueues
<1>3. /\ "selected" \in StudentPlaces /\ "selected" \in WaitsForTwo /\ spc[s] \in WaitsForNone
  BY <1>1 DEF StudentPlaces, WaitsForTwo, WaitsForNone
<1>4. /\ spc' \in [Student -> StudentPlaces] /\ spc'[s] = "selected"
      /\ \A t \in Student \ {s} : spc'[t] = spc[t]
  BY <1>1, <1>2, <1>3, Update, Zenon
<1>5. m \in Message /\ m.id = s /\ ~m.urgent
  BY MessageIs
<1> HIDE DEF m
<1>6. /\ normal_Q' \in Seq(Message) /\ Len(normal_Q') = Len(normal_Q) + 1
      /\ Queued(normal_Q') = Queued(normal_Q) \cup {s}
      /\ Once(normal_Q) /\ s \notin Queued(normal_Q) => Once(normal_Q')
      /\ \A k \in 1..Len(normal_Q) : normal_Q'[k] = normal_Q[k]
      /\ normal_Q'[Len(normal_Q) + 1] = m
  BY <1>1, <1>2, <1>5, AppendQueued
<1>7. ~HasPlace(s) /\ Len(answer_Q[s]) = 0
  BY <1>3, NowhereIs, Zenon
<1>8. OfficeTypes'
  BY <1>1, <1>4, <1>6, Zenon DEF PlacesInv, OfficeTypes
<1>9. OfficeQueues'
  <2>1. normal' = Len(normal_Q')
    BY <1>1, <1>2, <1>6
  <2>2. Once(normal_Q')
    BY <1>2, <1>6, <1>7, Zenon DEF HasPlace
  <2>3. ASSUME NEW k \in 1..Len(normal_Q') PROVE ~normal_Q'[k].urgent
    <3>1. k \in 1..Len(normal_Q) \/ k = Len(normal_Q) + 1
      <4>1. Len(normal_Q) \in Nat
        BY <1>2, LenProperties
      <4> QED BY <1>6, <4>1
    <3> QED BY <1>2, <1>5, <1>6, <3>1, Zenon
  <2> QED BY <1>1, <2>1, <2>2, <2>3, Zenon DEF PlacesInv, OfficeQueues
<1>10. ASSUME NEW t \in Student PROVE StudentInv(t)'
  <2>1. CASE t = s
    <3>1. InQueue(s)'
      BY <1>1, <1>4, <1>6, <1>7, Zenon DEF InQueue, HasPlace
    <3>2. HasPlace(s)'
      BY <1>6, Zenon DEF HasPlace
    <3>3. (\A o \in Office : info'[o].id # s) /\ xinfo'.id # s /\ Len(answer_Q'[s]) = 0
      BY <1>1, <1>7, Zenon DEF HasPlace
    <3> QED BY <1>4, <2>1, <3>1, <3>2, <3>3, InQueueKeeps, Zenon
  <2>2. CASE t # s
    <3>1. t \in Queued(normal_Q)' <=> t \in Queued(normal_Q)
      BY <1>6, <2>2
    <3>2. SameStudent(t)
      BY <1>1, <1>4, <2>2, <3>1, Zenon DEF SameStudent
    <3> QED BY <3>2, SameKeeps, Zenon DEF PlacesInv
  <2> QED BY <2>1, <2>2
<1> QED BY <1>8, <1>9, <1>10, Zenon DEF PlacesInv

\* A student that was sent goes to the special office.
LEMMA StudentToSpecialKeeps ==
  ASSUME PlacesInv, NEW s \in Student, O!StudentToSpecial(s) PROVE PlacesInv'
<1> DEFINE m == O!Msg(s, ms[s], FALSE)
<1>1. /\ spc[s] = "sent" /\ special_Q' = Append(special_Q, m)
      /\ spc' = [spc EXCEPT ![s] = "accepted"]
      /\ normal_Q' = normal_Q /\ urgent_Q' = urgent_Q
      /\ answer_Q' = answer_Q /\ urgent' = urgent /\ normal' = normal
      /\ ms' = ms /\ opc' = opc /\ info' = info /\ xpc' = xpc /\ xinfo' = xinfo
  BY Zenon DEF O!StudentToSpecial, O!SGoto, O!cond, O!offices, O!special
<1>2. /\ spc \in [Student -> StudentPlaces] /\ special_Q \in Seq(Message)
      /\ Once(special_Q) /\ HasAnswers(s)
  BY Zenon DEF PlacesInv, OfficeTypes, OfficeQueues, StudentInv
<1>3. /\ "accepted" \in StudentPlaces /\ spc[s] \in WaitsForNone /\ ms[s] \in Office
  BY <1>1, <1>2 DEF StudentPlaces, WaitsForTwo, WaitsForNone, HasAnswers
<1>4. /\ spc' \in [Student -> StudentPlaces] /\ spc'[s] = "accepted"
      /\ \A t \in Student \ {s} : spc'[t] = spc[t]
  BY <1>1, <1>2, <1>3, Update, Zenon
<1>5. m \in Message /\ m.id = s
  BY <1>3, MessageIs
<1> HIDE DEF m
<1>6. /\ special_Q' \in Seq(Message)
      /\ Queued(special_Q') = Queued(special_Q) \cup {s}
      /\ Once(special_Q) /\ s \notin Queued(special_Q) => Once(special_Q')
  BY <1>1, <1>2, <1>5, AppendQueued
<1>7. ~HasPlace(s) /\ Len(answer_Q[s]) = 0
  BY <1>3, NowhereIs, Zenon
<1>8. OfficeTypes'
  BY <1>1, <1>4, <1>6, Zenon DEF PlacesInv, OfficeTypes
<1>9. OfficeQueues'
  <2>1. Once(special_Q')
    BY <1>2, <1>6, <1>7, Zenon DEF HasPlace
  <2> QED BY <1>1, <2>1, Zenon DEF PlacesInv, OfficeQueues
<1>10. ASSUME NEW t \in Student PROVE StudentInv(t)'
  <2>1. CASE t = s
    <3>1. InQueue(s)'
      BY <1>1, <1>4, <1>6, <1>7, Zenon DEF InQueue, HasPlace
    <3>2. HasPlace(s)'
      BY <1>6, Zenon DEF HasPlace
    <3>3. (\A o \in Office : info'[o].id # s) /\ xinfo'.id # s /\ Len(answer_Q'[s]) = 0
      BY <1>1, <1>7, Zenon DEF HasPlace
    <3>4. spc'[s] \in {"accepted", "readmitted"} /\ ms'[s] \in Office
      BY <1>1, <1>3, <1>4
    <3> QED BY <2>1, <3>1, <3>2, <3>3, <3>4, InQueueKeeps, Zenon
  <2>2. CASE t # s
    <3>1. t \in Queued(special_Q)' <=> t \in Queued(special_Q)
      BY <1>6, <2>2
    <3>2. SameStudent(t)
      BY <1>1, <1>4, <2>2, <3>1, Zenon DEF SameStudent
    <3> QED BY <3>2, SameKeeps, Zenon DEF PlacesInv
  <2> QED BY <2>1, <2>2
<1> QED BY <1>8, <1>9, <1>10, Zenon DEF PlacesInv

\* A student comes back to the office that has served it.
LEMMA StudentRequeuesKeeps ==
  ASSUME PlacesInv, NEW s \in Student, O!StudentRequeues(s) PROVE PlacesInv'
<1> DEFINE o == ms[s]
           m == O!Msg(s, o, TRUE)
<1>1. /\ spc[s] = "requeues" /\ urgent_Q' = [urgent_Q EXCEPT ![o] = Append(urgent_Q[o], m)]
      /\ urgent' = [urgent EXCEPT ![o] = urgent[o] + 1]
      /\ spc' = [spc EXCEPT ![s] = "readmitted"]
      /\ normal_Q' = normal_Q /\ special_Q' = special_Q
      /\ answer_Q' = answer_Q /\ normal' = normal
      /\ ms' = ms /\ opc' = opc /\ info' = info /\ xpc' = xpc /\ xinfo' = xinfo
  BY Zenon DEF O!StudentRequeues, O!SGoto, O!offices, O!special
<1>2. /\ spc \in [Student -> StudentPlaces] /\ urgent_Q \in [Office -> Seq(Message)]
      /\ urgent \in [Office -> Nat] /\ HasAnswers(s)
      /\ \A p \in Office : Once(urgent_Q[p]) /\ urgent[p] = Len(urgent_Q[p])
  BY Zenon DEF PlacesInv, OfficeTypes, OfficeQueues, StudentInv
<1>3. /\ "readmitted" \in StudentPlaces /\ spc[s] \in WaitsForNone /\ o \in Office
  BY <1>1, <1>2 DEF StudentPlaces, WaitsForTwo, WaitsForNone, HasAnswers
<1>4. /\ spc' \in [Student -> StudentPlaces] /\ spc'[s] = "readmitted"
      /\ \A t \in Student \ {s} : spc'[t] = spc[t]
  BY <1>1, <1>2, <1>3, Update, Zenon
<1>5. m \in Message /\ m.id = s
  BY <1>3, MessageIs, ZenonT(120)
<1> HIDE DEF m
<1>6. /\ Append(urgent_Q[o], m) \in Seq(Message)
      /\ Len(Append(urgent_Q[o], m)) = Len(urgent_Q[o]) + 1
      /\ Queued(Append(urgent_Q[o], m)) = Queued(urgent_Q[o]) \cup {s}
      /\ Once(urgent_Q[o]) /\ s \notin Queued(urgent_Q[o]) => Once(Append(urgent_Q[o], m))
  <2>1. urgent_Q[o] \in Seq(Message)
    BY <1>2, <1>3
  <2> QED BY <1>5, <2>1, AppendQueued
<1>7. /\ urgent_Q' \in [Office -> Seq(Message)] /\ urgent_Q'[o] = Append(urgent_Q[o], m)
      /\ \A p \in Office \ {o} : urgent_Q'[p] = urgent_Q[p]
  BY <1>1, <1>2, <1>3, <1>6, Update, Zenon
<1>8. /\ urgent' \in [Office -> Nat] /\ urgent'[o] = urgent[o] + 1
      /\ \A p \in Office \ {o} : urgent'[p] = urgent[p]
  <2>1. urgent[o] + 1 \in Nat
    BY <1>2, <1>3
  <2> QED BY <1>1, <1>2, <1>3, <2>1, Update, Zenon
<1>9. ~HasPlace(s) /\ Len(answer_Q[s]) = 0
  BY <1>3, NowhereIs, Zenon
<1>10. OfficeTypes'
  BY <1>1, <1>4, <1>7, Zenon DEF PlacesInv, OfficeTypes
<1>11. OfficeQueues'
  <2>1. ASSUME NEW p \in Office PROVE Once(urgent_Q'[p]) /\ urgent'[p] = Len(urgent_Q'[p])
    <3>1. CASE p = o
      BY <1>2, <1>3, <1>6, <1>7, <1>8, <1>9, <3>1, Zenon DEF HasPlace
    <3>2. CASE p # o
      BY <1>2, <1>7, <1>8, <3>2, Zenon
    <3> QED BY <3>1, <3>2
  <2> QED BY <1>1, <1>8, <2>1, Zenon DEF PlacesInv, OfficeQueues
<1>12. ASSUME NEW t \in Student PROVE StudentInv(t)'
  <2>1. CASE t = s
    <3>1. \A p \in Office : s \in Queued(urgent_Q'[p]) => p = o
      BY <1>7, <1>9, Zenon DEF HasPlace
    <3>2. InQueue(s)'
      BY <1>1, <1>4, <1>9, <3>1, Zenon DEF InQueue, HasPlace
    <3>3. HasPlace(s)'
      <4>1. s \in Queued(urgent_Q'[o])
        BY <1>6, <1>7
      <4> QED BY <1>3, <4>1, Zenon DEF HasPlace
    <3>4. (\A p \in Office : info'[p].id # s) /\ xinfo'.id # s /\ Len(answer_Q'[s]) = 0
      BY <1>1, <1>9, Zenon DEF HasPlace
    <3>5. spc'[s] \in {"accepted", "readmitted"} /\ ms'[s] \in Office
      BY <1>1, <1>3, <1>4
    <3> QED BY <2>1, <3>2, <3>3, <3>4, <3>5, InQueueKeeps, Zenon
  <2>2. CASE t # s
    <3>1. ASSUME NEW p \in Office PROVE t \in Queued(urgent_Q'[p]) <=> t \in Queued(urgent_Q[p])
      <4>1. CASE p = o
        BY <1>6, <1>7, <2>2, <4>1
      <4>2. CASE p # o
        BY <1>7, <4>2, Zenon
      <4> QED BY <4>1, <4>2
    <3>2. SameStudent(t)
      BY <1>1, <1>4, <2>2, <3>1, Zenon DEF SameStudent
    <3> QED BY <3>2, SameKeeps, Zenon DEF PlacesInv
  <2> QED BY <2>1, <2>2
<1> QED BY <1>10, <1>11, <1>12, Zenon DEF PlacesInv

\* How a student goes on when it receives an answer.
Answered(from, to) ==
  \/ from = "selected" /\ to = "served"
  \/ from = "served" /\ to \in {"leaves", "sent"}
  \/ from = "accepted" /\ to = "examined"
  \/ from = "examined" /\ to = "returns"
  \/ from = "readmitted" /\ to = "final"
  \/ from = "final" /\ to = "leaves"

\* What such a step says of the two places.
LEMMA AnsweredIs ==
  ASSUME NEW from, NEW to, Answered(from, to)
  PROVE  /\ to \in StudentPlaces /\ to # "selected" /\ to \notin WaitsForTwo
         /\ to \in WaitsForOne => from \in WaitsForTwo
         /\ to \in WaitsForNone => from \in WaitsForOne
         /\ to \in {"served", "sent", "accepted", "examined", "returns", "requeues",
                    "readmitted", "final"} =>
              from = "selected" \/ from \in {"served", "accepted", "examined", "readmitted"}
         /\ from \in {"selected", "readmitted"} => to \in {"served", "final"}
         /\ from \in {"readmitted", "final"} /\ to \in {"served", "final"} => from = "readmitted"
         /\ from = "readmitted" => to = "final"
         /\ from = "accepted" => to = "examined"
BY DEF Answered, StudentPlaces, WaitsForTwo, WaitsForOne, WaitsForNone

\* One answer fewer.
LEMMA OneFewer ==
  ASSUME NEW n \in Nat, n > 0, n <= 2, NEW m, m = n - 1
  PROVE  m <= 1 /\ m <= 2 /\ (n <= 1 => m = 0)
OBVIOUS

\* A student receives an answer.
LEMMA StudentReceivesKeeps ==
  ASSUME PlacesInv, NEW s \in Student, O!StudentReceives(s) PROVE PlacesInv'
<1> DEFINE r == Head(answer_Q[s])
<1>1. /\ answer_Q[s] # <<>> /\ answer_Q' = [answer_Q EXCEPT ![s] = Tail(answer_Q[s])]
      /\ ms' = IF spc[s] = "selected" THEN [ms EXCEPT ![s] = r.office_no] ELSE ms
      /\ normal_Q' = normal_Q /\ special_Q' = special_Q /\ urgent_Q' = urgent_Q
      /\ normal' = normal /\ urgent' = urgent
      /\ opc' = opc /\ info' = info /\ xpc' = xpc /\ xinfo' = xinfo
  BY Zenon DEF O!StudentReceives, O!cond, O!offices, O!special
<1>2. PICK to : spc' = [spc EXCEPT ![s] = to] /\ Answered(spc[s], to)
  <2>1. /\ spc[s] \in {"selected", "served", "accepted", "examined", "readmitted", "final"}
        /\ spc' = [spc EXCEPT ![s] =
                     CASE spc[s] = "selected"   -> "served"
                       [] spc[s] = "served"     -> IF r.office_no # Nobody
                                                   THEN "leaves" ELSE "sent"
                       [] spc[s] = "accepted"   -> "examined"
                       [] spc[s] = "examined"   -> "returns"
                       [] spc[s] = "readmitted" -> "final"
                       [] spc[s] = "final"      -> "leaves"]
    BY Zenon DEF O!StudentReceives, O!SGoto
  <2> HIDE DEF r
  <2> QED BY <2>1 DEF Answered
<1>3. /\ spc \in [Student -> StudentPlaces] /\ answer_Q \in [Student -> Seq(Message)]
      /\ ms \in [Student -> Office \cup {Nobody}]
      /\ InQueue(s) /\ AtOffice(s) /\ HasAnswers(s)
  BY Zenon DEF PlacesInv, OfficeTypes, StudentInv
<1>4. to \in StudentPlaces
  BY <1>2, AnsweredIs, Zenon
<1>5. /\ spc' \in [Student -> StudentPlaces] /\ spc'[s] = to
      /\ \A t \in Student \ {s} : spc'[t] = spc[t]
  BY <1>2, <1>3, <1>4, Update, Zenon
<1>6. /\ Tail(answer_Q[s]) \in Seq(Message) /\ Len(Tail(answer_Q[s])) = Len(answer_Q[s]) - 1
      /\ Len(answer_Q[s]) \in Nat /\ Len(answer_Q[s]) > 0
      /\ r = answer_Q[s][1] /\ r \in Message
  <2>1. answer_Q[s] \in Seq(Message)
    BY <1>3
  <2> QED BY <1>1, <2>1, TailQueued
<1>7. /\ answer_Q' \in [Student -> Seq(Message)] /\ answer_Q'[s] = Tail(answer_Q[s])
      /\ \A t \in Student \ {s} : answer_Q'[t] = answer_Q[t]
  BY <1>1, <1>3, <1>6, Update, Zenon
<1>8. /\ ms' \in [Student -> Office \cup {Nobody}]
      /\ ms'[s] = IF spc[s] = "selected" THEN r.office_no ELSE ms[s]
      /\ \A t \in Student \ {s} : ms'[t] = ms[t]
  <2>1. r.office_no \in Office \cup {Nobody}
    BY <1>6 DEF Message
  <2>2. CASE spc[s] = "selected"
    BY <1>1, <1>3, <2>1, <2>2, Update, Zenon
  <2>3. CASE spc[s] # "selected"
    BY <1>1, <1>3, <2>3, Zenon
  <2> QED BY <2>2, <2>3
<1>9. OfficeTypes' /\ OfficeQueues'
  BY <1>1, <1>5, <1>7, <1>8, Zenon DEF PlacesInv, OfficeTypes, OfficeQueues
<1> HIDE DEF r
<1>10. ASSUME NEW t \in Student PROVE StudentInv(t)'
  <2>1. CASE t = s
    <3>1. ~(Len(answer_Q[s]) = 0) /\ Len(answer_Q'[s]) = Len(answer_Q[s]) - 1
      BY <1>6, <1>7
    <3>2. Len(answer_Q[s]) = 1 => Len(answer_Q'[s]) = 0
      BY <1>6, <3>1
    <3>3. InQueue(s)'
      BY <1>1, <1>3, <3>1, Zenon DEF InQueue
    <3>4. ASSUME NEW o \in Office, info[o].id = s
          PROVE  /\ opc[o] # "accepts"
                 /\ opc[o] = "serves" => /\ spc[s] \in {"selected", "readmitted"}
                                         /\ Len(answer_Q[s]) = 1
                 /\ info[o].urgent => /\ opc[o] = "serves" => spc[s] = "readmitted"
                                      /\ ms'[s] = o
      <4>1. /\ opc[o] = "accepts" => Len(answer_Q[s]) = 0
            /\ opc[o] = "serves" =>
                 \/ spc[s] \in {"selected", "readmitted"} /\ Len(answer_Q[s]) = 1
                 \/ spc[s] \in {"served", "final"} /\ Len(answer_Q[s]) = 0
            /\ info[o].urgent => spc[s] \in {"readmitted", "final"} /\ ms[s] = o
        BY <1>3, <3>4, Zenon DEF AtOffice
      <4>2. spc[s] \in {"readmitted", "final"} => ms'[s] = ms[s]
        BY <1>8
      <4>3. spc[s] \in {"readmitted", "final"} /\ spc[s] \in {"selected", "readmitted"}
              => spc[s] = "readmitted"
        OBVIOUS
      <4> QED BY <3>1, <4>1, <4>2, <4>3, Zenon
    <3>5. AtOffice(s)'
      <4>1. ASSUME NEW o \in Office, info[o].id = s
            PROVE  /\ opc[o] # "accepts"
                   /\ opc[o] = "serves" => to \in {"served", "final"} /\ Len(answer_Q'[s]) = 0
                   /\ info[o].urgent => to \in {"readmitted", "final"} /\ ms'[s] = o
        <5>1. opc[o] = "serves" => to \in {"served", "final"} /\ Len(answer_Q'[s]) = 0
          BY <1>2, <3>2, <3>4, <4>1, AnsweredIs, Zenon
        <5>2. opc[o] = "serves"
          BY <3>4, <4>1, AtOfficeIs
        <5>3. info[o].urgent => to = "final"
          BY <1>2, <3>4, <4>1, <5>2, AnsweredIs, Zenon
        <5> QED BY <3>4, <4>1, <5>1, <5>3, Zenon
      <4>2. ASSUME xinfo.id = s
            PROVE  /\ xpc # "accepts"
                   /\ xpc = "serves" => to = "examined" /\ Len(answer_Q'[s]) = 0
        <5>1. /\ xpc = "accepts" => Len(answer_Q[s]) = 0
              /\ xpc = "serves" => \/ spc[s] = "accepted" /\ Len(answer_Q[s]) = 1
                                   \/ spc[s] = "examined" /\ Len(answer_Q[s]) = 0
          BY <1>3, <4>2, Zenon DEF AtOffice
        <5> QED BY <1>2, <3>1, <3>2, <5>1, AnsweredIs, Zenon
      <4>3. \A o, p \in Office : info[o].id = s /\ info[p].id = s => o = p
        BY <1>3, Zenon DEF AtOffice
      <4> QED BY <1>1, <1>5, <4>1, <4>2, <4>3, Zenon DEF AtOffice
    <3>6. HasAnswers(s)'
      <4>1. /\ spc[s] \in WaitsForOne => Len(answer_Q[s]) <= 1
            /\ Len(answer_Q[s]) <= 2
            /\ spc[s] = "selected" => r.office_no \in Office
        BY <1>3, <1>6, Zenon DEF HasAnswers
      <4>2. /\ to # "selected" /\ to \notin WaitsForTwo
            /\ to \in WaitsForNone => spc[s] \in WaitsForOne
            /\ to \in {"served", "sent", "accepted", "examined", "returns", "requeues",
                       "readmitted", "final"} =>
                 spc[s] = "selected" \/ spc[s] \in {"served", "accepted", "examined", "readmitted"}
        BY <1>2, AnsweredIs, Zenon
      <4>3. /\ spc[s] \in WaitsForOne => Len(answer_Q'[s]) = 0
            /\ Len(answer_Q'[s]) <= 1 /\ Len(answer_Q'[s]) <= 2
        BY <1>6, <3>1, <4>1, OneFewer, Zenon
      <4>4. \/ spc[s] = "selected" \/ spc[s] \in {"served", "accepted", "examined", "readmitted"}
            => ms'[s] \in Office
        <5>1. CASE spc[s] = "selected"
          BY <1>8, <4>1, <5>1, Zenon
        <5>2. CASE spc[s] # "selected" /\ spc[s] \in {"served", "accepted", "examined", "readmitted"}
          <6>1. spc[s] \in {"served", "sent", "accepted", "examined", "returns", "requeues",
                            "readmitted", "final"}
            BY <5>2
          <6> QED BY <1>3, <1>8, <5>2, <6>1, Zenon DEF HasAnswers
        <5> QED BY <5>1, <5>2
      <4> QED BY <1>5, <4>2, <4>3, <4>4, Zenon DEF HasAnswers
    <3> QED BY <2>1, <3>3, <3>5, <3>6, Zenon DEF StudentInv
  <2>2. CASE t # s
    <3>1. SameStudent(t)
      BY <1>1, <1>5, <1>7, <1>8, <2>2, Zenon DEF SameStudent
    <3> QED BY <3>1, SameKeeps, Zenon DEF PlacesInv
  <2> QED BY <2>1, <2>2
<1> QED BY <1>9, <1>10, Zenon DEF PlacesInv

\* A student that is queued is nowhere else.
LEMMA OnlyQueued ==
  ASSUME PlacesInv, NEW s \in Student
  PROVE  /\ s \in Queued(normal_Q) =>
              /\ spc[s] = "selected" /\ Len(answer_Q[s]) = 0 /\ s \notin Queued(special_Q)
              /\ xinfo.id # s
              /\ \A o \in Office : info[o].id # s /\ s \notin Queued(urgent_Q[o])
         /\ s \in Queued(special_Q) =>
              /\ spc[s] = "accepted" /\ Len(answer_Q[s]) = 0 /\ s \notin Queued(normal_Q)
              /\ xinfo.id # s
              /\ \A o \in Office : info[o].id # s /\ s \notin Queued(urgent_Q[o])
         /\ \A o \in Office : s \in Queued(urgent_Q[o]) =>
              /\ spc[s] = "readmitted" /\ Len(answer_Q[s]) = 0 /\ ms[s] = o
              /\ s \notin Queued(special_Q) /\ s \notin Queued(normal_Q) /\ xinfo.id # s
              /\ \A p \in Office : info[p].id # s
              /\ \A p \in Office \ {o} : s \notin Queued(urgent_Q[p])
<1>1. InQueue(s) /\ AtOffice(s)
  BY Zenon DEF PlacesInv, StudentInv
<1>2. xinfo.id = s => spc[s] \in {"accepted", "examined"}
  <2>1. xinfo.id = s => xpc \in {"accepts", "serves"}
    BY AtSpecialIs, Zenon
  <2> QED BY <1>1, <2>1 DEF AtOffice
<1>3. ASSUME NEW o \in Office, info[o].id = s
      PROVE  spc[s] \in {"selected", "readmitted", "served", "final"}
  <2>1. opc[o] \in {"accepts", "serves"}
    BY <1>3, AtOfficeIs, Zenon
  <2> QED BY <1>1, <1>3, <2>1 DEF AtOffice
<1>4. ASSUME s \in Queued(normal_Q)
      PROVE  /\ spc[s] = "selected" /\ Len(answer_Q[s]) = 0 /\ s \notin Queued(special_Q)
             /\ xinfo.id # s
             /\ \A o \in Office : info[o].id # s /\ s \notin Queued(urgent_Q[o])
  <2>1. spc[s] = "selected" /\ Len(answer_Q[s]) = 0 /\ \A o \in Office : info[o].id # s
    BY <1>1, <1>4, Zenon DEF InQueue
  <2>2. spc[s] # "accepted" /\ spc[s] # "readmitted" /\ spc[s] \notin {"accepted", "examined"}
    BY <2>1
  <2> QED BY <1>1, <1>2, <2>1, <2>2, Zenon DEF InQueue
<1>5. ASSUME s \in Queued(special_Q)
      PROVE  /\ spc[s] = "accepted" /\ Len(answer_Q[s]) = 0 /\ s \notin Queued(normal_Q)
             /\ xinfo.id # s
             /\ \A o \in Office : info[o].id # s /\ s \notin Queued(urgent_Q[o])
  <2>1. spc[s] = "accepted" /\ Len(answer_Q[s]) = 0 /\ xinfo.id # s
    BY <1>1, <1>5, Zenon DEF InQueue
  <2>2. /\ spc[s] # "selected" /\ spc[s] # "readmitted"
        /\ spc[s] \notin {"selected", "readmitted", "served", "final"}
    BY <2>1
  <2> QED BY <1>1, <1>3, <2>1, <2>2, Zenon DEF InQueue
<1>6. ASSUME NEW o \in Office, s \in Queued(urgent_Q[o])
      PROVE  /\ spc[s] = "readmitted" /\ Len(answer_Q[s]) = 0 /\ ms[s] = o
             /\ s \notin Queued(special_Q) /\ s \notin Queued(normal_Q) /\ xinfo.id # s
             /\ \A p \in Office : info[p].id # s
             /\ \A p \in Office \ {o} : s \notin Queued(urgent_Q[p])
  <2>1. /\ spc[s] = "readmitted" /\ Len(answer_Q[s]) = 0 /\ ms[s] = o
        /\ \A p \in Office : info[p].id # s
    BY <1>1, <1>6, Zenon DEF InQueue
  <2>2. spc[s] # "accepted" /\ spc[s] # "selected" /\ spc[s] \notin {"accepted", "examined"}
    BY <2>1
  <2>3. \A p \in Office \ {o} : s \notin Queued(urgent_Q[p])
    BY <1>1, <2>1, Zenon DEF InQueue
  <2> QED BY <1>1, <1>2, <2>1, <2>2, <2>3, Zenon DEF InQueue
<1> QED BY <1>4, <1>5, <1>6, Zenon

\* A student at an office, or at the special one, is nowhere else.
LEMMA OnlyAtOffice ==
  ASSUME PlacesInv, NEW s \in Student
  PROVE  /\ \A o \in Office : info[o].id = s =>
              /\ s \notin Queued(special_Q) /\ s \notin Queued(normal_Q) /\ xinfo.id # s
              /\ \A p \in Office : s \notin Queued(urgent_Q[p])
              /\ \A p \in Office \ {o} : info[p].id # s
              /\ opc[o] = "accepts" =>
                   spc[s] \in {"selected", "readmitted"} /\ Len(answer_Q[s]) = 0
              /\ opc[o] = "serves" =>
                   \/ spc[s] \in {"selected", "readmitted"} /\ Len(answer_Q[s]) = 1
                   \/ spc[s] \in {"served", "final"} /\ Len(answer_Q[s]) = 0
         /\ xinfo.id = s =>
              /\ s \notin Queued(special_Q) /\ s \notin Queued(normal_Q)
              /\ \A p \in Office : s \notin Queued(urgent_Q[p]) /\ info[p].id # s
              /\ xpc = "accepts" => spc[s] = "accepted" /\ Len(answer_Q[s]) = 0
              /\ xpc = "serves" => \/ spc[s] = "accepted" /\ Len(answer_Q[s]) = 1
                                   \/ spc[s] = "examined" /\ Len(answer_Q[s]) = 0
<1>1. AtOffice(s)
  BY Zenon DEF PlacesInv, StudentInv
<1>2. xinfo.id = s => spc[s] \in {"accepted", "examined"}
  <2>1. xinfo.id = s => xpc \in {"accepts", "serves"}
    BY AtSpecialIs, Zenon
  <2> QED BY <1>1, <2>1 DEF AtOffice
<1>3. ASSUME NEW o \in Office, info[o].id = s
      PROVE  spc[s] \notin {"accepted", "examined"}
  <2>1. opc[o] \in {"accepts", "serves"}
    BY <1>3, AtOfficeIs, Zenon
  <2> QED BY <1>1, <1>3, <2>1 DEF AtOffice
<1>4. /\ s \in Queued(normal_Q) \/ s \in Queued(special_Q) =>
           xinfo.id # s /\ \A o \in Office : info[o].id # s
      /\ \A o \in Office : s \in Queued(urgent_Q[o]) =>
           xinfo.id # s /\ \A p \in Office : info[p].id # s
  BY OnlyQueued, Zenon
<1> QED BY <1>1, <1>2, <1>3, <1>4, Zenon DEF AtOffice

\* An office takes the lock, waits, or wakes up.
LEMMA OfficeMovesKeep ==
  ASSUME PlacesInv, NEW o \in Office,
         O!OfficeLocks(o) \/ O!OfficeWaits(o) \/ O!OfficeWakesUp(o)
  PROVE  PlacesInv'
<1>1. /\ normal_Q' = normal_Q /\ special_Q' = special_Q /\ urgent_Q' = urgent_Q
      /\ answer_Q' = answer_Q /\ normal' = normal /\ urgent' = urgent
      /\ ms' = ms /\ info' = info /\ xpc' = xpc /\ xinfo' = xinfo /\ spc' = spc
  <2>1. CASE O!OfficeLocks(o)
    BY <2>1, Zenon DEF O!OfficeLocks, O!queues, O!students, O!special
  <2>2. CASE O!OfficeWaits(o)
    BY <2>2, Zenon DEF O!OfficeWaits, O!queues, O!students, O!special
  <2>3. CASE O!OfficeWakesUp(o)
    BY <2>3, Zenon DEF O!OfficeWakesUp, O!queues, O!students, O!special, O!offices
  <2> QED BY <2>1, <2>2, <2>3
<1>2. opc' = opc \/ \E l \in {"free", "choosing"} : /\ opc' = [opc EXCEPT ![o] = l]
                                                   /\ opc[o] \in {"free", "choosing"}
  <2>1. CASE O!OfficeLocks(o)
    <3>1. opc[o] = "free" /\ opc' = [opc EXCEPT ![o] = "choosing"]
      BY <2>1, Zenon DEF O!OfficeLocks, O!OGoto
    <3> QED BY <3>1
  <2>2. CASE O!OfficeWaits(o)
    <3>1. opc[o] = "choosing" /\ opc' = [opc EXCEPT ![o] = "free"]
      BY <2>2, Zenon DEF O!OfficeWaits, O!OGoto
    <3> QED BY <3>1
  <2>3. CASE O!OfficeWakesUp(o)
    BY <2>3, Zenon DEF O!OfficeWakesUp, O!offices
  <2> QED BY <2>1, <2>2, <2>3
<1>3. /\ opc \in [Office -> {"free", "choosing", "accepts", "serves"}]
      /\ \A p \in Office : info[p] \in Message <=> opc[p] \in {"accepts", "serves"}
  BY Zenon DEF PlacesInv, OfficeTypes
<1>4. /\ opc' \in [Office -> {"free", "choosing", "accepts", "serves"}]
      /\ \A p \in Office : opc'[p] # opc[p] => info[p] \notin Message
      /\ \A p \in Office : opc'[p] \in {"accepts", "serves"} <=> opc[p] \in {"accepts", "serves"}
  <2>1. CASE opc' = opc
    BY <1>3, <2>1, Zenon
  <2>2. ASSUME NEW l \in {"free", "choosing"}, opc' = [opc EXCEPT ![o] = l],
               opc[o] \in {"free", "choosing"}
        PROVE  /\ opc' \in [Office -> {"free", "choosing", "accepts", "serves"}]
               /\ \A p \in Office : opc'[p] # opc[p] => info[p] \notin Message
               /\ \A p \in Office :
                    opc'[p] \in {"accepts", "serves"} <=> opc[p] \in {"accepts", "serves"}
    <3>1. l \in {"free", "choosing", "accepts", "serves"} /\ l \notin {"accepts", "serves"}
          /\ opc[o] \notin {"accepts", "serves"}
      BY <2>2
    <3>2. /\ opc' \in [Office -> {"free", "choosing", "accepts", "serves"}] /\ opc'[o] = l
          /\ \A p \in Office \ {o} : opc'[p] = opc[p]
      BY <1>3, <2>2, <3>1, Update, Zenon
    <3> QED BY <1>3, <3>1, <3>2, Zenon
  <2> QED BY <1>2, <2>1, <2>2
<1>5. OfficeTypes' /\ OfficeQueues'
  BY <1>1, <1>3, <1>4, Zenon DEF PlacesInv, OfficeTypes, OfficeQueues
<1>6. ASSUME NEW t \in Student PROVE StudentInv(t)'
  <2>1. \A p \in Office : info[p].id = t => opc'[p] = opc[p]
    BY <1>4, AtOfficeIs, Zenon
  <2>2. SameStudent(t)
    BY <1>1, <2>1, Zenon DEF SameStudent
  <2> QED BY <2>2, SameKeeps, Zenon DEF PlacesInv
<1> QED BY <1>5, <1>6, Zenon DEF PlacesInv

\* A student that an office has just taken from a queue.
LEMMA TakenKeeps ==
  ASSUME NEW s \in Student, NEW o \in Office, info'[o].id = s, opc'[o] = "accepts",
         \A p \in Office \ {o} : info'[p].id # s, xinfo'.id # s,
         s \notin Queued(normal_Q)', s \notin Queued(special_Q)',
         \A p \in Office : s \notin Queued(urgent_Q[p])',
         Len(answer_Q'[s]) = 0, spc'[s] \in {"selected", "readmitted"},
         info'[o].urgent => spc'[s] = "readmitted" /\ ms'[s] = o, HasAnswers(s),
         spc' = spc, ms' = ms
  PROVE  StudentInv(s)'
<1>1. InQueue(s)'
  BY Zenon DEF InQueue
<1>2. /\ opc'[o] # "serves" /\ Len(answer_Q'[s]) <= 2 /\ ~(Len(answer_Q'[s]) > 0)
      /\ spc'[s] \notin WaitsForNone /\ spc'[s] \notin WaitsForOne
  BY DEF WaitsForNone, WaitsForOne
<1>3. info'[o].urgent => spc'[s] \in {"readmitted", "final"}
  OBVIOUS
<1>4. AtOffice(s)'
  BY <1>2, <1>3, Zenon DEF AtOffice
<1>5. HasPlace(s)'
  BY Zenon DEF HasPlace
<1>6. HasAnswers(s)'
  BY <1>2, <1>5, Zenon DEF HasAnswers
<1> QED BY <1>1, <1>4, <1>6, Zenon DEF StudentInv

\* What office o has in hand when it has taken message m.
LEMMA OfficeHas ==
  ASSUME PlacesInv, NEW o \in Office, NEW m \in Message, opc[o] = "choosing",
         info' = [info EXCEPT ![o] = m], opc' = [opc EXCEPT ![o] = "accepts"]
  PROVE  /\ info' \in [Office -> Message \cup {O!None}] /\ info'[o] = m
         /\ opc' \in [Office -> {"free", "choosing", "accepts", "serves"}] /\ opc'[o] = "accepts"
         /\ \A p \in Office \ {o} : info'[p] = info[p] /\ opc'[p] = opc[p]
         /\ \A p \in Office : info'[p] \in Message <=> opc'[p] \in {"accepts", "serves"}
         /\ \A t \in Student : info[o].id # t
<1>1. /\ opc \in [Office -> {"free", "choosing", "accepts", "serves"}]
      /\ info \in [Office -> Message \cup {O!None}]
      /\ \A p \in Office : info[p] \in Message <=> opc[p] \in {"accepts", "serves"}
  BY Zenon DEF PlacesInv, OfficeTypes
<1>2. /\ info' \in [Office -> Message \cup {O!None}] /\ info'[o] = m
      /\ \A p \in Office \ {o} : info'[p] = info[p]
  <2>1. m \in Message \cup {O!None}
    OBVIOUS
  <2> QED BY <1>1, <2>1, Update, Zenon
<1>3. "accepts" \in {"free", "choosing", "accepts", "serves"}
      /\ "accepts" \in {"accepts", "serves"} /\ opc[o] \notin {"accepts", "serves"}
  OBVIOUS
<1>4. /\ opc' \in [Office -> {"free", "choosing", "accepts", "serves"}] /\ opc'[o] = "accepts"
      /\ \A p \in Office \ {o} : opc'[p] = opc[p]
  BY <1>1, <1>3, Update, Zenon
<1>5. \A p \in Office : info'[p] \in Message <=> opc'[p] \in {"accepts", "serves"}
  BY <1>1, <1>2, <1>3, <1>4, Zenon
<1>6. \A t \in Student : info[o].id # t
  BY <1>3, AtOfficeIs, Zenon
<1> QED BY <1>2, <1>4, <1>5, <1>6, Zenon

\* An office takes a student that came back.
LEMMA OfficeTakesUrgentKeeps ==
  ASSUME PlacesInv, NEW o \in Office, NEW s, s = Head(urgent_Q[o]).id, O!OfficeTakesUrgent(o)
  PROVE  PlacesInv'
<1> DEFINE q == urgent_Q[o]
<1>1. /\ opc[o] = "choosing" /\ q # <<>>
      /\ urgent' = [urgent EXCEPT ![o] = urgent[o] - 1]
      /\ info' = [info EXCEPT ![o] = Head(q)]
      /\ urgent_Q' = [urgent_Q EXCEPT ![o] = Tail(q)]
      /\ opc' = [opc EXCEPT ![o] = "accepts"]
      /\ normal_Q' = normal_Q /\ special_Q' = special_Q /\ answer_Q' = answer_Q
      /\ normal' = normal /\ ms' = ms /\ xpc' = xpc /\ xinfo' = xinfo /\ spc' = spc
  BY Zenon DEF O!OfficeTakesUrgent, O!OGoto, O!students, O!special
<1>2. /\ urgent_Q \in [Office -> Seq(Message)] /\ urgent \in [Office -> Nat]
      /\ \A p \in Office : Once(urgent_Q[p]) /\ urgent[p] = Len(urgent_Q[p])
  BY Zenon DEF PlacesInv, OfficeTypes, OfficeQueues
<1>3. /\ Tail(q) \in Seq(Message) /\ Len(Tail(q)) = Len(q) - 1 /\ Len(q) \in Nat /\ Len(q) > 0
      /\ Head(q) \in Message /\ Queued(q) = Queued(Tail(q)) \cup {s}
      /\ Once(Tail(q)) /\ s \notin Queued(Tail(q))
  <2>1. q \in Seq(Message) /\ Once(q)
    BY <1>2
  <2> QED BY <1>1, <2>1, TailQueued
<1>4. s \in Student /\ s \in Queued(q)
  <2>1. s \in Student
    BY <1>3, OfficeConstants, Zenon
  <2> QED BY <1>3, <2>1
<1>5. /\ spc[s] = "readmitted" /\ Len(answer_Q[s]) = 0 /\ ms[s] = o
      /\ s \notin Queued(special_Q) /\ s \notin Queued(normal_Q) /\ xinfo.id # s
      /\ \A p \in Office : info[p].id # s
      /\ \A p \in Office \ {o} : s \notin Queued(urgent_Q[p])
  BY <1>4, OnlyQueued, Zenon
<1>6. /\ urgent_Q' \in [Office -> Seq(Message)] /\ urgent_Q'[o] = Tail(q)
      /\ \A p \in Office \ {o} : urgent_Q'[p] = urgent_Q[p]
  BY <1>1, <1>2, <1>3, Update, Zenon
<1>7. /\ urgent' \in [Office -> Nat] /\ urgent'[o] = Len(Tail(q))
      /\ \A p \in Office \ {o} : urgent'[p] = urgent[p]
  <2>1. urgent[o] - 1 \in Nat /\ urgent[o] - 1 = Len(Tail(q))
    BY <1>2, <1>3
  <2> QED BY <1>1, <1>2, <2>1, Update, Zenon
<1>8. /\ info' \in [Office -> Message \cup {O!None}] /\ info'[o] = Head(q)
      /\ opc' \in [Office -> {"free", "choosing", "accepts", "serves"}] /\ opc'[o] = "accepts"
      /\ \A p \in Office \ {o} : info'[p] = info[p] /\ opc'[p] = opc[p]
      /\ \A p \in Office : info'[p] \in Message <=> opc'[p] \in {"accepts", "serves"}
      /\ \A t \in Student : info[o].id # t
  BY <1>1, <1>3, OfficeHas, Zenon
<1>9. OfficeTypes'
  BY <1>1, <1>6, <1>8, Zenon DEF PlacesInv, OfficeTypes
<1>10. OfficeQueues'
  <2>1. ASSUME NEW p \in Office PROVE Once(urgent_Q'[p]) /\ urgent'[p] = Len(urgent_Q'[p])
    BY <1>2, <1>3, <1>6, <1>7, Zenon
  <2> QED BY <1>1, <1>7, <2>1, Zenon DEF PlacesInv, OfficeQueues
<1>11. ASSUME NEW t \in Student PROVE StudentInv(t)'
  <2>1. CASE t = s
    <3>1. HasAnswers(s)
      BY <1>4, Zenon DEF PlacesInv, StudentInv
    <3>2. \A p \in Office : s \notin Queued(urgent_Q[p])'
      BY <1>3, <1>5, <1>6, Zenon
    <3>3. info'[o].id = s /\ xinfo'.id # s /\ \A p \in Office \ {o} : info'[p].id # s
      BY <1>1, <1>5, <1>8, Zenon
    <3>4. /\ s \notin Queued(normal_Q)' /\ s \notin Queued(special_Q)' /\ Len(answer_Q'[s]) = 0
          /\ spc' = spc /\ ms' = ms /\ spc'[s] = "readmitted" /\ ms'[s] = o
      BY <1>1, <1>5, Zenon
    <3>5. spc'[s] \in {"selected", "readmitted"}
      BY <3>4
    <3>6. StudentInv(s)'
      BY <1>4, <1>8, <3>1, <3>2, <3>3, <3>4, <3>5, TakenKeeps, Zenon
    <3> QED BY <2>1, <3>6
  <2>2. CASE t # s
    <3>1. ASSUME NEW p \in Office PROVE t \in Queued(urgent_Q[p])' <=> t \in Queued(urgent_Q[p])
      <4>1. CASE p = o
        BY <1>3, <1>6, <2>2, <4>1
      <4>2. CASE p # o
        BY <1>6, <4>2, Zenon
      <4> QED BY <4>1, <4>2
    <3>2. /\ \A p \in Office : info'[p].id = t <=> info[p].id = t
          /\ \A p \in Office : info[p].id = t => opc'[p] = opc[p] /\ info'[p] = info[p]
      BY <1>8, <2>2, Zenon
    <3>3. SameStudent(t)
      BY <1>1, <3>1, <3>2, Zenon DEF SameStudent
    <3> QED BY <3>3, SameKeeps, Zenon DEF PlacesInv
  <2> QED BY <2>1, <2>2
<1> QED BY <1>9, <1>10, <1>11, Zenon DEF PlacesInv

\* An office takes a student that queued for any.
LEMMA OfficeTakesNormalKeeps ==
  ASSUME PlacesInv, NEW o \in Office, NEW s, s = Head(normal_Q).id, O!OfficeTakesNormal(o)
  PROVE  PlacesInv'
<1> DEFINE q == normal_Q
<1>1. /\ opc[o] = "choosing" /\ q # <<>> /\ normal' = normal - 1
      /\ info' = [info EXCEPT ![o] = Head(q)] /\ normal_Q' = Tail(q)
      /\ opc' = [opc EXCEPT ![o] = "accepts"]
      /\ urgent_Q' = urgent_Q /\ special_Q' = special_Q /\ answer_Q' = answer_Q
      /\ urgent' = urgent /\ ms' = ms /\ xpc' = xpc /\ xinfo' = xinfo /\ spc' = spc
  BY Zenon DEF O!OfficeTakesNormal, O!OGoto, O!students, O!special
<1>2. /\ q \in Seq(Message) /\ normal = Len(q) /\ Once(q)
      /\ \A k \in 1..Len(q) : ~q[k].urgent
  BY Zenon DEF PlacesInv, OfficeTypes, OfficeQueues
<1>3. /\ Tail(q) \in Seq(Message) /\ Len(Tail(q)) = Len(q) - 1 /\ Len(q) \in Nat /\ Len(q) > 0
      /\ Head(q) = q[1] /\ Head(q) \in Message /\ Queued(q) = Queued(Tail(q)) \cup {s}
      /\ Once(Tail(q)) /\ s \notin Queued(Tail(q))
      /\ \A k \in 1..Len(Tail(q)) : Tail(q)[k] = q[k + 1] /\ k + 1 \in 1..Len(q)
  BY <1>1, <1>2, TailQueued
<1>4. s \in Student /\ s \in Queued(q)
  <2>1. s \in Student
    BY <1>3, OfficeConstants, Zenon
  <2> QED BY <1>3, <2>1
<1>5. /\ spc[s] = "selected" /\ Len(answer_Q[s]) = 0
      /\ s \notin Queued(special_Q) /\ xinfo.id # s
      /\ \A p \in Office : info[p].id # s /\ s \notin Queued(urgent_Q[p])
  BY <1>4, OnlyQueued, Zenon
<1>6. ~Head(q).urgent
  <2>1. 1 \in 1..Len(q)
    BY <1>3
  <2> QED BY <1>2, <1>3, <2>1, Zenon
<1>8. /\ info' \in [Office -> Message \cup {O!None}] /\ info'[o] = Head(q)
      /\ opc' \in [Office -> {"free", "choosing", "accepts", "serves"}] /\ opc'[o] = "accepts"
      /\ \A p \in Office \ {o} : info'[p] = info[p] /\ opc'[p] = opc[p]
      /\ \A p \in Office : info'[p] \in Message <=> opc'[p] \in {"accepts", "serves"}
      /\ \A t \in Student : info[o].id # t
  BY <1>1, <1>3, OfficeHas, Zenon
<1>9. OfficeTypes'
  BY <1>1, <1>3, <1>8, Zenon DEF PlacesInv, OfficeTypes
<1>10. OfficeQueues'
  <2>1. normal' = Len(normal_Q')
    BY <1>1, <1>2, <1>3
  <2>2. \A k \in 1..Len(normal_Q') : ~normal_Q'[k].urgent
    BY <1>1, <1>2, <1>3, Zenon
  <2> QED BY <1>1, <1>3, <2>1, <2>2, Zenon DEF PlacesInv, OfficeQueues
<1>11. ASSUME NEW t \in Student PROVE StudentInv(t)'
  <2>1. CASE t = s
    <3>1. HasAnswers(s)
      BY <1>4, Zenon DEF PlacesInv, StudentInv
    <3>3. info'[o].id = s /\ xinfo'.id # s /\ \A p \in Office \ {o} : info'[p].id # s
      BY <1>1, <1>5, <1>8, Zenon
    <3>4. /\ s \notin Queued(normal_Q)' /\ s \notin Queued(special_Q)' /\ Len(answer_Q'[s]) = 0
          /\ spc' = spc /\ ms' = ms /\ spc'[s] = "selected" /\ ~info'[o].urgent
          /\ \A p \in Office : s \notin Queued(urgent_Q[p])'
      BY <1>1, <1>3, <1>5, <1>6, <1>8, Zenon
    <3>5. spc'[s] \in {"selected", "readmitted"}
      BY <3>4
    <3>6. StudentInv(s)'
      BY <1>4, <1>8, <3>1, <3>3, <3>4, <3>5, TakenKeeps, Zenon
    <3> QED BY <2>1, <3>6
  <2>2. CASE t # s
    <3>1. t \in Queued(normal_Q)' <=> t \in Queued(normal_Q)
      BY <1>1, <1>3, <2>2
    <3>2. /\ \A p \in Office : info'[p].id = t <=> info[p].id = t
          /\ \A p \in Office : info[p].id = t => opc'[p] = opc[p] /\ info'[p] = info[p]
      BY <1>8, <2>2, Zenon
    <3>3. SameStudent(t)
      BY <1>1, <3>1, <3>2, Zenon DEF SameStudent
    <3> QED BY <3>3, SameKeeps, Zenon DEF PlacesInv
  <2> QED BY <2>1, <2>2
<1> QED BY <1>9, <1>10, <1>11, Zenon DEF PlacesInv

\* An answer is given to student s.
LEMMA AnswerGiven ==
  ASSUME PlacesInv, NEW s \in Student, NEW m \in Message,
         answer_Q' = [answer_Q EXCEPT ![s] = Append(answer_Q[s], m)], spc' = spc, ms' = ms,
         \/ /\ Len(answer_Q[s]) = 0 /\ spc[s] \in {"selected", "readmitted", "accepted"}
            /\ spc[s] = "selected" => m.office_no \in Office
         \/ Len(answer_Q[s]) = 1 /\ spc[s] \in {"selected", "readmitted", "accepted"}
         \/ Len(answer_Q[s]) = 0 /\ spc[s] \in {"served", "final", "examined"}
  PROVE  /\ HasAnswers(s)' /\ answer_Q' \in [Student -> Seq(Message)]
         /\ Len(answer_Q[s]) = 0 => Len(answer_Q'[s]) = 1
         /\ \A t \in Student \ {s} : answer_Q'[t] = answer_Q[t]
<1>1. answer_Q \in [Student -> Seq(Message)] /\ HasAnswers(s)
  BY Zenon DEF PlacesInv, OfficeTypes, StudentInv
<1>2. /\ Append(answer_Q[s], m) \in Seq(Message)
      /\ Len(Append(answer_Q[s], m)) = Len(answer_Q[s]) + 1
      /\ \A k \in 1..Len(answer_Q[s]) : Append(answer_Q[s], m)[k] = answer_Q[s][k]
      /\ Append(answer_Q[s], m)[Len(answer_Q[s]) + 1] = m
  <2>1. answer_Q[s] \in Seq(Message)
    BY <1>1
  <2> QED BY <2>1, AppendQueued
<1>3. /\ answer_Q' \in [Student -> Seq(Message)] /\ answer_Q'[s] = Append(answer_Q[s], m)
      /\ \A t \in Student \ {s} : answer_Q'[t] = answer_Q[t]
  BY <1>1, <1>2, Update, Zenon
<1>4. /\ Len(answer_Q[s]) = 0 => Len(answer_Q'[s]) = 1 /\ answer_Q'[s][1] = m
      /\ Len(answer_Q[s]) = 1 => Len(answer_Q'[s]) = 2 /\ answer_Q'[s][1] = answer_Q[s][1]
  <2>1. ASSUME Len(answer_Q[s]) = 0 PROVE Len(answer_Q'[s]) = 1 /\ answer_Q'[s][1] = m
    BY <1>2, <1>3, <2>1
  <2>2. ASSUME Len(answer_Q[s]) = 1
        PROVE  Len(answer_Q'[s]) = 2 /\ answer_Q'[s][1] = answer_Q[s][1]
    BY <1>2, <1>3, <2>2
  <2> QED BY <2>1, <2>2
<1>5. /\ \/ spc[s] \in {"selected", "readmitted", "accepted"}
         \/ spc[s] \in {"served", "final", "examined"}
      /\ Len(answer_Q'[s]) = 1 \/ Len(answer_Q'[s]) = 2
      /\ spc[s] \in {"served", "final", "examined"} => Len(answer_Q'[s]) = 1
  <2>1. spc[s] \in {"served", "final", "examined"} => spc[s] \notin {"selected", "readmitted", "accepted"}
    OBVIOUS
  <2> QED BY <1>4, <2>1, Zenon
<1>6. /\ spc[s] \notin WaitsForNone
      /\ spc[s] \in WaitsForOne => spc[s] \in {"served", "final", "examined"}
      /\ ~(Len(answer_Q'[s]) = 0) /\ Len(answer_Q'[s]) <= 2
      /\ Len(answer_Q'[s]) = 1 => Len(answer_Q'[s]) <= 1
  <2>1. ASSUME NEW n, n = 1 \/ n = 2 PROVE ~(n = 0) /\ n <= 2 /\ (n = 1 => n <= 1)
    BY <2>1
  <2>2. \A n : n = 1 \/ n = 2 => ~(n = 0) /\ n <= 2 /\ (n = 1 => n <= 1)
    BY <2>1, Zenon
  <2>3. ASSUME NEW l, l \in {"selected", "readmitted", "accepted", "served", "final", "examined"}
        PROVE  /\ l \notin WaitsForNone
               /\ l \in WaitsForOne => l \in {"served", "final", "examined"}
    BY <2>3 DEF WaitsForNone, WaitsForOne
  <2>4. spc[s] \in {"selected", "readmitted", "accepted", "served", "final", "examined"}
    <3>1. ASSUME NEW l, \/ l \in {"selected", "readmitted", "accepted"}
                       \/ l \in {"served", "final", "examined"}
          PROVE  l \in {"selected", "readmitted", "accepted", "served", "final", "examined"}
      BY <3>1
    <3> QED BY <1>5, <3>1, Zenon
  <2> QED BY <1>5, <2>2, <2>3, <2>4, Zenon
<1>7. spc[s] = "selected" => answer_Q'[s][1].office_no \in Office
  <2>1. CASE Len(answer_Q[s]) = 0
    <3>1. spc[s] = "selected" => spc[s] \notin {"served", "final", "examined"}
      OBVIOUS
    <3>2. ~(Len(answer_Q[s]) = 1)
      BY <2>1
    <3> QED BY <1>4, <2>1, <3>1, <3>2, Zenon
  <2>2. CASE Len(answer_Q[s]) = 1
    <3>1. Len(answer_Q[s]) > 0
      BY <2>2
    <3> QED BY <1>1, <1>4, <2>2, <3>1, Zenon DEF HasAnswers
  <2> QED BY <2>1, <2>2
<1>8. HasAnswers(s)'
  BY <1>1, <1>5, <1>6, <1>7, Zenon DEF HasAnswers
<1> QED BY <1>3, <1>4, <1>8

\* Office o tells the student at it that it accepts it.
LEMMA OfficeAcceptsKeeps ==
  ASSUME PlacesInv, NEW o \in Office, NEW s, s = info[o].id, O!OfficeAccepts(o)
  PROVE  PlacesInv'
<1> DEFINE m == O!Msg(s, o, FALSE)
<1>1. /\ opc[o] = "accepts" /\ answer_Q' = [answer_Q EXCEPT ![s] = Append(answer_Q[s], m)]
      /\ opc' = [opc EXCEPT ![o] = "serves"]
      /\ normal_Q' = normal_Q /\ urgent_Q' = urgent_Q /\ special_Q' = special_Q
      /\ normal' = normal /\ urgent' = urgent /\ ms' = ms /\ info' = info
      /\ xpc' = xpc /\ xinfo' = xinfo /\ spc' = spc
  BY Zenon DEF O!OfficeAccepts, O!Answer, O!OGoto, O!students, O!special, O!cond
<1>2. s \in Student
  <2>1. opc[o] \in {"accepts", "serves"}
    BY <1>1
  <2>2. /\ info[o] \in Message <=> opc[o] \in {"accepts", "serves"}
    BY Zenon DEF PlacesInv, OfficeTypes
  <2> QED BY <2>1, <2>2, OfficeConstants, Zenon
<1>3. m \in Message /\ m.id = s /\ m.office_no = o
  <2>1. o \in Office \cup {Nobody} /\ FALSE \in BOOLEAN
    OBVIOUS
  <2> QED BY <1>2, <2>1, MessageIs, Zenon
<1> HIDE DEF m
<1>4. /\ s \notin Queued(special_Q) /\ s \notin Queued(normal_Q) /\ xinfo.id # s
      /\ \A p \in Office : s \notin Queued(urgent_Q[p])
      /\ \A p \in Office \ {o} : info[p].id # s
      /\ spc[s] \in {"selected", "readmitted"} /\ Len(answer_Q[s]) = 0
  BY <1>1, <1>2, OnlyAtOffice, Zenon
<1>5. /\ HasAnswers(s)' /\ answer_Q' \in [Student -> Seq(Message)] /\ Len(answer_Q'[s]) = 1
      /\ \A t \in Student \ {s} : answer_Q'[t] = answer_Q[t]
  <2>1. spc[s] \in {"selected", "readmitted", "accepted"}
    BY <1>4
  <2> QED BY <1>1, <1>2, <1>3, <1>4, <2>1, AnswerGiven, Zenon
<1>6. /\ opc \in [Office -> {"free", "choosing", "accepts", "serves"}]
      /\ \A p \in Office : info[p] \in Message <=> opc[p] \in {"accepts", "serves"}
  BY Zenon DEF PlacesInv, OfficeTypes
<1>7. /\ opc' \in [Office -> {"free", "choosing", "accepts", "serves"}] /\ opc'[o] = "serves"
      /\ \A p \in Office \ {o} : opc'[p] = opc[p]
  <2>1. "serves" \in {"free", "choosing", "accepts", "serves"}
    OBVIOUS
  <2> QED BY <1>1, <1>6, <2>1, Update, Zenon
<1>8. \A p \in Office : info'[p] \in Message <=> opc'[p] \in {"accepts", "serves"}
  <2>1. opc[o] \in {"accepts", "serves"} /\ opc'[o] \in {"accepts", "serves"}
    BY <1>1, <1>7
  <2> QED BY <1>1, <1>6, <1>7, <2>1, Zenon
<1>9. OfficeTypes' /\ OfficeQueues'
  BY <1>1, <1>5, <1>7, <1>8, Zenon DEF PlacesInv, OfficeTypes, OfficeQueues
<1>10. ASSUME NEW t \in Student PROVE StudentInv(t)'
  <2>1. CASE t = s
    <3>1. InQueue(s)'
      BY <1>1, <1>4, Zenon DEF InQueue
    <3>2. AtOffice(s)
      BY <1>2, Zenon DEF PlacesInv, StudentInv
    <3>3. AtOffice(s)'
      <4>1. opc'[o] # "accepts"
        BY <1>7
      <4> QED BY <1>1, <1>4, <1>5, <3>2, <4>1, Zenon DEF AtOffice
    <3> QED BY <1>5, <2>1, <3>1, <3>3, Zenon DEF StudentInv
  <2>2. CASE t # s
    <3>1. SameStudent(t)
      BY <1>1, <1>5, <1>7, <2>2, Zenon DEF SameStudent
    <3> QED BY <3>1, SameKeeps, Zenon DEF PlacesInv
  <2> QED BY <2>1, <2>2
<1> QED BY <1>9, <1>10, Zenon DEF PlacesInv

\* Office o tells the student at it how it goes on, and is free.
LEMMA OfficeAnswersKeeps ==
  ASSUME PlacesInv, NEW o \in Office, NEW s, s = info[o].id, O!OfficeAnswers(o)
  PROVE  PlacesInv'
<1>1. PICK q \in {o} \cup (IF info[o].urgent THEN {} ELSE {Nobody}) :
        answer_Q' = [answer_Q EXCEPT ![s] = Append(answer_Q[s], O!Msg(s, q, FALSE))]
  BY Zenon DEF O!OfficeAnswers, O!Answer
<1> DEFINE m == O!Msg(s, q, FALSE)
<1>2. /\ opc[o] = "serves" /\ info' = [info EXCEPT ![o] = O!None]
      /\ opc' = [opc EXCEPT ![o] = "free"]
      /\ normal_Q' = normal_Q /\ urgent_Q' = urgent_Q /\ special_Q' = special_Q
      /\ normal' = normal /\ urgent' = urgent /\ ms' = ms
      /\ xpc' = xpc /\ xinfo' = xinfo /\ spc' = spc
  BY Zenon DEF O!OfficeAnswers, O!OGoto, O!students, O!special, O!cond
<1>3. s \in Student
  <2>1. opc[o] \in {"accepts", "serves"}
    BY <1>2
  <2>2. /\ info[o] \in Message <=> opc[o] \in {"accepts", "serves"}
    BY Zenon DEF PlacesInv, OfficeTypes
  <2> QED BY <2>1, <2>2, OfficeConstants, Zenon
<1>4. m \in Message
  BY <1>3, MessageIs
<1> HIDE DEF m
<1>5. /\ s \notin Queued(special_Q) /\ s \notin Queued(normal_Q) /\ xinfo.id # s
      /\ \A p \in Office : s \notin Queued(urgent_Q[p])
      /\ \A p \in Office \ {o} : info[p].id # s
      /\ \/ spc[s] \in {"selected", "readmitted"} /\ Len(answer_Q[s]) = 1
         \/ spc[s] \in {"served", "final"} /\ Len(answer_Q[s]) = 0
  BY <1>2, <1>3, OnlyAtOffice, Zenon
<1>6. /\ HasAnswers(s)' /\ answer_Q' \in [Student -> Seq(Message)]
      /\ \A t \in Student \ {s} : answer_Q'[t] = answer_Q[t]
  <2>1. /\ spc[s] \in {"selected", "readmitted"} => spc[s] \in {"selected", "readmitted", "accepted"}
        /\ spc[s] \in {"served", "final"} => spc[s] \in {"served", "final", "examined"}
    OBVIOUS
  <2>2. answer_Q' = [answer_Q EXCEPT ![s] = Append(answer_Q[s], m)]
    BY <1>1 DEF m
  <2> QED BY <1>2, <1>3, <1>4, <1>5, <2>1, <2>2, AnswerGiven, Zenon
<1>7. /\ opc \in [Office -> {"free", "choosing", "accepts", "serves"}]
      /\ info \in [Office -> Message \cup {O!None}]
      /\ \A p \in Office : info[p] \in Message <=> opc[p] \in {"accepts", "serves"}
  BY Zenon DEF PlacesInv, OfficeTypes
<1>8. /\ opc' \in [Office -> {"free", "choosing", "accepts", "serves"}] /\ opc'[o] = "free"
      /\ \A p \in Office \ {o} : opc'[p] = opc[p]
  <2>1. "free" \in {"free", "choosing", "accepts", "serves"}
    OBVIOUS
  <2> QED BY <1>2, <1>7, <2>1, Update, Zenon
<1>9. /\ info' \in [Office -> Message \cup {O!None}] /\ info'[o] = O!None
      /\ \A p \in Office \ {o} : info'[p] = info[p]
  <2>1. O!None \in Message \cup {O!None}
    OBVIOUS
  <2> QED BY <1>2, <1>7, <2>1, Update, Zenon
<1>10. \A p \in Office : info'[p] \in Message <=> opc'[p] \in {"accepts", "serves"}
  <2>1. opc'[o] \notin {"accepts", "serves"}
    BY <1>8
  <2> QED BY <1>7, <1>8, <1>9, <2>1, OfficeConstants, Zenon
<1>11. OfficeTypes' /\ OfficeQueues'
  BY <1>2, <1>6, <1>8, <1>9, <1>10, Zenon DEF PlacesInv, OfficeTypes, OfficeQueues
<1>12. info'[o].id = Nobody /\ ~info'[o].urgent
  BY <1>9, OfficeConstants, Zenon
<1>13. ASSUME NEW t \in Student PROVE StudentInv(t)'
  <2>1. t # Nobody
    BY OfficeConstants, Zenon
  <2>2. CASE t = s
    <3>1. (\A p \in Office : info'[p].id # s) /\ xinfo'.id # s
      BY <1>2, <1>5, <1>9, <1>12, <2>1, <2>2, Zenon
    <3>2. InQueue(s)' /\ AtOffice(s)'
      BY <1>2, <1>5, <3>1, Zenon DEF InQueue, AtOffice
    <3> QED BY <1>6, <2>2, <3>2, Zenon DEF StudentInv
  <2>3. CASE t # s
    <3>1. /\ \A p \in Office : info'[p].id = t <=> info[p].id = t
          /\ \A p \in Office : info[p].id = t => opc'[p] = opc[p] /\ info'[p] = info[p]
      BY <1>8, <1>9, <1>12, <2>1, <2>3, Zenon
    <3>2. SameStudent(t)
      BY <1>2, <1>6, <2>3, <3>1, Zenon DEF SameStudent
    <3> QED BY <3>2, SameKeeps, Zenon DEF PlacesInv
  <2> QED BY <2>2, <2>3
<1> QED BY <1>11, <1>13, Zenon DEF PlacesInv

\* The special office takes a student.
LEMMA SpecialReceivesKeeps ==
  ASSUME PlacesInv, NEW s, s = Head(special_Q).id, O!SpecialReceives PROVE PlacesInv'
<1> DEFINE q == special_Q
<1>1. /\ xpc = "free" /\ q # <<>> /\ xinfo' = Head(q) /\ special_Q' = Tail(q)
      /\ xpc' = "accepts" /\ urgent_Q' = urgent_Q /\ normal_Q' = normal_Q
      /\ answer_Q' = answer_Q /\ normal' = normal /\ urgent' = urgent
      /\ ms' = ms /\ spc' = spc /\ info' = info /\ opc' = opc
  BY Zenon DEF O!SpecialReceives, O!cond, O!students, O!offices
<1>2. q \in Seq(Message) /\ Once(q)
  BY Zenon DEF PlacesInv, OfficeTypes, OfficeQueues
<1>3. /\ Tail(q) \in Seq(Message) /\ Head(q) \in Message
      /\ Queued(q) = Queued(Tail(q)) \cup {s} /\ Once(Tail(q)) /\ s \notin Queued(Tail(q))
  BY <1>1, <1>2, TailQueued
<1>4. s \in Student /\ s \in Queued(q)
  <2>1. s \in Student
    BY <1>3, OfficeConstants, Zenon
  <2> QED BY <1>3, <2>1
<1>5. /\ spc[s] = "accepted" /\ Len(answer_Q[s]) = 0 /\ s \notin Queued(normal_Q)
      /\ \A p \in Office : info[p].id # s /\ s \notin Queued(urgent_Q[p])
  BY <1>4, OnlyQueued, Zenon
<1>6. \A t \in Student : xinfo.id # t
  <2>1. xpc \notin {"accepts", "serves"}
    BY <1>1
  <2> QED BY <2>1, AtSpecialIs, Zenon
<1>7. OfficeTypes' /\ OfficeQueues'
  <2>1. /\ xpc' # "free" /\ xpc' \in {"free", "accepts", "serves"}
        /\ xinfo' \in Message /\ xinfo' \in Message \cup {O!None}
    BY <1>1, <1>3
  <2> QED BY <1>1, <1>3, <2>1, Zenon DEF PlacesInv, OfficeTypes, OfficeQueues
<1>8. ASSUME NEW t \in Student PROVE StudentInv(t)'
  <2>1. CASE t = s
    <3>1. HasAnswers(s)
      BY <1>4, Zenon DEF PlacesInv, StudentInv
    <3>2. xinfo'.id = s /\ xpc' # "serves"
      BY <1>1
    <3>3. InQueue(s)' /\ AtOffice(s)'
      BY <1>1, <1>3, <1>5, <3>2, Zenon DEF InQueue, AtOffice
    <3>4. HasAnswers(s)'
      BY <1>1, <3>1, <3>2, Zenon DEF HasAnswers, HasPlace
    <3> QED BY <2>1, <3>3, <3>4, Zenon DEF StudentInv
  <2>2. CASE t # s
    <3>1. t \in Queued(special_Q)' <=> t \in Queued(special_Q)
      BY <1>1, <1>3, <2>2
    <3>2. xinfo'.id # t /\ xinfo.id # t
      BY <1>1, <1>6, <2>2, Zenon
    <3>3. SameStudent(t)
      BY <1>1, <3>1, <3>2, Zenon DEF SameStudent
    <3> QED BY <3>3, SameKeeps, Zenon DEF PlacesInv
  <2> QED BY <2>1, <2>2
<1> QED BY <1>7, <1>8, Zenon DEF PlacesInv

\* The special office tells the student at it that it accepts it.
LEMMA SpecialAcceptsKeeps ==
  ASSUME PlacesInv, NEW s, s = xinfo.id, O!SpecialAccepts PROVE PlacesInv'
<1> DEFINE m == O!Msg(s, xinfo.office_no, FALSE)
<1>1. /\ xpc = "accepts" /\ answer_Q' = [answer_Q EXCEPT ![s] = Append(answer_Q[s], m)]
      /\ xpc' = "serves" /\ xinfo' = xinfo /\ special_Q' = special_Q
      /\ urgent_Q' = urgent_Q /\ normal_Q' = normal_Q /\ normal' = normal /\ urgent' = urgent
      /\ ms' = ms /\ spc' = spc /\ info' = info /\ opc' = opc
  BY Zenon DEF O!SpecialAccepts, O!Answer, O!cond, O!students, O!offices
<1>2. xinfo \in Message /\ s \in Student
  <2>1. xpc # "free"
    BY <1>1
  <2>2. xinfo \in Message <=> xpc # "free"
    BY Zenon DEF PlacesInv, OfficeTypes
  <2> QED BY <2>1, <2>2, OfficeConstants, Zenon
<1>3. m \in Message
  <2>1. xinfo.office_no \in Office \cup {Nobody}
    BY <1>2 DEF Message
  <2> QED BY <1>2, <2>1, MessageIs
<1> HIDE DEF m
<1>4. /\ s \notin Queued(special_Q) /\ s \notin Queued(normal_Q)
      /\ \A p \in Office : s \notin Queued(urgent_Q[p]) /\ info[p].id # s
      /\ spc[s] = "accepted" /\ Len(answer_Q[s]) = 0
  BY <1>1, <1>2, OnlyAtOffice, Zenon
<1>5. /\ HasAnswers(s)' /\ answer_Q' \in [Student -> Seq(Message)] /\ Len(answer_Q'[s]) = 1
      /\ \A t \in Student \ {s} : answer_Q'[t] = answer_Q[t]
  <2>1. spc[s] \in {"selected", "readmitted", "accepted"} /\ spc[s] # "selected"
    BY <1>4
  <2> QED BY <1>1, <1>2, <1>3, <1>4, <2>1, AnswerGiven, Zenon
<1>6. OfficeTypes' /\ OfficeQueues'
  <2>1. xpc' # "free" /\ xpc' \in {"free", "accepts", "serves"}
    BY <1>1
  <2> QED BY <1>1, <1>2, <1>5, <2>1, Zenon DEF PlacesInv, OfficeTypes, OfficeQueues
<1>7. ASSUME NEW t \in Student PROVE StudentInv(t)'
  <2>1. CASE t = s
    <3>1. xpc' # "accepts"
      BY <1>1
    <3>2. InQueue(s)' /\ AtOffice(s)'
      BY <1>1, <1>4, <1>5, <3>1, Zenon DEF InQueue, AtOffice
    <3> QED BY <1>5, <2>1, <3>2, Zenon DEF StudentInv
  <2>2. CASE t # s
    <3>1. SameStudent(t)
      BY <1>1, <1>5, <2>2, Zenon DEF SameStudent
    <3> QED BY <3>1, SameKeeps, Zenon DEF PlacesInv
  <2> QED BY <2>1, <2>2
<1> QED BY <1>6, <1>7, Zenon DEF PlacesInv

\* The special office sends the student at it back, and is free.
LEMMA SpecialAnswersKeeps ==
  ASSUME PlacesInv, NEW s, s = xinfo.id, O!SpecialAnswers PROVE PlacesInv'
<1> DEFINE m == O!Msg(s, xinfo.office_no, TRUE)
<1>1. /\ xpc = "serves" /\ answer_Q' = [answer_Q EXCEPT ![s] = Append(answer_Q[s], m)]
      /\ xpc' = "free" /\ xinfo' = O!None /\ special_Q' = special_Q
      /\ urgent_Q' = urgent_Q /\ normal_Q' = normal_Q /\ normal' = normal /\ urgent' = urgent
      /\ ms' = ms /\ spc' = spc /\ info' = info /\ opc' = opc
  BY Zenon DEF O!SpecialAnswers, O!Answer, O!cond, O!students, O!offices
<1>2. xinfo \in Message /\ s \in Student
  <2>1. xpc # "free"
    BY <1>1
  <2>2. xinfo \in Message <=> xpc # "free"
    BY Zenon DEF PlacesInv, OfficeTypes
  <2> QED BY <2>1, <2>2, OfficeConstants, Zenon
<1>3. m \in Message
  <2>1. xinfo.office_no \in Office \cup {Nobody}
    BY <1>2 DEF Message
  <2> QED BY <1>2, <2>1, MessageIs
<1> HIDE DEF m
<1>4. /\ s \notin Queued(special_Q) /\ s \notin Queued(normal_Q)
      /\ \A p \in Office : s \notin Queued(urgent_Q[p]) /\ info[p].id # s
      /\ \/ spc[s] = "accepted" /\ Len(answer_Q[s]) = 1
         \/ spc[s] = "examined" /\ Len(answer_Q[s]) = 0
  BY <1>1, <1>2, OnlyAtOffice, Zenon
<1>5. /\ HasAnswers(s)' /\ answer_Q' \in [Student -> Seq(Message)]
      /\ \A t \in Student \ {s} : answer_Q'[t] = answer_Q[t]
  <2>1. /\ spc[s] = "accepted" => spc[s] \in {"selected", "readmitted", "accepted"}
        /\ spc[s] = "examined" => spc[s] \in {"served", "final", "examined"}
    OBVIOUS
  <2> QED BY <1>1, <1>2, <1>3, <1>4, <2>1, AnswerGiven, Zenon
<1>6. OfficeTypes' /\ OfficeQueues'
  <2>1. /\ xpc' \in {"free", "accepts", "serves"} /\ xinfo' \in Message \cup {O!None}
        /\ xinfo' \notin Message
    BY <1>1, OfficeConstants
  <2> QED BY <1>1, <1>2, <1>5, <2>1, Zenon DEF PlacesInv, OfficeTypes, OfficeQueues
<1>7. \A t \in Student : xinfo'.id # t
  BY <1>1, OfficeConstants, Zenon
<1>8. ASSUME NEW t \in Student PROVE StudentInv(t)'
  <2>1. CASE t = s
    <3>1. InQueue(s)' /\ AtOffice(s)'
      BY <1>1, <1>2, <1>4, <1>7, Zenon DEF InQueue, AtOffice
    <3> QED BY <1>5, <2>1, <3>1, Zenon DEF StudentInv
  <2>2. CASE t # s
    <3>1. SameStudent(t)
      BY <1>1, <1>5, <1>7, <2>2, Zenon DEF SameStudent
    <3> QED BY <3>1, SameKeeps, Zenon DEF PlacesInv
  <2> QED BY <2>1, <2>2
<1> QED BY <1>6, <1>8, Zenon DEF PlacesInv

\* In the first state nobody is anywhere.
LEMMA OfficesStart == O!Init => PlacesInv
<1> SUFFICES ASSUME O!Init PROVE PlacesInv
  OBVIOUS
<1>1. /\ normal_Q = <<>> /\ special_Q = <<>>
      /\ urgent_Q = [o \in Office |-> <<>>] /\ answer_Q = [s \in Student |-> <<>>]
      /\ normal = 0 /\ urgent = [o \in Office |-> 0]
      /\ spc = [s \in Student |-> "arrives"] /\ ms = [s \in Student |-> Nobody]
      /\ opc = [o \in Office |-> "free"] /\ info = [o \in Office |-> O!None]
      /\ xpc = "free" /\ xinfo = O!None
  BY Zenon DEF O!Init
<1>2. /\ <<>> \in Seq(Message) /\ Len(<<>>) = 0 /\ 1..Len(<<>>) = {}
      /\ Queued(<<>>) = {} /\ Once(<<>>)
  <2>1. /\ <<>> \in Seq(Message) /\ Len(<<>>) = 0
    OBVIOUS
  <2>2. 1..Len(<<>>) = {}
    BY <2>1
  <2> QED BY <2>1, <2>2, Zenon DEF Queued, Once
<1>3. /\ "arrives" \in StudentPlaces /\ "arrives" \in WaitsForNone
      /\ "free" \in {"free", "choosing", "accepts", "serves"}
      /\ "free" \in {"free", "accepts", "serves"}
      /\ "free" \notin {"accepts", "serves"}
  BY DEF StudentPlaces, WaitsForNone
<1>4. OfficeTypes
  <2>1. spc \in [Student -> StudentPlaces] /\ ms \in [Student -> Office \cup {Nobody}]
    BY <1>1, <1>3
  <2>2. opc \in [Office -> {"free", "choosing", "accepts", "serves"}]
    BY <1>1, <1>3, Zenon
  <2>3. info \in [Office -> Message \cup {O!None}]
    BY <1>1
  <2>4. urgent_Q \in [Office -> Seq(Message)] /\ answer_Q \in [Student -> Seq(Message)]
    BY <1>1, <1>2
  <2>5. \A o \in Office : info[o] \in Message <=> opc[o] \in {"accepts", "serves"}
    BY <1>1, <1>3, OfficeConstants, Zenon
  <2>6. /\ xpc \in {"free", "accepts", "serves"} /\ xinfo \in Message \cup {O!None}
        /\ xinfo \in Message <=> xpc # "free"
    BY <1>1, <1>3, OfficeConstants, Zenon
  <2> QED BY <1>1, <1>2, <2>1, <2>2, <2>3, <2>4, <2>5, <2>6, Zenon DEF OfficeTypes
<1>5. OfficeQueues
  <2>1. urgent \in [Office -> Nat]
    BY <1>1
  <2>2. \A o \in Office : urgent[o] = Len(urgent_Q[o]) /\ Once(urgent_Q[o])
    BY <1>1, <1>2, Zenon
  <2> QED BY <1>1, <1>2, <2>1, <2>2, Zenon DEF OfficeQueues
<1>6. ASSUME NEW s \in Student PROVE StudentInv(s)
  <2>1. spc[s] = "arrives" /\ answer_Q[s] = <<>>
    BY <1>1
  <2>2. /\ \A o \in Office : info[o].id # s /\ s \notin Queued(urgent_Q[o])
        /\ xinfo.id # s /\ s \notin Queued(normal_Q) /\ s \notin Queued(special_Q)
    BY <1>1, <1>2, OfficeConstants, Zenon
  <2>3. InQueue(s) /\ AtOffice(s)
    BY <2>2, Zenon DEF InQueue, AtOffice
  <2>4. /\ spc[s] \notin WaitsForTwo /\ spc[s] \notin WaitsForOne /\ spc[s] # "selected"
        /\ spc[s] \notin {"served", "sent", "accepted", "examined", "returns", "requeues",
                          "readmitted", "final"}
        /\ Len(answer_Q[s]) = 0 /\ Len(answer_Q[s]) <= 2
    BY <1>2, <2>1 DEF WaitsForTwo, WaitsForOne
  <2>5. HasAnswers(s)
    BY <2>4, Zenon DEF HasAnswers
  <2> QED BY <2>3, <2>5 DEF StudentInv
<1> QED BY <1>4, <1>5, <1>6, Zenon DEF PlacesInv

\* Every step keeps a student in one place.
LEMMA OfficesNext == PlacesInv /\ [O!Next]_(O!vars) => PlacesInv'
<1> SUFFICES ASSUME PlacesInv, [O!Next]_(O!vars) PROVE PlacesInv'
  OBVIOUS
<1>1. CASE UNCHANGED O!vars
  <2>1. /\ normal_Q' = normal_Q /\ special_Q' = special_Q /\ urgent_Q' = urgent_Q
        /\ answer_Q' = answer_Q /\ normal' = normal /\ urgent' = urgent
        /\ spc' = spc /\ ms' = ms /\ opc' = opc /\ info' = info /\ xpc' = xpc /\ xinfo' = xinfo
    BY <1>1, Zenon DEF O!vars, O!queues, O!cond, O!students, O!offices, O!special
  <2>2. \A s \in Student : SameStudent(s)
    BY <2>1, Zenon DEF SameStudent
  <2>3. \A s \in Student : StudentInv(s)'
    BY <2>2, SameKeeps, Zenon DEF PlacesInv
  <2>4. OfficeTypes' /\ OfficeQueues'
    BY <2>1, Zenon DEF PlacesInv, OfficeTypes, OfficeQueues
  <2> QED BY <2>3, <2>4, Zenon DEF PlacesInv
<1>2. CASE \E s \in Student : O!StudentStep(s)
  <2>1. PICK s \in Student : O!StudentStep(s)
    BY <1>2
  <2>2. CASE O!StudentLocks(s) \/ O!StudentLeaves(s)
    BY <2>2, StudentMovesKeep, Zenon
  <2>3. CASE O!StudentQueues(s)
    BY <2>3, StudentQueuesKeeps, Zenon
  <2>4. CASE O!StudentRequeues(s)
    BY <2>4, StudentRequeuesKeeps, Zenon
  <2>5. CASE O!StudentReceives(s)
    BY <2>5, StudentReceivesKeeps, Zenon
  <2>6. CASE O!StudentToSpecial(s)
    BY <2>6, StudentToSpecialKeeps, Zenon
  <2> QED BY <2>1, <2>2, <2>3, <2>4, <2>5, <2>6, Zenon DEF O!StudentStep
<1>3. CASE \E o \in Office : O!OfficeStep(o) \/ O!OfficeWakesUp(o)
  <2>1. PICK o \in Office : O!OfficeStep(o) \/ O!OfficeWakesUp(o)
    BY <1>3
  <2>2. CASE O!OfficeLocks(o) \/ O!OfficeWaits(o) \/ O!OfficeWakesUp(o)
    BY <2>2, OfficeMovesKeep, Zenon
  <2>3. CASE O!OfficeTakesUrgent(o)
    BY <2>3, OfficeTakesUrgentKeeps, Zenon
  <2>4. CASE O!OfficeTakesNormal(o)
    BY <2>4, OfficeTakesNormalKeeps, Zenon
  <2>5. CASE O!OfficeAccepts(o)
    BY <2>5, OfficeAcceptsKeeps, Zenon
  <2>6. CASE O!OfficeAnswers(o)
    BY <2>6, OfficeAnswersKeeps, Zenon
  <2> QED BY <2>1, <2>2, <2>3, <2>4, <2>5, <2>6, Zenon DEF O!OfficeStep
<1>4. CASE O!SpecialStep
  <2>1. CASE O!SpecialReceives
    BY <2>1, SpecialReceivesKeeps, Zenon
  <2>2. CASE O!SpecialAccepts
    BY <2>2, SpecialAcceptsKeeps, Zenon
  <2>3. CASE O!SpecialAnswers
    BY <2>3, SpecialAnswersKeeps, Zenon
  <2> QED BY <1>4, <2>1, <2>2, <2>3, Zenon DEF O!SpecialStep
<1> QED BY <1>1, <1>2, <1>3, <1>4, Zenon DEF O!Next

\* A set with no two elements has at most one.
LEMMA AtMostOne ==
  ASSUME NEW S, \A x, y \in S : x = y PROVE O!Cardinality(S) <= 1
<1>1. O!Cardinality(S) = Cardinality(S)
  BY Zenon DEF O!Cardinality, Cardinality, O!IsFiniteSet, IsFiniteSet
<1>2. CASE S = {}
  <2>1. Cardinality(S) = 0
    BY <1>2, FS_EmptySet, Zenon
  <2> QED BY <1>1, <2>1
<1>3. CASE S # {}
  <2>1. PICK x \in S : S = {x}
    BY <1>3
  <2>2. Cardinality(S) = 1
    BY <2>1, FS_Singleton, Zenon
  <2> QED BY <1>1, <2>2
<1> QED BY <1>2, <1>3

\* The places of a student, as Offices counts them.
LEMMA PlacesOf ==
  ASSUME PlacesInv, NEW s \in Student
  PROVE  /\ \A x, y \in O!Places(s) : x = y
         /\ O!Places(s) # {} <=> HasPlace(s)
<1> DEFINE N  == {<<"normal", k>> : k \in {k \in 1..Len(normal_Q) : normal_Q[k].id = s}}
           X  == {<<"special", k>> : k \in {k \in 1..Len(special_Q) : special_Q[k].id = s}}
           U(o) == {<<o, k>> : k \in {k \in 1..Len(urgent_Q[o]) : urgent_Q[o][k].id = s}}
           I  == {<<o, 0>> : o \in {o \in Office : info[o].id = s}}
           XI == IF xinfo.id = s THEN {<<"special", 0>>} ELSE {}
<1>1. \A x : x \in O!Places(s) <=> \/ x \in N \/ x \in X \/ x \in I \/ x \in XI
                                   \/ \E o \in Office : x \in U(o)
  <2>1. O!Places(s) = N \cup X \cup (UNION {U(o) : o \in Office}) \cup I \cup XI
    BY Zenon DEF O!Places
  <2> HIDE DEF N, X, U, I, XI
  <2> QED BY <2>1
<1>2. /\ N # {} <=> s \in Queued(normal_Q)
      /\ X # {} <=> s \in Queued(special_Q)
      /\ \A o \in Office : U(o) # {} <=> s \in Queued(urgent_Q[o])
      /\ I # {} <=> \E o \in Office : info[o].id = s
      /\ XI # {} <=> xinfo.id = s
  BY Zenon DEF Queued
<1>3. /\ \A x, y \in N : x = y
      /\ \A x, y \in X : x = y
      /\ \A o \in Office : \A x, y \in U(o) : x = y
  <2>1. Once(normal_Q) /\ Once(special_Q) /\ \A o \in Office : Once(urgent_Q[o])
    BY Zenon DEF PlacesInv, OfficeQueues
  <2> QED BY <2>1, Zenon DEF Once
<1>4. \A x, y \in XI : x = y
  OBVIOUS
<1>5. \A x, y \in I : x = y
  <2>1. \A o, p \in Office : info[o].id = s /\ info[p].id = s => o = p
    BY Zenon DEF PlacesInv, StudentInv, AtOffice
  <2> QED BY <2>1, Zenon
<1> HIDE DEF N, X, U, I, XI
<1>6. \A x, y \in O!Places(s) : x = y
  <2>1. CASE s \in Queued(normal_Q)
    BY <1>1, <1>2, <1>3, <2>1, OnlyQueued, SMTT(60)
  <2>2. CASE s \in Queued(special_Q)
    BY <1>1, <1>2, <1>3, <2>2, OnlyQueued, SMTT(60)
  <2>3. CASE \E o \in Office : s \in Queued(urgent_Q[o])
    <3>1. PICK o \in Office : s \in Queued(urgent_Q[o])
      BY <2>3
    <3>2. /\ s \notin Queued(special_Q) /\ s \notin Queued(normal_Q) /\ xinfo.id # s
          /\ \A p \in Office : info[p].id # s
          /\ \A p \in Office \ {o} : s \notin Queued(urgent_Q[p])
      BY <3>1, OnlyQueued, Zenon
    <3>3. N = {} /\ X = {} /\ I = {} /\ XI = {} /\ \A p \in Office \ {o} : U(p) = {}
      BY <1>2, <3>2, Zenon
    <3>4. O!Places(s) \subseteq U(o)
      BY <1>1, <3>3
    <3> QED BY <1>3, <3>4, Zenon
  <2>4. CASE \E o \in Office : info[o].id = s
    BY <1>1, <1>2, <1>5, <2>4, OnlyAtOffice, Zenon
  <2>5. CASE xinfo.id = s
    BY <1>1, <1>2, <1>4, <2>5, OnlyAtOffice, SMTT(60)
  <2> QED BY <1>1, <1>2, <2>1, <2>2, <2>3, <2>4, <2>5, Zenon
<1>7. O!Places(s) # {} <=> HasPlace(s)
  <2>1. O!Places(s) # {} <=> \/ N # {} \/ X # {} \/ I # {} \/ XI # {}
                             \/ \E o \in Office : U(o) # {}
    BY <1>1, Zenon
  <2> QED BY <1>2, <2>1, Zenon DEF HasPlace
<1> QED BY <1>6, <1>7

\* That is what is claimed of the offices.
LEMMA PlacesAre == PlacesInv => O!CountersInv /\ O!OnePlace
<1> SUFFICES ASSUME PlacesInv PROVE O!CountersInv /\ O!OnePlace
  OBVIOUS
<1>1. O!CountersInv
  BY Zenon DEF O!CountersInv, PlacesInv, OfficeQueues
<1>2. ASSUME NEW s \in Student
      PROVE  /\ O!Cardinality(O!Places(s)) <= 1
             /\ O!Places(s) # {} => spc[s] \in {"selected", "served", "accepted", "examined",
                                                "readmitted", "final"}
             /\ spc[s] \in {"selected", "accepted", "readmitted"} /\ answer_Q[s] = <<>>
                  => O!Places(s) # {}
  <2>1. O!Cardinality(O!Places(s)) <= 1
    BY PlacesOf, AtMostOne, Zenon
  <2>2. ASSUME HasPlace(s)
        PROVE  spc[s] \in {"selected", "served", "accepted", "examined", "readmitted", "final"}
    <3>1. spc[s] \in WaitsForTwo \cup WaitsForOne
      BY <2>2, PlaceIs, Zenon
    <3> QED BY <3>1 DEF WaitsForTwo, WaitsForOne
  <2>3. ASSUME spc[s] \in {"selected", "accepted", "readmitted"}, answer_Q[s] = <<>>
        PROVE  HasPlace(s)
    <3>1. Len(answer_Q[s]) = 0
      BY <2>3
    <3>2. HasAnswers(s)
      BY Zenon DEF PlacesInv, StudentInv
    <3> QED BY <2>3, <3>1, <3>2, Zenon DEF HasAnswers, WaitsForTwo
  <2> QED BY <2>1, <2>2, <2>3, PlacesOf, Zenon
<1>3. ASSUME NEW o \in Office, info[o].urgent PROVE ms[info[o].id] = o
  <2>1. info[o] \in Message
    BY <1>3, OfficeConstants, Zenon DEF PlacesInv, OfficeTypes
  <2>2. info[o].id \in Student
    BY <2>1, OfficeConstants, Zenon
  <2> QED BY <1>3, <2>2, Zenon DEF PlacesInv, StudentInv, AtOffice
<1> QED BY <1>1, <1>2, <1>3, Zenon DEF O!OnePlace

\* lab3.1, for any number of students and offices and any size of the queues:
\* the counters that decide whether an office waits are the lengths of the
\* queues, and a student is queued once or at one office, and only while it
\* waits for an answer.
THEOREM OfficesAreSafe == O!Spec => [](O!CountersInv /\ O!OnePlace)
BY OfficesStart, OfficesNext, PlacesAre, PTL DEF O!Spec

\* The behaviours of the labs are behaviours of lab3.1.
LEMMA LabHasOffices == LabSpec => O!Spec
<1>1. LabInit => O!Init
  BY Zenon DEF LabInit
<1>2. [LabNext]_labVars => [O!Next]_(O!vars)
  <2>1. UNCHANGED offices => UNCHANGED O!vars
    BY Zenon DEF offices, O!vars, O!queues, O!cond, O!students, O!offices, O!special
  <2>2. ASSUME LabNext PROVE [O!Next]_(O!vars)
    <3>1. CASE lab = "offices"
      BY <2>2, <3>1, SMTT(10) DEF LabNext
    <3>2. CASE lab # "offices"
      BY <2>1, <2>2, <3>2, Zenon DEF LabNext
    <3> QED BY <3>1, <3>2
  <2>3. UNCHANGED labVars => UNCHANGED offices
    BY Zenon DEF labVars
  <2> QED BY <2>1, <2>2, <2>3
<1> QED BY <1>1, <1>2, PTL DEF LabSpec, O!Spec

\* So it is in every execution of every program of the labs.
THEOREM LabOfficesAreSafe == LabSpec => []OfficesInv
BY LabHasOffices, OfficesAreSafe, PTL DEF OfficesInv

-----------------------------------------------------------------------------
(* lab4.2: the threads that sort, and their two barriers. *)

SortPlaces == {"sorts", "arrives", "swaps", "waits1", "leaves", "waits2", "tests", "ends"}

\* The threads at the first barrier, and at the second.
At1 == {t \in B!Thread : sortAt[t] = "waits1"}
At2 == {t \in B!Thread : sortAt[t] = "waits2"}

SortTypes ==
  /\ vet \in [B!Index -> Int] /\ runningThreadsSorting \in Int
  /\ sem1 \in Nat /\ sem2 \in Nat /\ swapsCount \in Nat
  /\ sortAt \in [B!Thread -> SortPlaces] /\ sortPosts \in [B!Thread -> Nat]

RegionSorted(t) == \A k \in B!Region(t) : k + 1 \in B!Region(t) => vet[k] <= vet[k + 1]

\* One thread at a barrier posts, and what it has posted and has still to post
\* is for the threads that are there.
Posting(s, W) ==
  \E p \in B!Thread : /\ sortPosts[p] > 0 => p \in W
                      /\ \A t \in B!Thread \ {p} : sortPosts[t] = 0
                      /\ s + sortPosts[p] = Cardinality(W)

\* The threads go on for a turn, or they end.
Going ==
  /\ \A t \in B!Thread : sortAt[t] # "ends"
  /\ (\E t \in B!Thread : sortAt[t] \in {"waits2", "tests"}) => swapsCount > 0
  /\ \A t \in B!Thread : sortAt[t] \in {"arrives", "waits1"} => RegionSorted(t)
Ending ==
  /\ swapsCount = 0 /\ B!Sorted
  /\ \A t \in B!Thread : sortAt[t] \in {"waits2", "tests", "ends"}

\* The stages of a turn.
Working ==
  /\ \A t \in B!Thread : sortAt[t] \notin {"swaps", "leaves"}
  /\ sem1 = 0 /\ runningThreadsSorting > 0
  /\ runningThreadsSorting = nthreads - Cardinality(At1)
  /\ Posting(sem2, At2) /\ (Going \/ Ending)
Swapping ==
  /\ \E t \in B!Thread : /\ sortAt[t] = "swaps"
                         /\ \A u \in B!Thread \ {t} : sortAt[u] = "waits1"
  /\ sem1 = 0 /\ sem2 = 0 /\ runningThreadsSorting = 0
  /\ \A t \in B!Thread : sortPosts[t] = 0 /\ RegionSorted(t)
Leaving ==
  /\ \A t \in B!Thread : sortAt[t] \in {"waits1", "leaves", "waits2"}
  /\ sem2 = 0 /\ runningThreadsSorting < nthreads
  /\ runningThreadsSorting = Cardinality(At2)
  /\ Posting(sem1, At1) /\ (swapsCount = 0 => B!Sorted)

BarrierInv == SortTypes /\ (Working \/ Swapping \/ Leaving)

\* The module counts as the library does.
LEMMA SortCardinality == \A S : B!Cardinality(S) = Cardinality(S)
BY Zenon DEF B!Cardinality, Cardinality, B!IsFiniteSet, IsFiniteSet

\* What is known of the constants, and the number of threads.
LEMMA SortConstants ==
  /\ nthreads \in Nat /\ nthreads > 0 /\ Size \in Nat /\ Size > 1 /\ Element \subseteq Int
  /\ B!Thread = 1..nthreads /\ IsFiniteSet(B!Thread) /\ Cardinality(B!Thread) = nthreads
  /\ 1 \in B!Thread
<1>1. nthreads \in Nat \ {0} /\ Size \in Nat \ {0, 1} /\ Element \subseteq Int
  BY LabAssumption, Zenon DEF LabAssumption, B!SortAssumption
<1>2. IsFiniteSet(1..nthreads) /\ Cardinality(1..nthreads) = nthreads
  <2>1. 1 \in Int /\ nthreads \in Int /\ ~(1 > nthreads) /\ nthreads - 1 + 1 = nthreads
    BY <1>1
  <2> QED BY <2>1, FS_Interval, Zenon
<1>3. B!Thread = 1..nthreads
  BY DEF B!Thread
<1> QED BY <1>1, <1>2, <1>3

\* Multiplication keeps an order.
LEMMA TimesOrder ==
  ASSUME NEW a \in Int, NEW b \in Int, NEW z \in Nat, a <= b PROVE a * z <= b * z
OBVIOUS

\* The next region begins where one ends.
LEMMA RegionLength ==
  ASSUME NEW t \in Int, NEW z \in Nat PROVE t * z = (t - 1) * z + z /\ t * z \in Int /\ (t - 1) * z \in Int
OBVIOUS

\* The regions are parts of the array, and apart.
LEMMA Regions ==
  ASSUME NEW t \in B!Thread
  PROVE  /\ B!Region(t) \subseteq B!Index /\ B!Region(t) \subseteq Int
         /\ IsFiniteSet(B!Region(t)) /\ Cardinality(B!Region(t)) = Size
         /\ (t - 1) * Size + 1 \in B!Region(t)
         /\ \A u \in B!Thread \ {t} : B!Region(u) \cap B!Region(t) = {}
<1>1. t \in Int /\ 1 <= t /\ t <= nthreads /\ nthreads \in Int /\ Size \in Nat /\ Size > 1
  BY SortConstants
<1>2. /\ t * Size = (t - 1) * Size + Size /\ t * Size \in Int /\ (t - 1) * Size \in Int
  BY <1>1, RegionLength
<1>3. 0 <= (t - 1) * Size /\ t * Size <= nthreads * Size /\ nthreads * Size \in Int
  <2>1. 0 * Size <= (t - 1) * Size
    BY <1>1, TimesOrder
  <2>2. t * Size <= nthreads * Size
    BY <1>1, TimesOrder
  <2>3. nthreads * Size \in Int /\ 0 * Size = 0
    BY <1>1
  <2> QED BY <2>1, <2>2, <2>3
<1> DEFINE a == (t - 1) * Size
           b == t * Size
           c == nthreads * Size
<1>4. B!Region(t) = a + 1 .. b /\ B!Index = 1..c
  BY DEF B!Region, B!Index
<1>5. a \in Int /\ b \in Int /\ c \in Int /\ b = a + Size /\ 0 <= a /\ b <= c
  BY <1>2, <1>3
<1>6. ASSUME NEW u \in B!Thread \ {t} PROVE B!Region(u) \cap B!Region(t) = {}
  <2>1. u \in Int /\ u # t
    BY SortConstants
  <2> DEFINE a2 == (u - 1) * Size
             b2 == u * Size
  <2>2. B!Region(u) = a2 + 1 .. b2 /\ a2 \in Int /\ b2 \in Int
    BY <1>1, <2>1 DEF B!Region
  <2>3. b <= a2 \/ b2 <= a
    <3>1. CASE t < u
      <4>1. t <= u - 1 /\ u - 1 \in Int
        BY <1>1, <2>1, <3>1
      <4>2. b <= a2
        BY <1>1, <4>1, TimesOrder
      <4> QED BY <4>2
    <3>2. CASE u < t
      <4>1. u <= t - 1 /\ t - 1 \in Int
        BY <1>1, <2>1, <3>2
      <4>2. b2 <= a
        BY <1>1, <2>1, <4>1, TimesOrder
      <4> QED BY <4>2
    <3> QED BY <1>1, <2>1, <3>1, <3>2
  <2> HIDE DEF a, b, c, a2, b2
  <2> QED BY <1>4, <1>5, <2>2, <2>3
<1> HIDE DEF a, b, c
<1>7. IsFiniteSet(a + 1 .. b) /\ Cardinality(a + 1 .. b) = Size
  <2>1. a + 1 \in Int /\ b \in Int /\ ~(a + 1 > b) /\ b - (a + 1) + 1 = Size
    BY <1>1, <1>5
  <2> QED BY <2>1, FS_Interval, Zenon
<1>8. a + 1 \in a + 1 .. b /\ a + 1 .. b \subseteq 1..c /\ a + 1 .. b \subseteq Int
  BY <1>1, <1>5
<1> QED BY <1>4, <1>6, <1>7, <1>8 DEF a

\* Two places side by side are in one region or at a boundary.
LEMMA SideBySide ==
  ASSUME NEW k \in B!Index \ {nthreads * Size}
  PROVE  /\ k + 1 \in B!Index /\ k \in Int
         /\ \/ k \in B!Boundaries
            \/ \E t \in B!Thread : k \in B!Region(t) /\ k + 1 \in B!Region(t)
<1>1. nthreads \in Nat /\ nthreads > 0 /\ Size \in Nat \ {0} /\ Size > 1
  BY SortConstants
<1> DEFINE c == nthreads * Size
           x == (k - 1) \div Size
           r == (k - 1) % Size
           y == Size * x
<1>2. c \in Int /\ B!Index = 1..c
  BY <1>1 DEF B!Index
<1>3. k \in Int /\ 1 <= k /\ k < c /\ k + 1 \in B!Index
  BY <1>2
<1>4. r \in 0..Size - 1 /\ x \in Int /\ k - 1 = y + r
  <2>1. k - 1 \in Int
    BY <1>3
  <2> QED BY <1>1, <2>1, DivMod, Zenon
<1> HIDE DEF x, r
<1>5. y \in Int /\ y = x * Size /\ (x + 1) * Size = y + Size /\ (x + 1) - 1 = x
  BY <1>1, <1>4
<1>6. 0 <= x
  <2>1. CASE x <= -1
    <3>1. x * Size <= (-1) * Size
      BY <1>1, <1>4, <2>1, TimesOrder
    <3>2. (-1) * Size = -Size
      BY <1>1
    <3> HIDE DEF y
    <3> QED BY <1>1, <1>3, <1>4, <1>5, <3>1, <3>2
  <2> QED BY <1>4, <2>1
<1>7. x < nthreads
  <2>1. CASE nthreads <= x
    <3>1. c <= x * Size
      BY <1>1, <1>4, <2>1, TimesOrder
    <3> HIDE DEF y, c
    <3> QED BY <1>1, <1>2, <1>3, <1>4, <1>5, <3>1
  <2> QED BY <1>1, <1>4, <2>1
<1>8. x + 1 \in B!Thread /\ x + 1 \in Int
  BY <1>1, <1>4, <1>6, <1>7, SortConstants
<1>9. B!Region(x + 1) = y + 1 .. y + Size
  BY <1>5, Zenon DEF B!Region
<1> HIDE DEF y
<1>10. CASE r < Size - 1
  <2>1. k \in y + 1 .. y + Size /\ k + 1 \in y + 1 .. y + Size
    BY <1>1, <1>3, <1>4, <1>5, <1>10
  <2> QED BY <1>3, <1>8, <1>9, <2>1
<1>11. CASE r = Size - 1
  <2>1. k = (x + 1) * Size
    BY <1>1, <1>3, <1>4, <1>5, <1>11
  <2>2. x + 1 # nthreads
    BY <1>3, <2>1
  <2>3. x + 1 \in 1..nthreads - 1
    BY <1>1, <1>4, <1>6, <1>7, <2>2
  <2>4. k \in B!Boundaries
    BY <2>1, <2>3, Zenon DEF B!Boundaries
  <2> QED BY <1>3, <2>4
<1> QED BY <1>1, <1>4, <1>10, <1>11

\* The values of a region.
LEMMA ValuesOf ==
  ASSUME SortTypes, NEW t \in B!Thread
  PROVE  /\ {vet[j] : j \in B!Region(t)} \subseteq Int
         /\ IsFiniteSet({vet[j] : j \in B!Region(t)})
         /\ {vet[j] : j \in B!Region(t)} # {}
<1> DEFINE V == {vet[j] : j \in B!Region(t)}
           f == [j \in B!Region(t) |-> vet[j]]
<1>1. /\ vet \in [B!Index -> Int] /\ B!Region(t) \subseteq B!Index
      /\ IsFiniteSet(B!Region(t)) /\ B!Region(t) # {}
  BY Regions, Zenon DEF SortTypes
<1>2. f \in Surjection(B!Region(t), V)
  BY DEF Surjection
<1>3. IsFiniteSet(V)
  <2> HIDE DEF f, V
  <2> QED BY <1>1, <1>2, FS_Surjection, Zenon
<1> QED BY <1>1, <1>3

\* The sorted region has values, each no greater than the next.
LEMMA RankedIs ==
  ASSUME SortTypes, NEW t \in B!Thread, NEW k \in B!Region(t)
  PROVE  /\ B!Ranked(t, k) \in Int
         /\ k + 1 \in B!Region(t) => B!Ranked(t, k) <= B!Ranked(t, k + 1)
<1> DEFINE V == {vet[j] : j \in B!Region(t)}
           a == (t - 1) * Size
           U(x) == B!Cardinality({j \in B!Region(t) : vet[j] <= x})
           Least(n) == {x \in V : U(x) >= n - a}
<1>1. \A n : B!Ranked(t, n) = CHOOSE x \in Least(n) : \A y \in Least(n) : x <= y
  BY Zenon DEF B!Ranked
<1>2. V \subseteq Int /\ IsFiniteSet(V) /\ V # {}
  BY ValuesOf
<1>3. a \in Int /\ Size \in Nat /\ B!Region(t) = a + 1 .. a + Size /\ B!Region(t) \subseteq Int
  <2>1. t \in Int /\ Size \in Nat
    BY SortConstants
  <2>2. t * Size = a + Size /\ a \in Int
    BY <2>1, RegionLength
  <2> HIDE DEF a
  <2>3. B!Region(t) = a + 1 .. t * Size
    BY Zenon DEF B!Region, a
  <2> QED BY <2>1, <2>2, <2>3
<1>4. \A x : U(x) \in Nat
  <2>1. ASSUME NEW x PROVE U(x) \in Nat
    <3> DEFINE J == {j \in B!Region(t) : vet[j] <= x}
    <3>1. IsFiniteSet(B!Region(t)) /\ J \in SUBSET B!Region(t)
      BY Regions
    <3> HIDE DEF J
    <3>2. IsFiniteSet(J) /\ Cardinality(J) \in Nat
      BY <3>1, FS_Subset, FS_CardinalityType, Zenon
    <3> QED BY <3>2, SortCardinality, Zenon DEF J
  <2> QED BY <2>1
<1>5. PICK m \in V : \A y \in V : y <= m
  <2> HIDE DEF V
  <2> QED BY <1>2, GreatestExists, Zenon
<1>6. U(m) = Size
  <2>1. {j \in B!Region(t) : vet[j] <= m} = B!Region(t)
    BY <1>5
  <2> QED BY <2>1, Regions, SortCardinality, Zenon
<1> HIDE DEF V, a, U
<1>7. ASSUME NEW n \in B!Region(t)
      PROVE  /\ B!Ranked(t, n) \in Least(n)
             /\ \A y \in Least(n) : B!Ranked(t, n) <= y
  <2>1. Size >= n - a
    BY <1>3
  <2>2. m \in Least(n)
    BY <1>5, <1>6, <2>1
  <2>3. Least(n) \in SUBSET V
    OBVIOUS
  <2> HIDE DEF Least
  <2>4. Least(n) \in SUBSET Int /\ IsFiniteSet(Least(n)) /\ Least(n) # {}
    <3>1. IsFiniteSet(Least(n))
      BY <1>2, <2>3, FS_Subset, Zenon
    <3> QED BY <1>2, <2>2, <2>3, <3>1
  <2>5. \E x \in Least(n) : \A y \in Least(n) : x <= y
    BY <2>4, LeastExists, Zenon
  <2> QED BY <1>1, <2>5, Zenon
<1>8. B!Ranked(t, k) \in Int
  BY <1>2, <1>7
<1>9. ASSUME k + 1 \in B!Region(t) PROVE B!Ranked(t, k) <= B!Ranked(t, k + 1)
  <2>1. \A x \in V : U(x) >= (k + 1) - a => U(x) >= k - a
    BY <1>3, <1>4
  <2>2. Least(k + 1) \subseteq Least(k)
    BY <2>1, Zenon
  <2> HIDE DEF Least
  <2> QED BY <1>7, <1>9, <2>2
<1> QED BY <1>8, <1>9

\* Sorted regions in order at the boundaries are a sorted array.
LEMMA RegionsAreSorted ==
  ASSUME SortTypes, \A t \in B!Thread : RegionSorted(t), \A b \in B!Boundaries : vet[b] <= vet[b + 1]
  PROVE  B!Sorted
<1>1. ASSUME NEW k \in B!Index \ {nthreads * Size} PROVE vet[k] <= vet[k + 1]
  BY SideBySide, Zenon DEF RegionSorted
<1> QED BY <1>1, Zenon DEF B!Sorted

\* Where the threads are, counted.
LEMMA ThreadsCount ==
  ASSUME NEW W \in SUBSET B!Thread
  PROVE  /\ IsFiniteSet(W) /\ Cardinality(W) \in Nat /\ Cardinality(W) <= nthreads
         /\ Cardinality(W) = nthreads <=> W = B!Thread
         /\ Cardinality(W) = 0 <=> W = {}
         /\ \A t \in W : Cardinality(W \ {t}) = Cardinality(W) - 1
         /\ \A t \in B!Thread \ W : Cardinality(W \cup {t}) = Cardinality(W) + 1
<1>1. IsFiniteSet(B!Thread) /\ Cardinality(B!Thread) = nthreads
  BY SortConstants
<1>2. /\ IsFiniteSet(W) /\ Cardinality(W) <= nthreads
      /\ Cardinality(W) = nthreads => W = B!Thread
  BY <1>1, FS_Subset, Zenon
<1>3. Cardinality(W) \in Nat /\ (Cardinality(W) = 0 <=> W = {})
  BY <1>2, FS_CardinalityType, FS_EmptySet, Zenon
<1>4. \A t \in W : Cardinality(W \ {t}) = Cardinality(W) - 1
  BY <1>2, FS_RemoveElement, Zenon
<1>5. \A t \in B!Thread \ W : Cardinality(W \cup {t}) = Cardinality(W) + 1
  BY <1>2, FS_AddElement, Zenon
<1> QED BY <1>1, <1>2, <1>3, <1>4, <1>5

\* One thread moves on.
LEMMA SortMoves ==
  ASSUME SortTypes, NEW t \in B!Thread, NEW l \in SortPlaces, sortAt' = [sortAt EXCEPT ![t] = l]
  PROVE  /\ sortAt' \in [B!Thread -> SortPlaces] /\ sortAt'[t] = l
         /\ \A u \in B!Thread \ {t} : sortAt'[u] = sortAt[u]
         /\ At1 \in SUBSET B!Thread /\ At2 \in SUBSET B!Thread
         /\ At1' = IF l = "waits1" THEN At1 \cup {t} ELSE At1 \ {t}
         /\ At2' = IF l = "waits2" THEN At2 \cup {t} ELSE At2 \ {t}
<1>1. sortAt \in [B!Thread -> SortPlaces]
  BY DEF SortTypes
<1>2. /\ sortAt' \in [B!Thread -> SortPlaces] /\ sortAt'[t] = l
      /\ \A u \in B!Thread \ {t} : sortAt'[u] = sortAt[u]
  BY <1>1, Zenon
<1>3. At1 \in SUBSET B!Thread /\ At2 \in SUBSET B!Thread
  BY DEF At1, At2
<1>4. At1' = {u \in B!Thread : sortAt'[u] = "waits1"} /\ At2' = {u \in B!Thread : sortAt'[u] = "waits2"}
  BY DEF At1, At2, B!Thread
<1>5. At1' = IF l = "waits1" THEN At1 \cup {t} ELSE At1 \ {t}
  BY <1>2, <1>4 DEF At1
<1>6. At2' = IF l = "waits2" THEN At2 \cup {t} ELSE At2 \ {t}
  BY <1>2, <1>4 DEF At2
<1> QED BY <1>2, <1>3, <1>5, <1>6

\* The thread that posts, and the others.
LEMMA PosterIs ==
  ASSUME SortTypes, NEW s \in Nat, NEW W, Posting(s, W), NEW t \in B!Thread
  PROVE  /\ sortPosts[t] \in Nat
         /\ sortPosts[t] > 0 =>
              /\ t \in W /\ s + sortPosts[t] = Cardinality(W)
              /\ \A u \in B!Thread \ {t} : sortPosts[u] = 0
         /\ W = {} => sortPosts[t] = 0 /\ s = 0
<1>1. PICK p \in B!Thread : /\ sortPosts[p] > 0 => p \in W
                            /\ \A u \in B!Thread \ {p} : sortPosts[u] = 0
                            /\ s + sortPosts[p] = Cardinality(W)
  BY DEF Posting
<1>2. sortPosts[t] \in Nat /\ sortPosts[p] \in Nat
  BY DEF SortTypes
<1>3. ASSUME sortPosts[t] > 0 PROVE t = p
  BY <1>1, <1>3
<1>4. ASSUME W = {} PROVE sortPosts[t] = 0 /\ s = 0
  <2>1. Cardinality(W) = 0
    BY <1>4, FS_EmptySet, Zenon
  <2>2. sortPosts[p] = 0 /\ s = 0
    BY <1>1, <1>2, <2>1
  <2> QED BY <1>1, <2>2
<1> QED BY <1>1, <1>2, <1>3, <1>4

\* A thread that moves may change where the others may be only by itself.
LEMMA GoingKeeps ==
  ASSUME SortTypes, Going, NEW t \in B!Thread, NEW l \in SortPlaces, l # "ends",
         sortAt' = [sortAt EXCEPT ![t] = l], vet' = vet, swapsCount' = swapsCount,
         l \in {"waits2", "tests"} => swapsCount > 0,
         l \in {"arrives", "waits1"} => RegionSorted(t)
  PROVE  Going'
<1>1. /\ sortAt'[t] = l /\ \A u \in B!Thread \ {t} : sortAt'[u] = sortAt[u]
  BY SortMoves, Zenon
<1>2. \A u \in B!Thread : sortAt'[u] # "ends"
  BY <1>1, Zenon DEF Going
<1>3. (\E u \in B!Thread : sortAt'[u] \in {"waits2", "tests"}) => swapsCount' > 0
  BY <1>1, Zenon DEF Going
<1>4. \A u \in B!Thread : sortAt'[u] \in {"arrives", "waits1"} => RegionSorted(u)
  BY <1>1, Zenon DEF Going
<1>5. \A u \in B!Thread : RegionSorted(u) => RegionSorted(u)'
  BY Zenon DEF RegionSorted
<1> QED BY <1>2, <1>3, <1>4, <1>5, Zenon DEF Going

\* The same of the end.
LEMMA EndingKeeps ==
  ASSUME SortTypes, Ending, NEW t \in B!Thread, NEW l \in {"waits2", "tests", "ends"},
         sortAt' = [sortAt EXCEPT ![t] = l], vet' = vet, swapsCount' = swapsCount
  PROVE  Ending'
<1>1. l \in SortPlaces
  BY DEF SortPlaces
<1>2. /\ sortAt'[t] = l /\ \A u \in B!Thread \ {t} : sortAt'[u] = sortAt[u]
  BY <1>1, SortMoves, Zenon
<1>3. \A u \in B!Thread : sortAt'[u] \in {"waits2", "tests", "ends"}
  BY <1>2, Zenon DEF Ending
<1>4. B!Sorted'
  BY Zenon DEF Ending, B!Sorted
<1> QED BY <1>3, <1>4, Zenon DEF Ending

\* In which stage a thread acts.
LEMMA StageIs ==
  ASSUME BarrierInv, NEW t \in B!Thread
  PROVE  /\ sortAt[t] \in {"sorts", "arrives"} => Working /\ Going
         /\ sortAt[t] \in {"tests", "ends"} => Working
         /\ sortAt[t] = "waits2" => Working \/ Leaving
         /\ sortAt[t] = "swaps" => Swapping
         /\ sortAt[t] = "leaves" => Leaving
         /\ sem1 > 0 => Leaving
         /\ sem2 > 0 => Working
         /\ sortPosts[t] > 0 /\ sortAt[t] = "waits1" => Leaving
         /\ sortPosts[t] > 0 /\ sortAt[t] = "waits2" => Working
<1>1. sortAt[t] \in SortPlaces /\ SortTypes
  BY DEF BarrierInv, SortTypes
<1>2. CASE Working
  <2>1. sortAt[t] \notin {"swaps", "leaves"} /\ sem1 = 0 /\ Posting(sem2, At2)
    BY <1>2, Zenon DEF Working
  <2>2. sem2 \in Nat
    BY <1>1 DEF SortTypes
  <2>3. sortPosts[t] > 0 => sortAt[t] = "waits2"
    <3>1. t \in At2 => sortAt[t] = "waits2"
      BY DEF At2
    <3> QED BY <1>1, <2>1, <2>2, <3>1, PosterIs, Zenon
  <2>4. sortAt[t] \in {"sorts", "arrives"} => ~Ending
    BY DEF Ending
  <2>5. sortAt[t] = "waits1" => sortAt[t] # "waits2"
    OBVIOUS
  <2>6. Going \/ Ending
    BY <1>2, Zenon DEF Working
  <2>7. /\ ~(sem1 > 0)
        /\ sortAt[t] # "swaps" /\ sortAt[t] # "leaves"
    BY <2>1
  <2> QED BY <1>2, <2>3, <2>4, <2>5, <2>6, <2>7, Zenon
<1>3. CASE Swapping
  <2>1. sortAt[t] \in {"swaps", "waits1"} /\ sem1 = 0 /\ sem2 = 0 /\ sortPosts[t] = 0
    BY <1>3 DEF Swapping
  <2>2. /\ sortAt[t] \notin {"sorts", "arrives"} /\ sortAt[t] \notin {"tests", "ends"}
        /\ sortAt[t] # "waits2" /\ sortAt[t] # "leaves"
        /\ ~(sem1 > 0) /\ ~(sem2 > 0) /\ ~(sortPosts[t] > 0)
    BY <2>1
  <2> QED BY <1>3, <2>2, Zenon
<1>4. CASE Leaving
  <2>1. sortAt[t] \in {"waits1", "leaves", "waits2"} /\ sem2 = 0 /\ Posting(sem1, At1)
    BY <1>4, Zenon DEF Leaving
  <2>2. sem1 \in Nat
    BY <1>1 DEF SortTypes
  <2>3. sortPosts[t] > 0 => sortAt[t] = "waits1"
    <3>1. t \in At1 => sortAt[t] = "waits1"
      BY DEF At1
    <3> QED BY <1>1, <2>1, <2>2, <3>1, PosterIs, Zenon
  <2>4. /\ sortAt[t] \notin {"sorts", "arrives"} /\ sortAt[t] \notin {"tests", "ends"}
        /\ sortAt[t] # "swaps" /\ ~(sem2 > 0)
        /\ sortAt[t] = "waits2" => sortAt[t] # "waits1"
    BY <2>1
  <2> QED BY <1>4, <2>3, <2>4, Zenon
<1> QED BY <1>2, <1>3, <1>4, Zenon DEF BarrierInv

\* A thread sorts its region.
LEMMA BubbleSortKeeps ==
  ASSUME BarrierInv, NEW t \in B!Thread, B!BubbleSort(t) PROVE BarrierInv'
<1>1. /\ sortAt[t] = "sorts" /\ sortAt' = [sortAt EXCEPT ![t] = "arrives"]
      /\ vet' = [k \in B!Index |-> IF k \in B!Region(t) THEN B!Ranked(t, k) ELSE vet[k]]
      /\ runningThreadsSorting' = runningThreadsSorting /\ sem1' = sem1 /\ sem2' = sem2
      /\ swapsCount' = swapsCount /\ sortPosts' = sortPosts
  BY Zenon DEF B!BubbleSort, B!Goto
<1>2. SortTypes /\ Working /\ Going /\ vet \in [B!Index -> Int]
  <2>1. sortAt[t] \in {"sorts", "arrives"}
    BY <1>1
  <2> QED BY <2>1, StageIs, Zenon DEF BarrierInv, SortTypes
<1>3. "arrives" \in SortPlaces /\ "arrives" \notin {"swaps", "leaves"} /\ "arrives" # "ends"
  BY DEF SortPlaces
<1>4. /\ sortAt' \in [B!Thread -> SortPlaces] /\ sortAt'[t] = "arrives"
      /\ \A u \in B!Thread \ {t} : sortAt'[u] = sortAt[u]
      /\ At1' = At1 \ {t} /\ At2' = At2 \ {t}
  BY <1>1, <1>2, <1>3, SortMoves
<1>5. At1' = At1 /\ At2' = At2
  BY <1>1, <1>4 DEF At1, At2
<1>6. \A k \in B!Region(t) : B!Ranked(t, k) \in Int
  BY <1>2, RankedIs
<1>7. B!Region(t) \subseteq B!Index
  BY Regions
<1>8. vet' \in [B!Index -> Int]
  BY <1>1, <1>2, <1>6, Zenon
<1>9. SortTypes'
  BY <1>1, <1>2, <1>4, <1>8, Zenon DEF SortTypes
<1>10. RegionSorted(t)'
  <2>1. \A k \in B!Region(t) : vet'[k] = B!Ranked(t, k)
    BY <1>1, <1>7, Zenon
  <2>2. \A k \in B!Region(t) : k + 1 \in B!Region(t) => vet'[k] <= vet'[k + 1]
    BY <1>2, <2>1, RankedIs, Zenon
  <2> QED BY <2>2, Zenon DEF RegionSorted
<1>11. ASSUME NEW u \in B!Thread \ {t}, RegionSorted(u) PROVE RegionSorted(u)'
  <2>1. B!Region(u) \cap B!Region(t) = {} /\ B!Region(u) \subseteq B!Index
    BY Regions
  <2>2. \A k \in B!Region(u) : vet'[k] = vet[k]
    BY <1>1, <2>1
  <2> QED BY <1>11, <2>2, Zenon DEF RegionSorted
<1>12. Going'
  <2>1. \A u \in B!Thread : sortAt'[u] # "ends"
    BY <1>2, <1>3, <1>4, Zenon DEF Going
  <2>2. (\E u \in B!Thread : sortAt'[u] \in {"waits2", "tests"}) => swapsCount > 0
    BY <1>2, <1>4 DEF Going
  <2>3. \A u \in B!Thread : sortAt'[u] \in {"arrives", "waits1"} => RegionSorted(u)'
    BY <1>2, <1>4, <1>10, <1>11, Zenon DEF Going
  <2> QED BY <1>1, <2>1, <2>2, <2>3, Zenon DEF Going
<1>13. Posting(sem2, At2)'
  BY <1>1, <1>2, <1>5, Zenon DEF Working, Posting
<1>14. Working'
  BY <1>1, <1>2, <1>3, <1>4, <1>5, <1>12, <1>13, Zenon DEF Working
<1> QED BY <1>9, <1>14, Zenon DEF BarrierInv

\* A thread arrives at the first barrier; the last one goes on to swap.
LEMMA ArriveKeeps ==
  ASSUME BarrierInv, NEW t \in B!Thread, B!Arrive(t) PROVE BarrierInv'
<1> DEFINE l == IF runningThreadsSorting - 1 = 0 THEN "swaps" ELSE "waits1"
<1>1. /\ sortAt[t] = "arrives" /\ runningThreadsSorting' = runningThreadsSorting - 1
      /\ sortAt' = [sortAt EXCEPT ![t] = l]
      /\ vet' = vet /\ sem1' = sem1 /\ sem2' = sem2
      /\ swapsCount' = swapsCount /\ sortPosts' = sortPosts
  BY DEF B!Arrive, B!Goto
<1>2. SortTypes /\ Working /\ Going /\ runningThreadsSorting \in Int
  <2>1. sortAt[t] \in {"sorts", "arrives"}
    BY <1>1
  <2> QED BY <2>1, StageIs, Zenon DEF BarrierInv, SortTypes
<1>3. l \in SortPlaces /\ (l = "swaps" \/ l = "waits1")
  BY DEF SortPlaces
<1>4. /\ sortAt' \in [B!Thread -> SortPlaces] /\ sortAt'[t] = l
      /\ \A u \in B!Thread \ {t} : sortAt'[u] = sortAt[u]
      /\ At1 \in SUBSET B!Thread /\ At2 \in SUBSET B!Thread
      /\ At1' = IF l = "waits1" THEN At1 \cup {t} ELSE At1 \ {t}
      /\ At2' = IF l = "waits2" THEN At2 \cup {t} ELSE At2 \ {t}
  BY <1>1, <1>2, <1>3, SortMoves, Zenon
<1>5. t \notin At1 /\ At2' = At2
  BY <1>1, <1>3, <1>4 DEF At1, At2
<1>6. SortTypes'
  <2>1. runningThreadsSorting' \in Int
    BY <1>1, <1>2
  <2> QED BY <1>1, <1>2, <1>4, <2>1, Zenon DEF SortTypes
<1>7. /\ runningThreadsSorting = nthreads - Cardinality(At1) /\ runningThreadsSorting > 0
      /\ sem1 = 0 /\ Posting(sem2, At2) /\ sem2 \in Nat
      /\ \A u \in B!Thread : sortAt[u] \notin {"swaps", "leaves"}
  BY <1>2, Zenon DEF Working, SortTypes
<1>8. Cardinality(At1 \cup {t}) = Cardinality(At1) + 1 /\ Cardinality(At1) \in Nat
  BY <1>4, <1>5, ThreadsCount, Zenon
<1>9. RegionSorted(t)
  BY <1>1, <1>2 DEF Going
<1>10. \A u \in B!Thread : RegionSorted(u) => RegionSorted(u)'
  BY <1>1, Zenon DEF RegionSorted
<1>11. CASE l = "swaps"
  <2>1. runningThreadsSorting = 1 /\ nthreads \in Nat
    BY <1>2, <1>11, SortConstants
  <2>2. At1 \cup {t} = B!Thread
    <3>1. Cardinality(At1 \cup {t}) = nthreads
      BY <1>7, <1>8, <2>1
    <3> QED BY <1>4, <3>1, ThreadsCount
  <2>3. \A u \in B!Thread \ {t} : sortAt[u] = "waits1"
    BY <2>2 DEF At1
  <2>4. At2 = {}
    BY <1>1, <2>3 DEF At2
  <2>5. sem2 = 0 /\ \A u \in B!Thread : sortPosts[u] = 0
    BY <1>2, <1>7, <2>4, PosterIs, Zenon
  <2>6. \A u \in B!Thread : RegionSorted(u)'
    BY <1>2, <1>9, <1>10, <2>3 DEF Going
  <2>7. sortAt'[t] = "swaps" /\ \A u \in B!Thread \ {t} : sortAt'[u] = "waits1"
    <3> HIDE DEF l
    <3> QED BY <1>4, <1>11, <2>3, Zenon
  <2>8. runningThreadsSorting' = 0
    BY <1>1, <2>1
  <2>9. Swapping'
    BY <1>1, <1>7, <2>5, <2>6, <2>7, <2>8, Zenon DEF Swapping
  <2> QED BY <1>6, <2>9, Zenon DEF BarrierInv
<1>12. CASE l = "waits1"
  <2>1. runningThreadsSorting - 1 # 0
    BY <1>12
  <2> HIDE DEF l
  <2>2. At1' = At1 \cup {t}
    BY <1>4, <1>12
  <2>3. runningThreadsSorting' = nthreads - Cardinality(At1') /\ runningThreadsSorting' > 0
    <3>1. Cardinality(At1') = Cardinality(At1) + 1
      BY <1>8, <2>2
    <3>2. nthreads \in Nat
      BY SortConstants
    <3>3. runningThreadsSorting' > 0
      BY <1>1, <1>2, <1>7, <2>1
    <3> QED BY <1>1, <1>7, <1>8, <3>1, <3>2, <3>3
  <2>4. Going'
    <3>1. l \in SortPlaces /\ l # "ends" /\ l \notin {"waits2", "tests"}
      BY <1>3, <1>12
    <3> QED BY <1>1, <1>2, <1>9, <3>1, GoingKeeps, Zenon
  <2>5. Posting(sem2, At2)'
    BY <1>1, <1>5, <1>7, Zenon DEF Posting
  <2>6. \A u \in B!Thread : sortAt'[u] \notin {"swaps", "leaves"}
    <3>1. l \notin {"swaps", "leaves"}
      BY <1>12
    <3> QED BY <1>4, <1>7, <3>1, Zenon
  <2>7. Working'
    BY <1>1, <1>7, <2>3, <2>4, <2>5, <2>6, Zenon DEF Working
  <2> QED BY <1>6, <2>7, Zenon DEF BarrierInv
<1> QED BY <1>3, <1>11, <1>12

\* The last thread swaps across the boundaries, and opens the first barrier.
LEMMA SwapKeeps ==
  ASSUME BarrierInv, NEW t \in B!Thread, B!Swap(t) PROVE BarrierInv'
<1> DEFINE wrong == {b \in B!Boundaries : vet[b] > vet[b + 1]}
<1>1. /\ sortAt[t] = "swaps" /\ sortAt' = [sortAt EXCEPT ![t] = "waits1"]
      /\ vet' = [k \in B!Index |-> CASE k \in wrong     -> vet[k + 1]
                                     [] k - 1 \in wrong -> vet[k - 1]
                                     [] OTHER           -> vet[k]]
      /\ swapsCount' = B!Cardinality(wrong)
      /\ sortPosts' = [sortPosts EXCEPT ![t] = nthreads]
      /\ runningThreadsSorting' = runningThreadsSorting /\ sem1' = sem1 /\ sem2' = sem2
  BY Zenon DEF B!Swap, B!Goto
<1>2. /\ SortTypes /\ Swapping /\ vet \in [B!Index -> Int]
      /\ sortPosts \in [B!Thread -> Nat]
  BY <1>1, StageIs, Zenon DEF BarrierInv, SortTypes
<1>3. "waits1" \in SortPlaces /\ "waits1" # "waits2"
  BY DEF SortPlaces
<1>4. /\ sortAt' \in [B!Thread -> SortPlaces] /\ sortAt'[t] = "waits1"
      /\ \A u \in B!Thread \ {t} : sortAt'[u] = sortAt[u]
  BY <1>1, <1>2, <1>3, SortMoves, Zenon
<1>5. /\ \A u \in B!Thread \ {t} : sortAt[u] = "waits1"
      /\ sem1 = 0 /\ sem2 = 0 /\ runningThreadsSorting = 0
      /\ \A u \in B!Thread : sortPosts[u] = 0 /\ RegionSorted(u)
  BY <1>1, <1>2 DEF Swapping
<1>6. \A u \in B!Thread : sortAt'[u] = "waits1"
  BY <1>4, <1>5, Zenon
<1>7. At1' = B!Thread /\ At2' = {}
  <2>1. At1' = {u \in B!Thread : sortAt'[u] = "waits1"} /\ At2' = {u \in B!Thread : sortAt'[u] = "waits2"}
    BY DEF At1, At2, B!Thread
  <2> QED BY <1>6, <2>1
<1>8. ASSUME NEW b \in B!Boundaries
      PROVE  b \in B!Index /\ b + 1 \in B!Index /\ b \in Int
  <2>1. PICK u \in 1..nthreads - 1 : b = u * Size
    BY DEF B!Boundaries
  <2>2. nthreads \in Nat /\ Size \in Nat /\ Size > 1
    BY SortConstants
  <2>3. u \in Int /\ 1 <= u /\ u + 1 <= nthreads /\ (u + 1) - 1 = u /\ u + 1 \in Int
    BY <2>1, <2>2
  <2>4. (u + 1) * Size = u * Size + Size /\ u * Size \in Int
    BY <2>2, <2>3, RegionLength
  <2>5. (u + 1) * Size <= nthreads * Size /\ 1 * Size <= u * Size
    BY <2>2, <2>3, TimesOrder
  <2>6. nthreads * Size \in Int /\ 1 * Size = Size
    BY <2>2
  <2> DEFINE c == nthreads * Size
             x == u * Size
             y == (u + 1) * Size
  <2>7. B!Index = 1..c
    BY DEF B!Index
  <2> HIDE DEF c, x, y
  <2>8. x \in Int /\ c \in Int /\ y = x + Size /\ y <= c /\ Size <= x /\ b = x
    BY <2>1, <2>4, <2>5, <2>6 DEF c, x, y
  <2> QED BY <2>2, <2>7, <2>8
<1>9. vet' \in [B!Index -> Int]
  <2>1. ASSUME NEW k \in B!Index
        PROVE  (CASE k \in wrong     -> vet[k + 1]
                  [] k - 1 \in wrong -> vet[k - 1]
                  [] OTHER           -> vet[k]) \in Int
    <3>1. k \in wrong => vet[k + 1] \in Int
      BY <1>2, <1>8
    <3>2. k - 1 \in wrong => vet[k - 1] \in Int
      BY <1>2, <1>8
    <3>3. vet[k] \in Int
      BY <1>2
    <3> HIDE DEF wrong
    <3> QED BY <3>1, <3>2, <3>3
  <2> HIDE DEF wrong
  <2> QED BY <1>1, <2>1, Zenon
<1>10. swapsCount' \in Nat /\ (swapsCount' = 0 <=> wrong = {})
  <2>1. wrong \subseteq B!Index
    BY <1>8
  <2>2. IsFiniteSet(B!Index)
    <3>1. nthreads * Size \in Int
      BY SortConstants
    <3> QED BY <3>1, FS_Interval DEF B!Index
  <2> HIDE DEF wrong
  <2>3. IsFiniteSet(wrong)
    BY <2>1, <2>2, FS_Subset, Zenon
  <2> QED BY <1>1, <2>3, FS_CardinalityType, FS_EmptySet, SortCardinality, Zenon
<1>11. ASSUME wrong = {} PROVE B!Sorted'
  <2>1. \A k : ~(k \in wrong)
    BY <1>11
  <2>2. \A b \in B!Boundaries : vet[b] <= vet[b + 1]
    BY <1>2, <1>8, <1>11
  <2>3. B!Sorted
    BY <1>2, <1>5, <2>2, RegionsAreSorted, Zenon
  <2> HIDE DEF wrong
  <2>4. \A k \in B!Index : vet'[k] = vet[k]
    BY <1>1, <2>1
  <2>5. \A k \in B!Index \ {nthreads * Size} : vet'[k] <= vet'[k + 1]
    BY <2>3, <2>4, SideBySide, Zenon DEF B!Sorted
  <2> QED BY <2>5, Zenon DEF B!Sorted
<1> HIDE DEF wrong
<1>12. /\ sortPosts' \in [B!Thread -> Nat] /\ sortPosts'[t] = nthreads
       /\ \A u \in B!Thread \ {t} : sortPosts'[u] = 0
  BY <1>1, <1>2, <1>5, SortConstants
<1>13. SortTypes'
  <2>1. /\ runningThreadsSorting' \in Int /\ sem1' \in Nat /\ sem2' \in Nat
    BY <1>1, <1>5
  <2> QED BY <1>4, <1>9, <1>10, <1>12, <2>1, Zenon DEF SortTypes
<1>14. Posting(sem1, At1)'
  <2>1. 0 + nthreads = Cardinality(B!Thread)
    BY SortConstants
  <2> QED BY <1>1, <1>5, <1>7, <1>12, <2>1, Zenon DEF Posting
<1>15. runningThreadsSorting' < nthreads /\ runningThreadsSorting' = Cardinality(At2')
  <2>1. Cardinality({}) = 0 /\ 0 < nthreads
    BY FS_EmptySet, SortConstants
  <2> QED BY <1>1, <1>5, <1>7, <2>1, Zenon
<1>16. \A u \in B!Thread : sortAt'[u] \in {"waits1", "leaves", "waits2"}
  BY <1>6
<1>17. Leaving'
  BY <1>1, <1>5, <1>10, <1>11, <1>14, <1>15, <1>16, Zenon DEF Leaving
<1> QED BY <1>13, <1>17, Zenon DEF BarrierInv

\* One post fewer, one token more.
LEMMA PostsOne ==
  ASSUME NEW s \in Nat, NEW n \in Nat, n > 0, NEW c, s + n = c
  PROVE  s + 1 \in Nat /\ n - 1 \in Nat /\ (s + 1) + (n - 1) = c
OBVIOUS

\* The thread that swapped posts for the others.
LEMMA Post1Keeps ==
  ASSUME BarrierInv, NEW t \in B!Thread, B!Post1(t) PROVE BarrierInv'
<1>1. /\ sortAt[t] = "waits1" /\ sortPosts[t] > 0 /\ sem1' = sem1 + 1
      /\ sortPosts' = [sortPosts EXCEPT ![t] = sortPosts[t] - 1]
      /\ vet' = vet /\ sortAt' = sortAt /\ sem2' = sem2 /\ swapsCount' = swapsCount
      /\ runningThreadsSorting' = runningThreadsSorting
  BY Zenon DEF B!Post1
<1>2. SortTypes /\ Leaving /\ sortPosts \in [B!Thread -> Nat] /\ sem1 \in Nat
  BY <1>1, StageIs, Zenon DEF BarrierInv, SortTypes
<1>3. /\ sortPosts[t] \in Nat /\ t \in At1 /\ sem1 + sortPosts[t] = Cardinality(At1)
      /\ \A u \in B!Thread \ {t} : sortPosts[u] = 0
  BY <1>1, <1>2, PosterIs, Zenon DEF Leaving
<1>4. /\ sem1 + 1 \in Nat /\ sortPosts[t] - 1 \in Nat
      /\ (sem1 + 1) + (sortPosts[t] - 1) = Cardinality(At1)
  BY <1>1, <1>2, <1>3, PostsOne, SMTT(60)
<1>5. /\ sortPosts' \in [B!Thread -> Nat] /\ sortPosts'[t] = sortPosts[t] - 1
      /\ \A u \in B!Thread \ {t} : sortPosts'[u] = 0
  BY <1>1, <1>2, <1>3, <1>4, Update, Zenon
<1>6. At1' = At1 /\ At2' = At2
  BY <1>1, Zenon DEF At1, At2
<1>7. SortTypes'
  BY <1>1, <1>2, <1>4, <1>5, Zenon DEF SortTypes
<1>8. Posting(sem1, At1)'
  BY <1>1, <1>3, <1>4, <1>5, <1>6, Zenon DEF Posting
<1>9. B!Sorted => B!Sorted'
  BY <1>1, Zenon DEF B!Sorted
<1>10. Leaving'
  BY <1>1, <1>2, <1>6, <1>8, <1>9, Zenon DEF Leaving
<1> QED BY <1>7, <1>10, Zenon DEF BarrierInv

\* The last thread at the second barrier posts for the others.
LEMMA Post2Keeps ==
  ASSUME BarrierInv, NEW t \in B!Thread, B!Post2(t) PROVE BarrierInv'
<1>1. /\ sortAt[t] = "waits2" /\ sortPosts[t] > 0 /\ sem2' = sem2 + 1
      /\ sortPosts' = [sortPosts EXCEPT ![t] = sortPosts[t] - 1]
      /\ vet' = vet /\ sortAt' = sortAt /\ sem1' = sem1 /\ swapsCount' = swapsCount
      /\ runningThreadsSorting' = runningThreadsSorting
  BY Zenon DEF B!Post2
<1>2. SortTypes /\ Working /\ sortPosts \in [B!Thread -> Nat] /\ sem2 \in Nat
  BY <1>1, StageIs, Zenon DEF BarrierInv, SortTypes
<1>3. /\ sortPosts[t] \in Nat /\ t \in At2 /\ sem2 + sortPosts[t] = Cardinality(At2)
      /\ \A u \in B!Thread \ {t} : sortPosts[u] = 0
  BY <1>1, <1>2, PosterIs, Zenon DEF Working
<1>4. /\ sem2 + 1 \in Nat /\ sortPosts[t] - 1 \in Nat
      /\ (sem2 + 1) + (sortPosts[t] - 1) = Cardinality(At2)
  BY <1>1, <1>2, <1>3, PostsOne, SMTT(60)
<1>5. /\ sortPosts' \in [B!Thread -> Nat] /\ sortPosts'[t] = sortPosts[t] - 1
      /\ \A u \in B!Thread \ {t} : sortPosts'[u] = 0
  BY <1>1, <1>2, <1>3, <1>4, Update, Zenon
<1>6. At1' = At1 /\ At2' = At2
  BY <1>1, Zenon DEF At1, At2
<1>7. SortTypes'
  BY <1>1, <1>2, <1>4, <1>5, Zenon DEF SortTypes
<1>8. Posting(sem2, At2)'
  BY <1>1, <1>3, <1>4, <1>5, <1>6, Zenon DEF Posting
<1>9. (Going \/ Ending)'
  <2>1. B!Sorted => B!Sorted'
    BY <1>1, Zenon DEF B!Sorted
  <2>2. \A u \in B!Thread : RegionSorted(u) => RegionSorted(u)'
    BY <1>1, Zenon DEF RegionSorted
  <2>3. Going => Going'
    BY <1>1, <2>2, Zenon DEF Going
  <2>4. Ending => Ending'
    BY <1>1, <2>1, Zenon DEF Ending
  <2> QED BY <1>2, <2>3, <2>4, Zenon DEF Working
<1>10. Working'
  BY <1>1, <1>2, <1>6, <1>8, <1>9, Zenon DEF Working
<1> QED BY <1>7, <1>10, Zenon DEF BarrierInv

\* A thread takes a token of its barrier: one token and one thread fewer.
LEMMA TakesToken ==
  ASSUME SortTypes, NEW s \in Nat, s > 0, NEW W \in SUBSET B!Thread, Posting(s, W),
         NEW t \in W, sortPosts[t] = 0
  PROVE  /\ s - 1 \in Nat /\ Posting(s - 1, W \ {t})
<1>1. PICK p \in B!Thread : /\ sortPosts[p] > 0 => p \in W
                            /\ \A u \in B!Thread \ {p} : sortPosts[u] = 0
                            /\ s + sortPosts[p] = Cardinality(W)
  BY DEF Posting
<1>2. sortPosts[p] \in Nat
  BY DEF SortTypes
<1>3. Cardinality(W \ {t}) = Cardinality(W) - 1
  BY ThreadsCount, Zenon
<1>4. (s - 1) + sortPosts[p] = Cardinality(W \ {t}) /\ s - 1 \in Nat
  BY <1>1, <1>2, <1>3
<1>5. sortPosts[p] > 0 => p \in W \ {t}
  <2>1. ~(0 > 0)
    OBVIOUS
  <2> QED BY <1>1, <2>1, Zenon
<1> QED BY <1>1, <1>4, <1>5, Zenon DEF Posting

\* A thread passes the first barrier.
LEMMA Wait1Keeps ==
  ASSUME BarrierInv, NEW t \in B!Thread, B!Wait1(t) PROVE BarrierInv'
<1>1. /\ sortAt[t] = "waits1" /\ sortPosts[t] = 0 /\ sem1 > 0 /\ sem1' = sem1 - 1
      /\ sortAt' = [sortAt EXCEPT ![t] = "leaves"] /\ sortPosts' = sortPosts
      /\ vet' = vet /\ sem2' = sem2 /\ swapsCount' = swapsCount
      /\ runningThreadsSorting' = runningThreadsSorting
  BY Zenon DEF B!Wait1, B!Goto
<1>2. SortTypes /\ Leaving /\ sem1 \in Nat
  BY <1>1, StageIs, Zenon DEF BarrierInv, SortTypes
<1>3. "leaves" \in SortPlaces /\ "leaves" # "waits1" /\ "leaves" # "waits2"
      /\ "leaves" \in {"waits1", "leaves", "waits2"}
  BY DEF SortPlaces
<1>4. /\ sortAt' \in [B!Thread -> SortPlaces] /\ sortAt'[t] = "leaves"
      /\ \A u \in B!Thread \ {t} : sortAt'[u] = sortAt[u]
      /\ At1 \in SUBSET B!Thread
      /\ At1' = At1 \ {t} /\ At2' = At2 \ {t}
  BY <1>1, <1>2, <1>3, SortMoves
<1>5. At2' = At2 /\ t \in At1
  BY <1>1, <1>4 DEF At1, At2
<1>6. sem1 - 1 \in Nat /\ Posting(sem1 - 1, At1 \ {t})
  BY <1>1, <1>2, <1>4, <1>5, TakesToken, Zenon DEF Leaving
<1>7. Posting(sem1, At1)'
  BY <1>1, <1>4, <1>6, Zenon DEF Posting
<1>8. SortTypes'
  BY <1>1, <1>2, <1>4, <1>6, Zenon DEF SortTypes
<1>9. B!Sorted => B!Sorted'
  BY <1>1, Zenon DEF B!Sorted
<1>10. Leaving'
  BY <1>1, <1>2, <1>3, <1>4, <1>5, <1>7, <1>9, Zenon DEF Leaving
<1> QED BY <1>8, <1>10, Zenon DEF BarrierInv

\* A thread passes the second barrier.
LEMMA Wait2Keeps ==
  ASSUME BarrierInv, NEW t \in B!Thread, B!Wait2(t) PROVE BarrierInv'
<1>1. /\ sortAt[t] = "waits2" /\ sortPosts[t] = 0 /\ sem2 > 0 /\ sem2' = sem2 - 1
      /\ sortAt' = [sortAt EXCEPT ![t] = "tests"] /\ sortPosts' = sortPosts
      /\ vet' = vet /\ sem1' = sem1 /\ swapsCount' = swapsCount
      /\ runningThreadsSorting' = runningThreadsSorting
  BY Zenon DEF B!Wait2, B!Goto
<1>2. SortTypes /\ Working /\ sem2 \in Nat
  BY <1>1, StageIs, Zenon DEF BarrierInv, SortTypes
<1>3. "tests" \in SortPlaces /\ "tests" # "waits1" /\ "tests" # "waits2" /\ "tests" # "ends"
      /\ "tests" \notin {"swaps", "leaves"} /\ "tests" \in {"waits2", "tests", "ends"}
      /\ "tests" \notin {"arrives", "waits1"} /\ "waits2" \in {"waits2", "tests"}
  BY DEF SortPlaces
<1>4. /\ sortAt' \in [B!Thread -> SortPlaces] /\ sortAt'[t] = "tests"
      /\ \A u \in B!Thread \ {t} : sortAt'[u] = sortAt[u]
      /\ At2 \in SUBSET B!Thread
      /\ At1' = At1 \ {t} /\ At2' = At2 \ {t}
  BY <1>1, <1>2, <1>3, SortMoves
<1>5. At1' = At1 /\ t \in At2
  BY <1>1, <1>4 DEF At1, At2
<1>6. sem2 - 1 \in Nat /\ Posting(sem2 - 1, At2 \ {t})
  BY <1>1, <1>2, <1>4, <1>5, TakesToken, Zenon DEF Working
<1>7. Posting(sem2, At2)'
  BY <1>1, <1>4, <1>6, Zenon DEF Posting
<1>8. SortTypes'
  BY <1>1, <1>2, <1>4, <1>6, Zenon DEF SortTypes
<1>9. (Going \/ Ending)'
  <2>1. CASE Going
    <3>1. swapsCount > 0
      BY <1>1, <1>3, <2>1, Zenon DEF Going
    <3> QED BY <1>1, <1>2, <1>3, <2>1, <3>1, GoingKeeps, Zenon
  <2>2. CASE Ending
    BY <1>1, <1>2, <1>3, <2>2, EndingKeeps, Zenon
  <2> QED BY <1>2, <2>1, <2>2, Zenon DEF Working
<1>10. \A u \in B!Thread : sortAt'[u] \notin {"swaps", "leaves"}
  BY <1>2, <1>3, <1>4, Zenon DEF Working
<1>11. Working'
  BY <1>1, <1>2, <1>5, <1>7, <1>9, <1>10, Zenon DEF Working
<1> QED BY <1>8, <1>11, Zenon DEF BarrierInv

\* while (swapsCount): the next turn, or the end.
LEMMA TestKeeps ==
  ASSUME BarrierInv, NEW t \in B!Thread, B!Test(t) PROVE BarrierInv'
<1> DEFINE l == IF swapsCount > 0 THEN "sorts" ELSE "ends"
<1>1. /\ sortAt[t] = "tests" /\ sortAt' = [sortAt EXCEPT ![t] = l] /\ sortPosts' = sortPosts
      /\ vet' = vet /\ sem1' = sem1 /\ sem2' = sem2 /\ swapsCount' = swapsCount
      /\ runningThreadsSorting' = runningThreadsSorting
  BY Zenon DEF B!Test, B!Goto, B!shared
<1>2. SortTypes /\ Working
  <2>1. sortAt[t] \in {"tests", "ends"}
    BY <1>1
  <2> QED BY <2>1, StageIs, Zenon DEF BarrierInv
<1>3. /\ l \in SortPlaces /\ l # "waits1" /\ l # "waits2" /\ l \notin {"swaps", "leaves"}
      /\ l \notin {"waits2", "tests"} /\ l \notin {"arrives", "waits1"}
  BY DEF SortPlaces
<1>4. /\ sortAt' \in [B!Thread -> SortPlaces] /\ sortAt'[t] = l
      /\ \A u \in B!Thread \ {t} : sortAt'[u] = sortAt[u]
      /\ At1' = At1 \ {t} /\ At2' = At2 \ {t}
  <2> HIDE DEF l
  <2> QED BY <1>1, <1>2, <1>3, SortMoves
<1>5. At1' = At1 /\ At2' = At2
  <2> HIDE DEF l
  <2> QED BY <1>1, <1>4 DEF At1, At2
<1>6. SortTypes'
  BY <1>1, <1>2, <1>4, Zenon DEF SortTypes
<1>7. (Going \/ Ending)'
  <2>1. CASE Going
    <3>1. "tests" \in {"waits2", "tests"}
      OBVIOUS
    <3>2. swapsCount > 0
      BY <1>1, <2>1, <3>1, Zenon DEF Going
    <3>3. l # "ends"
      BY <3>2
    <3> HIDE DEF l
    <3> QED BY <1>1, <1>2, <1>3, <2>1, <3>3, GoingKeeps, Zenon
  <2>2. CASE Ending
    <3>1. l \in {"waits2", "tests", "ends"}
      BY <2>2 DEF Ending
    <3> HIDE DEF l
    <3> QED BY <1>1, <1>2, <2>2, <3>1, EndingKeeps, Zenon
  <2> QED BY <1>2, <2>1, <2>2, Zenon DEF Working
<1> HIDE DEF l
<1>8. \A u \in B!Thread : sortAt'[u] \notin {"swaps", "leaves"}
  BY <1>2, <1>3, <1>4, Zenon DEF Working
<1>9. Working'
  BY <1>1, <1>2, <1>5, <1>7, <1>8, Zenon DEF Working, Posting
<1> QED BY <1>6, <1>9, Zenon DEF BarrierInv

\* A thread leaves the first barrier; the last one opens the second.
LEMMA LeaveKeeps ==
  ASSUME BarrierInv, NEW t \in B!Thread, B!Leave(t) PROVE BarrierInv'
<1> DEFINE n == IF runningThreadsSorting + 1 = nthreads THEN nthreads ELSE 0
<1>1. /\ sortAt[t] = "leaves" /\ runningThreadsSorting' = runningThreadsSorting + 1
      /\ sortAt' = [sortAt EXCEPT ![t] = "waits2"]
      /\ sortPosts' = [sortPosts EXCEPT ![t] = n]
      /\ vet' = vet /\ sem1' = sem1 /\ sem2' = sem2 /\ swapsCount' = swapsCount
  BY DEF B!Leave, B!Goto
<1>2. /\ SortTypes /\ Leaving /\ runningThreadsSorting \in Int /\ sem1 \in Nat
      /\ sortPosts \in [B!Thread -> Nat] /\ swapsCount \in Nat
  BY <1>1, StageIs, Zenon DEF BarrierInv, SortTypes
<1>3. "waits2" \in SortPlaces /\ "waits2" # "waits1" /\ "waits2" \in {"waits1", "leaves", "waits2"}
      /\ "waits2" \notin {"swaps", "leaves"} /\ "waits2" \notin {"arrives", "waits1"}
      /\ "waits2" # "ends" /\ "waits2" \in {"waits2", "tests", "ends"}
  BY DEF SortPlaces
<1>4. /\ sortAt' \in [B!Thread -> SortPlaces] /\ sortAt'[t] = "waits2"
      /\ \A u \in B!Thread \ {t} : sortAt'[u] = sortAt[u]
      /\ At1 \in SUBSET B!Thread /\ At2 \in SUBSET B!Thread
      /\ At1' = At1 \ {t} /\ At2' = At2 \cup {t}
  <2> HIDE DEF n
  <2> QED BY <1>1, <1>2, <1>3, SortMoves
<1>5. At1' = At1 /\ t \notin At1 /\ t \notin At2
  <2> HIDE DEF n
  <2> QED BY <1>1, <1>4 DEF At1, At2
<1>6. /\ sem2 = 0 /\ runningThreadsSorting = Cardinality(At2) /\ Posting(sem1, At1)
      /\ swapsCount = 0 => B!Sorted
  BY <1>2, Zenon DEF Leaving
<1>7. /\ Cardinality(At2') = Cardinality(At2) + 1 /\ Cardinality(At2') <= nthreads
      /\ Cardinality(At2') \in Nat /\ nthreads \in Nat /\ nthreads > 0
      /\ Cardinality(At2') = nthreads <=> At2' = B!Thread
  <2>1. At2' \in SUBSET B!Thread
    BY <1>4
  <2>2. /\ Cardinality(At2 \cup {t}) = Cardinality(At2) + 1
    BY <1>4, <1>5, ThreadsCount, Zenon
  <2> HIDE DEF n
  <2>3. At2' = At2 \cup {t}
    BY <1>4
  <2> DEFINE W == At2'
  <2>4. Cardinality(W) <= nthreads /\ Cardinality(W) \in Nat /\ (Cardinality(W) = nthreads <=> W = B!Thread)
    <3>1. W \in SUBSET B!Thread
      BY <2>1
    <3> HIDE DEF W
    <3> QED BY <3>1, ThreadsCount, Zenon
  <2> QED BY <2>2, <2>3, <2>4, SortConstants, Zenon
<1>8. runningThreadsSorting' = Cardinality(At2')
  BY <1>1, <1>6, <1>7, Zenon
<1>9. B!Sorted => B!Sorted'
  BY <1>1, Zenon DEF B!Sorted
<1>10. n \in Nat /\ runningThreadsSorting' \in Int
  BY <1>1, <1>2, <1>7
<1>11. /\ sortPosts' \in [B!Thread -> Nat] /\ sortPosts'[t] = n
       /\ \A u \in B!Thread \ {t} : sortPosts'[u] = sortPosts[u]
  <2> HIDE DEF n
  <2> QED BY <1>1, <1>2, <1>10, Update, Zenon
<1>12. SortTypes'
  BY <1>1, <1>2, <1>4, <1>10, <1>11, Zenon DEF SortTypes
<1>13. CASE runningThreadsSorting + 1 = nthreads
  <2>1. n = nthreads
    BY <1>13
  <2> HIDE DEF n
  <2>2. At2' = B!Thread
    BY <1>1, <1>7, <1>8, <1>13, Zenon
  <2>3. \A u \in B!Thread : sortAt'[u] = "waits2"
    <3>1. At2' = {u \in B!Thread : sortAt'[u] = "waits2"}
      BY DEF At2, B!Thread
    <3> QED BY <2>2, <3>1
  <2>4. At1 = {} /\ At1' = {}
    <3>1. At1' = {u \in B!Thread : sortAt'[u] = "waits1"}
      BY DEF At1, B!Thread
    <3> QED BY <1>5, <2>3, <3>1
  <2>5. sem1 = 0 /\ \A u \in B!Thread : sortPosts[u] = 0
    BY <1>2, <1>6, <2>4, PosterIs, Zenon
  <2>6. Posting(sem2, At2)'
    <3>1. 0 + nthreads = Cardinality(B!Thread)
      BY SortConstants
    <3> QED BY <1>1, <1>6, <1>11, <2>1, <2>2, <2>5, <3>1, Zenon DEF Posting
  <2>7. (Going \/ Ending)'
    <3>1. CASE swapsCount > 0
      BY <1>1, <1>3, <2>3, <3>1, Zenon DEF Going
    <3>2. CASE swapsCount = 0
      BY <1>1, <1>3, <1>6, <1>9, <2>3, <3>2, Zenon DEF Ending
    <3> QED BY <1>2, <3>1, <3>2
  <2>8. runningThreadsSorting' > 0 /\ runningThreadsSorting' = nthreads - Cardinality(At1')
    <3>1. Cardinality(At1') = 0
      BY <2>4, FS_EmptySet, Zenon
    <3> QED BY <1>1, <1>7, <1>13, <3>1
  <2>9. Working'
    BY <1>1, <1>3, <2>3, <2>5, <2>6, <2>7, <2>8, Zenon DEF Working
  <2> QED BY <1>12, <2>9, Zenon DEF BarrierInv
<1>14. CASE runningThreadsSorting + 1 # nthreads
  <2>1. n = 0
    BY <1>14
  <2> HIDE DEF n
  <2>2. sortPosts[t] = 0
    <3>1. sortPosts[t] \in Nat /\ ~(sortPosts[t] > 0)
      BY <1>2, <1>5, <1>6, PosterIs, Zenon
    <3> QED BY <3>1
  <2>3. \A u \in B!Thread : sortPosts'[u] = sortPosts[u]
    BY <1>11, <2>1, <2>2, Zenon
  <2>4. Posting(sem1, At1)'
    BY <1>1, <1>5, <1>6, <2>3, Zenon DEF Posting
  <2>5. runningThreadsSorting' < nthreads
    BY <1>1, <1>7, <1>8, <1>14
  <2>6. \A u \in B!Thread : sortAt'[u] \in {"waits1", "leaves", "waits2"}
    BY <1>2, <1>3, <1>4, Zenon DEF Leaving
  <2>7. Leaving'
    BY <1>1, <1>6, <1>8, <1>9, <2>4, <2>5, <2>6, Zenon DEF Leaving
  <2> QED BY <1>12, <2>7, Zenon DEF BarrierInv
<1> QED BY <1>13, <1>14

\* In the first state the threads are about to sort.
LEMMA BarrierStart == B!Init => BarrierInv
<1> SUFFICES ASSUME B!Init PROVE BarrierInv
  OBVIOUS
<1>1. /\ vet \in [B!Index -> Element] /\ runningThreadsSorting = nthreads
      /\ sem1 = 0 /\ sem2 = 0 /\ swapsCount = 0
      /\ sortAt = [t \in B!Thread |-> "sorts"] /\ sortPosts = [t \in B!Thread |-> 0]
  BY Zenon DEF B!Init
<1>2. "sorts" \in SortPlaces /\ "sorts" \notin {"swaps", "leaves"} /\ "sorts" # "ends"
      /\ "sorts" \notin {"waits2", "tests"} /\ "sorts" \notin {"arrives", "waits1"}
      /\ "sorts" # "waits1" /\ "sorts" # "waits2"
  BY DEF SortPlaces
<1>3. \A t \in B!Thread : sortAt[t] = "sorts" /\ sortPosts[t] = 0
  BY <1>1
<1>4. SortTypes
  <2>1. vet \in [B!Index -> Int]
    BY <1>1, SortConstants
  <2>2. sortPosts \in [B!Thread -> Nat] /\ sortAt \in [B!Thread -> SortPlaces]
    BY <1>1, <1>2
  <2>3. runningThreadsSorting \in Int /\ 0 \in Nat
    BY <1>1, SortConstants
  <2> QED BY <1>1, <2>1, <2>2, <2>3, Zenon DEF SortTypes
<1>5. At1 = {} /\ At2 = {}
  BY <1>2, <1>3 DEF At1, At2
<1>6. Cardinality({}) = 0 /\ nthreads > 0 /\ nthreads = nthreads - 0 /\ 1 \in B!Thread /\ 0 + 0 = 0
      /\ ~(0 > 0)
  BY FS_EmptySet, SortConstants
<1>7. Posting(sem2, At2)
  BY <1>1, <1>3, <1>5, <1>6, Zenon DEF Posting
<1>8. Going
  BY <1>2, <1>3, Zenon DEF Going
<1>9. Working
  BY <1>1, <1>2, <1>3, <1>5, <1>6, <1>7, <1>8, Zenon DEF Working
<1> QED BY <1>4, <1>9, Zenon DEF BarrierInv

\* Every step goes through the stages in order.
LEMMA BarrierNext == BarrierInv /\ [B!Next]_(B!vars) => BarrierInv'
<1> SUFFICES ASSUME BarrierInv, [B!Next]_(B!vars) PROVE BarrierInv'
  OBVIOUS
<1>1. CASE UNCHANGED B!vars
  <2>1. /\ vet' = vet /\ runningThreadsSorting' = runningThreadsSorting /\ sem1' = sem1
        /\ sem2' = sem2 /\ swapsCount' = swapsCount /\ sortAt' = sortAt /\ sortPosts' = sortPosts
    BY <1>1, Zenon DEF B!vars, B!shared
  <2>2. At1' = At1 /\ At2' = At2 /\ (SortTypes => SortTypes')
    BY <2>1, Zenon DEF At1, At2, SortTypes
  <2>3. /\ Posting(sem1, At1) => Posting(sem1, At1)'
        /\ Posting(sem2, At2) => Posting(sem2, At2)'
    BY <2>1, <2>2, Zenon DEF Posting
  <2>4. \A t \in B!Thread : RegionSorted(t) => RegionSorted(t)'
    BY <2>1, Zenon DEF RegionSorted
  <2>5. B!Sorted => B!Sorted'
    BY <2>1, Zenon DEF B!Sorted
  <2>6. (Going => Going') /\ (Ending => Ending')
    BY <2>1, <2>4, <2>5, Zenon DEF Going, Ending
  <2>7. Working => Working'
    BY <2>1, <2>2, <2>3, <2>6, Zenon DEF Working
  <2>8. Swapping => Swapping'
    BY <2>1, <2>4, Zenon DEF Swapping
  <2>9. Leaving => Leaving'
    BY <2>1, <2>2, <2>3, <2>5, Zenon DEF Leaving
  <2> QED BY <2>2, <2>7, <2>8, <2>9, Zenon DEF BarrierInv
<1>2. CASE B!Next
  <2>1. PICK t \in B!Thread : B!Step(t)
    BY <1>2 DEF B!Next
  <2> QED BY <2>1, BubbleSortKeeps, ArriveKeeps, SwapKeeps, Post1Keeps, Wait1Keeps, LeaveKeeps,
             Post2Keeps, Wait2Keeps, TestKeeps, Zenon DEF B!Step
<1> QED BY <1>1, <1>2

\* The stages keep the threads apart that must be apart.
LEMMA StagesAre == BarrierInv => B!InTheSameTurn
<1> SUFFICES ASSUME BarrierInv PROVE B!InTheSameTurn
  OBVIOUS
<1>1. ASSUME NEW t \in B!Thread, NEW u \in B!Thread, t # u, sortAt[t] = "swaps"
      PROVE  sortAt[u] = "waits1"
  <2>1. Swapping
    BY <1>1, StageIs, Zenon
  <2> QED BY <1>1, <2>1 DEF Swapping
<1>2. ASSUME NEW t \in B!Thread, sortAt[t] = "ends"
      PROVE  /\ \A u \in B!Thread : sortAt[u] \in {"waits2", "tests", "ends"}
             /\ B!Sorted /\ swapsCount = 0
  <2>1. sortAt[t] \in {"tests", "ends"}
    BY <1>2
  <2>2. Working
    BY <2>1, StageIs, Zenon
  <2> QED BY <1>2, <2>2, Zenon DEF Working, Going, Ending
<1> QED BY <1>1, <1>2, Zenon DEF B!InTheSameTurn

\* lab4.2, for any number of threads and any array of numbers: nobody works on
\* the array while the last thread swaps, nobody leaves while another goes on,
\* and the array that they leave behind is sorted.
THEOREM SortIsRight == B!Spec => []B!InTheSameTurn
BY BarrierStart, BarrierNext, StagesAre, PTL DEF B!Spec

\* The behaviours of the labs are behaviours of lab4.2.
LEMMA LabHasSort == LabSpec => B!Spec
<1>1. LabInit => B!Init
  BY Zenon DEF LabInit
<1>2. [LabNext]_labVars => [B!Next]_(B!vars)
  <2>1. UNCHANGED sort => UNCHANGED B!vars
    BY Zenon DEF sort, B!vars, B!shared
  <2>2. ASSUME LabNext PROVE [B!Next]_(B!vars)
    <3>1. CASE lab = "sort"
      BY <2>2, <3>1, SMTT(10) DEF LabNext
    <3>2. CASE lab # "sort"
      BY <2>1, <2>2, <3>2, Zenon DEF LabNext
    <3> QED BY <3>1, <3>2
  <2>3. UNCHANGED labVars => UNCHANGED sort
    BY Zenon DEF labVars
  <2> QED BY <2>1, <2>2, <2>3
<1> QED BY <1>1, <1>2, PTL DEF LabSpec, B!Spec

\* So it is in every execution of every program of the labs.
THEOREM LabSortIsRight == LabSpec => []SortInv
BY LabHasSort, SortIsRight, PTL DEF SortInv

-----------------------------------------------------------------------------
(* lab10es03: the comparison of directory trees. *)

\* The entries of all the visits.
Found == UNION {{v[k] : k \in DOMAIN v} : v \in Visits}

\* Where a reader may be, and where it has nothing more to publish.
Finishing == {"leaves", "done", "ends"}
ReaderPlaces == {"visits", "published", "released"} \cup Finishing

\* What is left of a visit is its end.
VisitInv ==
  /\ visit \in [C!Reader -> Seq(Found)] /\ left \in [C!Reader -> Seq(Found)]
  /\ readerDone \in [C!Reader -> BOOLEAN] /\ terminate \in [C!Reader -> BOOLEAN]
  /\ rat \in [C!Reader -> ReaderPlaces] /\ readerSemaphore \in [C!Reader -> 0..1]
  /\ DOMAIN entry = C!Reader /\ entry = [r \in C!Reader |-> entry[r]]
  /\ \A r \in C!Reader :
       /\ Len(left[r]) <= Len(visit[r])
       /\ \A k \in 1..Len(left[r]) : left[r][k] = visit[r][Len(visit[r]) - Len(left[r]) + k]

\* The readers that have published in this round, and those that have told the
\* comparator so, or that they have finished.
Published(r) == readerSemaphore[r] = 0 /\ rat[r] \in {"published", "released", "visits"}
Heard == {r \in C!Reader : \/ readerSemaphore[r] = 0 /\ rat[r] \in {"released", "visits"}
                          \/ rat[r] = "ends"}

\* The readers in the round after k of them: none was told to terminate, and
\* the visits have the k entries that were compared in common.
InRound(r, k) ==
  /\ ~terminate[r]
  /\ rat[r] \in {"published"} \cup Finishing => readerSemaphore[r] = 0
  /\ rat[r] \in Finishing => Len(left[r]) = 0
  /\ readerDone[r] <=> rat[r] \in {"done", "ends"}
  /\ Len(visit[r]) - Len(left[r]) = IF Published(r) THEN k + 1 ELSE k
  /\ Published(r) => entry[r] = visit[r][k + 1]

Alike(k) == \A r, s \in C!Reader : \A j \in 1..k : visit[r][j] = visit[s][j]

ReadersInv(k) == Alike(k) /\ \A r \in C!Reader : InRound(r, k)

\* What the comparator has seen when it has looked at the first m readers.
SeenInv(m) ==
  /\ someFinished <=> \E r \in 1..m : readerDone[r]
  /\ someContinue <=> \E r \in 1..m : ~readerDone[r]
  /\ IF someContinue
     THEN /\ strToCompare \in 1..m /\ ~readerDone[strToCompare]
          /\ \A r \in 1..m : ~readerDone[r] => entry[r] = entry[strToCompare]
     ELSE strToCompare = 0

Differs == \E r, s \in C!Reader : ~readerDone[r] /\ ~readerDone[s] /\ entry[r] # entry[s]

\* The comparator counts the readers that have told it, and looks when all have.
ComparatorInv ==
  /\ comparatorSemaphore \in Nat /\ loop \in 1..nReaders
  /\ someFinished \in BOOLEAN /\ someContinue \in BOOLEAN /\ different \in BOOLEAN
  /\ \/ /\ comparatorAt = "waits" /\ ~different
        /\ comparatorSemaphore + (loop - 1) = Cardinality(Heard)
     \/ /\ comparatorAt = "looks" /\ ~different
        /\ comparatorSemaphore = 0 /\ Heard = C!Reader /\ SeenInv(loop - 1)
     \/ /\ comparatorAt = "decides" /\ loop = 1
        /\ comparatorSemaphore = 0 /\ Heard = C!Reader
        /\ IF different THEN Differs ELSE SeenInv(nReaders)

RightAnswer == different <=> \E r, s \in C!Reader : visit[r] # visit[s]

CompareInv ==
  /\ VisitInv
  /\ C!NobodyFails => IF comparatorAt = "ends" THEN RightAnswer
                      ELSE ComparatorInv /\ \E k \in Nat : ReadersInv(k)

\* The readers are 1..nReaders.
LEMMA ReadersAre ==
  /\ nReaders \in Nat /\ nReaders > 0 /\ C!Reader = 1..nReaders
  /\ IsFiniteSet(C!Reader) /\ Cardinality(C!Reader) = nReaders
<1>1. nReaders \in Nat /\ nReaders > 0
  BY LabAssumption DEF LabAssumption, C!ComparatorAssumption
<1>2. C!Reader = 1..nReaders
  BY DEF C!Reader
<1> QED BY <1>1, <1>2, FS_Interval

\* Some of the readers are counted.
LEMMA SomeReaders ==
  ASSUME NEW S \in SUBSET C!Reader
  PROVE  /\ IsFiniteSet(S) /\ Cardinality(S) \in Nat /\ Cardinality(S) <= nReaders
         /\ Cardinality(S) = nReaders => S = C!Reader
BY ReadersAre, FS_Subset, FS_CardinalityType

\* No reader has told the comparator anything at the start.
LEMMA CompareStart == C!Init => CompareInv
<1> SUFFICES ASSUME C!Init PROVE CompareInv
  OBVIOUS
<1>1. /\ visit \in [C!Reader -> Visits] /\ left = visit
      /\ readerSemaphore = [r \in C!Reader |-> 1] /\ comparatorSemaphore = 0
      /\ rat = [r \in C!Reader |-> "visits"] /\ comparatorAt = "waits" /\ loop = 1
  BY DEF C!Init
<1>2. ASSUME NEW v \in Visits PROVE v \in Seq(Found)
  <2>1. v \in Seq({v[k] : k \in DOMAIN v})
    BY LabAssumption, Zenon DEF LabAssumption, C!ComparatorAssumption
  <2>2. {v[k] : k \in DOMAIN v} \subseteq Found
    BY Zenon DEF Found
  <2>3. Len(v) \in Nat /\ DOMAIN v = 1..Len(v) /\ \A k \in 1..Len(v) : v[k] \in Found
    BY <2>1, <2>2, LenProperties, ElementOfSeq
  <2>4. v = [k \in 1..Len(v) |-> v[k]]
    BY <2>1, <2>3
  <2> QED BY <2>3, <2>4, IsASeq
<1>3. visit \in [C!Reader -> Seq(Found)]
  BY <1>1, <1>2, Zenon
<1>4. ASSUME NEW r \in C!Reader
      PROVE  /\ rat[r] = "visits" /\ readerSemaphore[r] = 1
             /\ left[r] = visit[r] /\ Len(visit[r]) \in Nat
  BY <1>1, <1>3, LenProperties
<1>5. /\ \A r \in C!Reader : ~readerDone[r] /\ ~terminate[r]
      /\ readerDone \in [C!Reader -> BOOLEAN] /\ terminate \in [C!Reader -> BOOLEAN]
      /\ ~someContinue /\ ~someFinished /\ ~different
      /\ someContinue \in BOOLEAN /\ someFinished \in BOOLEAN /\ different \in BOOLEAN
      /\ DOMAIN entry = C!Reader /\ entry = [r \in C!Reader |-> entry[r]]
  BY Zenon DEF C!Init
<1>6. VisitInv
  <2>1. rat \in [C!Reader -> ReaderPlaces] /\ readerSemaphore \in [C!Reader -> 0..1]
    BY <1>1 DEF ReaderPlaces
  <2>2. ASSUME NEW r \in C!Reader
        PROVE  /\ Len(left[r]) <= Len(visit[r])
               /\ \A k \in 1..Len(left[r]) : left[r][k] = visit[r][Len(visit[r]) - Len(left[r]) + k]
    <3>1. left[r] = visit[r] /\ Len(visit[r]) \in Nat
      BY <1>4
    <3>2. \A k \in 1..Len(visit[r]) : Len(visit[r]) - Len(visit[r]) + k = k
      BY <3>1
    <3>3. Len(visit[r]) <= Len(visit[r])
      BY <3>1
    <3> QED BY <3>1, <3>2, <3>3, Zenon
  <2> QED BY <1>1, <1>3, <1>5, <2>1, <2>2, Zenon DEF VisitInv
<1>7. Cardinality(Heard) = 0
  <2>1. \A r \in C!Reader : readerSemaphore[r] # 0 /\ rat[r] # "ends"
    BY <1>4
  <2>2. Heard = {}
    BY <2>1, Zenon DEF Heard
  <2> QED BY <2>2, FS_EmptySet
<1>8. ComparatorInv
  <2>1. comparatorSemaphore \in Nat /\ loop \in 1..nReaders
        /\ comparatorSemaphore + (loop - 1) = Cardinality(Heard)
    BY <1>1, <1>7, ReadersAre
  <2> QED BY <1>1, <1>5, <2>1, Zenon DEF ComparatorInv
<1>9. ReadersInv(0)
  <2>1. ASSUME NEW r \in C!Reader
        PROVE  /\ rat[r] \notin {"published"} \cup Finishing
               /\ rat[r] \notin {"done", "ends"} /\ ~Published(r)
               /\ Len(visit[r]) - Len(left[r]) = 0
    BY <1>4 DEF Finishing, Published
  <2>2. Finishing \subseteq {"published"} \cup Finishing /\ 1..0 = {}
    OBVIOUS
  <2> QED BY <1>5, <2>1, <2>2, Zenon DEF ReadersInv, InRound, Alike
<1>10. CompareInv
  <2>1. 0 \in Nat /\ comparatorAt # "ends"
    BY <1>1
  <2> QED BY <1>6, <1>8, <1>9, <2>1, Zenon DEF CompareInv
<1> QED BY <1>10

\* What a step of one reader leaves alone.
OthersKeep(r) ==
  \A s \in C!Reader \ {r} :
    /\ left'[s] = left[s] /\ entry'[s] = entry[s] /\ (readerDone'[s] <=> readerDone[s])
    /\ readerSemaphore'[s] = readerSemaphore[s] /\ rat'[s] = rat[s]

Comparing == <<comparatorAt, loop, strToCompare, someContinue, someFinished, different>>

\* A step of a reader that has not told the comparator yet finds it waiting.
LEMMA ComparatorWaits ==
  ASSUME ComparatorInv, NEW r \in C!Reader, r \notin Heard, UNCHANGED Comparing,
         \/ Heard' = Heard /\ comparatorSemaphore' = comparatorSemaphore
         \/ Heard' = Heard \cup {r} /\ comparatorSemaphore' = comparatorSemaphore + 1
  PROVE  ComparatorInv'
<1>1. /\ comparatorAt = "waits" /\ ~different /\ comparatorSemaphore \in Nat
      /\ loop \in 1..nReaders /\ comparatorSemaphore + (loop - 1) = Cardinality(Heard)
      /\ someFinished \in BOOLEAN /\ someContinue \in BOOLEAN /\ different \in BOOLEAN
  BY Zenon DEF ComparatorInv
<1>2. Heard \subseteq C!Reader
  BY DEF Heard
<1>3. IsFiniteSet(Heard) /\ Cardinality(Heard) \in Nat
  BY <1>2, SomeReaders
<1>4. Cardinality(Heard \cup {r}) = Cardinality(Heard) + 1
  BY <1>3, FS_AddElement
<1>5. comparatorAt' = comparatorAt /\ loop' = loop
  BY DEF Comparing
<1>6. comparatorSemaphore' \in Nat /\ comparatorSemaphore' + (loop' - 1) = Cardinality(Heard')
  <2>1. CASE Heard' = Heard /\ comparatorSemaphore' = comparatorSemaphore
    BY <1>1, <1>5, <2>1
  <2>2. CASE Heard' = Heard \cup {r} /\ comparatorSemaphore' = comparatorSemaphore + 1
    <3>1. Cardinality(Heard') = Cardinality(Heard) + 1
      BY <1>4, <2>2
    <3> QED BY <1>1, <1>3, <1>5, <2>2, <3>1
  <2> QED BY <2>1, <2>2
<1>7. /\ ~different' /\ different' \in BOOLEAN
      /\ someFinished' \in BOOLEAN /\ someContinue' \in BOOLEAN
  BY <1>1, Zenon DEF Comparing
<1> QED BY <1>1, <1>5, <1>6, <1>7, Zenon DEF ComparatorInv

\* The others are in the same round as before, so only the reader that makes
\* the step has to be looked at.
LEMMA RoundIs ==
  ASSUME NEW k \in Nat, ReadersInv(k), NEW r \in C!Reader, OthersKeep(r),
         UNCHANGED <<visit, terminate>>, InRound(r, k)'
  PROVE  ReadersInv(k)'
<1>1. visit' = visit /\ terminate' = terminate
  OBVIOUS
<1>2. Alike(k)'
  BY <1>1 DEF Alike, ReadersInv
<1>3. ASSUME NEW s \in C!Reader, s # r PROVE InRound(s, k)'
  <2>1. /\ left'[s] = left[s] /\ entry'[s] = entry[s] /\ (readerDone'[s] <=> readerDone[s])
        /\ readerSemaphore'[s] = readerSemaphore[s] /\ rat'[s] = rat[s]
    BY <1>3, Zenon DEF OthersKeep
  <2>2. Published(s)' <=> Published(s)
    BY <2>1, Zenon DEF Published
  <2>3. InRound(s, k)
    BY Zenon DEF ReadersInv
  <2>4. Len(visit'[s]) - Len(left'[s]) = IF Published(s)' THEN k + 1 ELSE k
    <3>1. Len(visit'[s]) - Len(left'[s]) = Len(visit[s]) - Len(left[s])
      BY <1>1, <2>1
    <3>2. CASE Published(s)
      BY <2>2, <2>3, <3>1, <3>2, Zenon DEF InRound
    <3>3. CASE ~Published(s)
      BY <2>2, <2>3, <3>1, <3>3, Zenon DEF InRound
    <3> QED BY <3>2, <3>3
  <2>5. ~terminate'[s] /\ (readerDone'[s] <=> rat'[s] \in {"done", "ends"})
    BY <1>1, <2>1, <2>3, Zenon DEF InRound
  <2> QED BY <1>1, <2>1, <2>2, <2>3, <2>4, <2>5, Zenon DEF InRound
<1> QED BY <1>2, <1>3, Zenon DEF ReadersInv

\* Places counted from the end of a sequence that loses its head.
LEMMA FromTheEnd ==
  ASSUME NEW a \in Nat, NEW b \in Nat, NEW j \in 1..a - 1
  PROVE  j + 1 \in 1..a /\ b - a + (j + 1) = b - (a - 1) + j
OBVIOUS

\* The same for how many there were before it.
LEMMA OneMore ==
  ASSUME NEW a \in Nat, NEW b \in Nat, NEW k \in Nat, b - a = k
  PROVE  b - (a - 1) = k + 1
OBVIOUS

\* A reader publishes its next entry.
LEMMA PublishKeeps ==
  ASSUME VisitInv, NEW r \in C!Reader, C!Publish(r)
  PROVE  /\ VisitInv'
         /\ \A k \in Nat : ReadersInv(k) /\ ComparatorInv => ReadersInv(k)' /\ ComparatorInv'
<1>1. /\ rat[r] = "visits" /\ left[r] # <<>> /\ readerSemaphore[r] = 1
      /\ readerSemaphore' = [readerSemaphore EXCEPT ![r] = 0]
      /\ left' = [left EXCEPT ![r] = Tail(left[r])]
      /\ rat' = [rat EXCEPT ![r] = "published"]
  BY DEF C!Publish, C!WaitsOwn, C!Goto
<1>2. /\ entry' = [entry EXCEPT ![r] = Head(left[r])]
      /\ UNCHANGED <<visit, readerDone, terminate, comparatorSemaphore>> /\ UNCHANGED Comparing
  BY Zenon DEF C!Publish, C!comparator, Comparing
<1>3. /\ visit \in [C!Reader -> Seq(Found)] /\ left \in [C!Reader -> Seq(Found)]
      /\ rat \in [C!Reader -> ReaderPlaces] /\ readerSemaphore \in [C!Reader -> 0..1]
      /\ DOMAIN entry = C!Reader /\ entry = [p \in C!Reader |-> entry[p]]
      /\ \A p \in C!Reader :
           /\ Len(left[p]) <= Len(visit[p])
           /\ \A j \in 1..Len(left[p]) : left[p][j] = visit[p][Len(visit[p]) - Len(left[p]) + j]
  BY Zenon DEF VisitInv
<1>4. /\ Tail(left[r]) \in Seq(Found) /\ Len(Tail(left[r])) = Len(left[r]) - 1
      /\ Head(left[r]) = left[r][1] /\ Len(left[r]) \in Nat /\ Len(left[r]) > 0
      /\ Len(visit[r]) \in Nat
      /\ \A j \in 1..Len(left[r]) - 1 : Tail(left[r])[j] = left[r][j + 1]
  <2>1. left[r] \in Seq(Found) /\ visit[r] \in Seq(Found)
    BY <1>3
  <2> QED BY <1>1, <2>1, HeadTailProperties, LenProperties
<1>5. /\ left'[r] = Tail(left[r]) /\ entry'[r] = Head(left[r])
      /\ readerSemaphore'[r] = 0 /\ rat'[r] = "published"
  BY <1>1, <1>2, <1>3
<1>6. OthersKeep(r)
  BY <1>1, <1>2, <1>3 DEF OthersKeep
<1>7. /\ left' \in [C!Reader -> Seq(Found)]
      /\ rat' \in [C!Reader -> ReaderPlaces] /\ readerSemaphore' \in [C!Reader -> 0..1]
  BY <1>1, <1>3, <1>4 DEF ReaderPlaces
<1>8. DOMAIN entry' = C!Reader /\ entry' = [p \in C!Reader |-> entry'[p]]
  BY <1>2, <1>3
<1>9. ASSUME NEW p \in C!Reader
      PROVE  /\ Len(left'[p]) <= Len(visit'[p])
             /\ \A j \in 1..Len(left'[p]) :
                  left'[p][j] = visit'[p][Len(visit'[p]) - Len(left'[p]) + j]
  <2>1. CASE p = r
    <3>1. ASSUME NEW j \in 1..Len(left[r]) - 1
          PROVE  left'[r][j] = visit[r][Len(visit[r]) - (Len(left[r]) - 1) + j]
      <4>1. j + 1 \in 1..Len(left[r])
            /\ Len(visit[r]) - Len(left[r]) + (j + 1) = Len(visit[r]) - (Len(left[r]) - 1) + j
        <5>1. Len(left[r]) \in Nat /\ Len(visit[r]) \in Nat
          BY <1>4
        <5> QED BY <5>1, FromTheEnd
      <4>2. Tail(left[r])[j] = left[r][j + 1]
        BY <1>4, Zenon
      <4>3. left[r][j + 1] = visit[r][Len(visit[r]) - Len(left[r]) + (j + 1)]
        BY <1>3, <4>1, Zenon
      <4> QED BY <1>5, <4>1, <4>2, <4>3
    <3>2. Len(left'[r]) = Len(left[r]) - 1 /\ Len(left[r]) <= Len(visit[r])
          /\ Len(left[r]) \in Nat /\ Len(visit[r]) \in Nat /\ visit' = visit
      BY <1>2, <1>3, <1>4, <1>5
    <3>3. Len(left'[r]) <= Len(visit[r])
      BY <3>2
    <3> QED BY <2>1, <3>1, <3>2, <3>3, Zenon
  <2>2. CASE p # r
    <3>1. left'[p] = left[p] /\ visit' = visit
      BY <1>2, <1>6, <2>2 DEF OthersKeep
    <3> QED BY <1>3, <3>1, SMTT(60)
  <2> QED BY <2>1, <2>2
<1>10. VisitInv'
  BY <1>2, <1>3, <1>7, <1>8, <1>9, Zenon DEF VisitInv
<1>11. ASSUME NEW k \in Nat, ReadersInv(k), ComparatorInv PROVE ReadersInv(k)' /\ ComparatorInv'
  <2>1. InRound(r, k)
    BY <1>11, Zenon DEF ReadersInv
  <2>2. Len(visit[r]) - Len(left[r]) = k /\ ~readerDone[r] /\ ~terminate[r]
    <3>1. ~Published(r) /\ rat[r] \notin {"done", "ends"}
      BY <1>1 DEF Published
    <3> QED BY <2>1, <3>1, Zenon DEF InRound
  <2>3. /\ ~terminate'[r] /\ ~readerDone'[r] /\ rat'[r] \notin {"done", "ends"}
        /\ rat'[r] \notin Finishing /\ Published(r)'
    BY <1>2, <1>5, <2>2 DEF Finishing, Published
  <2>4. Len(visit'[r]) - Len(left'[r]) = k + 1
    <3>1. Len(left'[r]) = Len(left[r]) - 1 /\ Len(left[r]) \in Nat /\ Len(visit[r]) \in Nat
      BY <1>4, <1>5
    <3>2. Len(visit[r]) - Len(left[r]) = k /\ Len(visit'[r]) = Len(visit[r])
      BY <1>2, <2>2, Zenon
    <3>3. Len(visit[r]) - (Len(left[r]) - 1) = k + 1
      BY <3>1, <3>2, OneMore
    <3> QED BY <3>1, <3>2, <3>3, Zenon
  <2>5. entry'[r] = visit'[r][k + 1]
    <3>1. 1 \in 1..Len(left[r])
      BY <1>4
    <3> QED BY <1>2, <1>3, <1>4, <1>5, <2>2, <3>1, Zenon
  <2>6. InRound(r, k)'
    BY <1>5, <2>3, <2>4, <2>5, Zenon DEF InRound
  <2>7. ReadersInv(k)'
    BY <1>2, <1>6, <1>11, <2>6, RoundIs, Zenon
  <2>8. r \notin Heard
    BY <1>1 DEF Heard
  <2>9. Heard' = Heard
    <3>1. r \notin Heard'
      BY <1>5 DEF Heard
    <3> QED BY <1>6, <2>8, <3>1 DEF Heard, OthersKeep
  <2> QED BY <1>2, <1>11, <2>7, <2>8, <2>9, ComparatorWaits
<1> QED BY <1>10, <1>11

\* A step of a reader that publishes nothing.
LEMMA MovesKeep ==
  ASSUME VisitInv, NEW r \in C!Reader, NEW l \in ReaderPlaces,
         rat' = [rat EXCEPT ![r] = l],
         \/ UNCHANGED readerSemaphore
         \/ readerSemaphore' = [readerSemaphore EXCEPT ![r] = 0],
         \/ UNCHANGED readerDone
         \/ readerDone' = [readerDone EXCEPT ![r] = TRUE],
         UNCHANGED <<visit, left, entry, terminate>>
  PROVE  /\ VisitInv' /\ OthersKeep(r) /\ rat'[r] = l
         /\ rat[r] \in ReaderPlaces /\ readerSemaphore[r] \in 0..1
         /\ UNCHANGED readerSemaphore \/ readerSemaphore'[r] = 0
         /\ UNCHANGED readerDone \/ readerDone'[r]
<1>1. /\ rat \in [C!Reader -> ReaderPlaces] /\ readerSemaphore \in [C!Reader -> 0..1]
      /\ readerDone \in [C!Reader -> BOOLEAN]
  BY Zenon DEF VisitInv
<1>2. /\ rat' \in [C!Reader -> ReaderPlaces] /\ readerSemaphore' \in [C!Reader -> 0..1]
      /\ rat'[r] = l /\ \A s \in C!Reader \ {r} : rat'[s] = rat[s]
      /\ \A s \in C!Reader \ {r} : readerSemaphore'[s] = readerSemaphore[s]
      /\ UNCHANGED readerSemaphore \/ readerSemaphore'[r] = 0
  BY <1>1
<1>3. /\ readerDone' \in [C!Reader -> BOOLEAN]
      /\ \A s \in C!Reader \ {r} : readerDone'[s] <=> readerDone[s]
      /\ UNCHANGED readerDone \/ readerDone'[r]
  <2>1. CASE UNCHANGED readerDone
    BY <1>1, <2>1, Zenon
  <2>2. CASE readerDone' = [readerDone EXCEPT ![r] = TRUE]
    BY <1>1, <2>2, Zenon
  <2> QED BY <2>1, <2>2
<1>4. visit' = visit /\ left' = left /\ entry' = entry /\ terminate' = terminate
  OBVIOUS
<1>5. VisitInv'
  <2>1. /\ visit' \in [C!Reader -> Seq(Found)] /\ left' \in [C!Reader -> Seq(Found)]
        /\ terminate' \in [C!Reader -> BOOLEAN]
        /\ DOMAIN entry' = C!Reader /\ entry' = [p \in C!Reader |-> entry'[p]]
    BY <1>4, Zenon DEF VisitInv
  <2>2. ASSUME NEW p \in C!Reader
        PROVE  /\ Len(left'[p]) <= Len(visit'[p])
               /\ \A j \in 1..Len(left'[p]) :
                    left'[p][j] = visit'[p][Len(visit'[p]) - Len(left'[p]) + j]
    <3>1. /\ Len(left[p]) <= Len(visit[p])
          /\ \A j \in 1..Len(left[p]) : left[p][j] = visit[p][Len(visit[p]) - Len(left[p]) + j]
      BY Zenon DEF VisitInv
    <3> QED BY <1>4, <3>1
  <2> QED BY <1>2, <1>3, <2>1, <2>2, Zenon DEF VisitInv
<1>6. OthersKeep(r)
  BY <1>2, <1>3, <1>4, Zenon DEF OthersKeep
<1> QED BY <1>1, <1>2, <1>3, <1>5, <1>6

\* A reader tells the comparator.
LEMMA ReleaseKeeps ==
  ASSUME VisitInv, NEW r \in C!Reader, C!Release(r)
  PROVE  /\ VisitInv'
         /\ \A k \in Nat : ReadersInv(k) /\ ComparatorInv => ReadersInv(k)' /\ ComparatorInv'
<1>1. /\ rat[r] \in {"published", "done"} /\ C!ReleaseComparator
      /\ rat' = [rat EXCEPT ![r] = IF rat[r] = "done" THEN "ends" ELSE "released"]
      /\ UNCHANGED <<visit, left, entry, readerDone, terminate, readerSemaphore>>
      /\ UNCHANGED Comparing
  BY Zenon DEF C!Release, C!Goto, C!params, C!comparator, Comparing
<1>2. (IF rat[r] = "done" THEN "ends" ELSE "released") \in ReaderPlaces
  BY DEF ReaderPlaces, Finishing
<1>3. /\ VisitInv' /\ OthersKeep(r)
      /\ rat'[r] = IF rat[r] = "done" THEN "ends" ELSE "released"
  BY <1>1, <1>2, MovesKeep
<1>4. ASSUME NEW k \in Nat, ReadersInv(k), ComparatorInv PROVE ReadersInv(k)' /\ ComparatorInv'
  <2>1. InRound(r, k)
    BY <1>4, Zenon DEF ReadersInv
  <2>2. Published(r)' <=> Published(r)
    BY <1>1, <1>3 DEF Published
  <2>3. /\ rat'[r] \in {"published"} \cup Finishing => rat[r] \in {"published"} \cup Finishing
        /\ rat'[r] \in Finishing => rat[r] \in Finishing
        /\ rat'[r] \in {"done", "ends"} <=> rat[r] \in {"done", "ends"}
        /\ rat[r] \in {"published"} \cup Finishing
    BY <1>1, <1>3 DEF Finishing
  <2>4. visit' = visit /\ left' = left /\ entry' = entry /\ terminate' = terminate
        /\ readerDone' = readerDone /\ readerSemaphore' = readerSemaphore
    BY <1>1
  <2>5. InRound(r, k)'
    BY <2>1, <2>2, <2>3, <2>4, Zenon DEF InRound
  <2>6. ReadersInv(k)'
    BY <1>1, <1>3, <1>4, <2>5, RoundIs, Zenon
  <2>7. readerSemaphore[r] = 0 /\ r \notin Heard
    BY <1>1, <2>1, <2>3 DEF InRound, Heard
  <2>8. Heard' = Heard \cup {r}
    <3>1. r \in Heard'
      BY <1>1, <1>3, <2>4, <2>7 DEF Heard
    <3> QED BY <1>3, <3>1 DEF Heard, OthersKeep
  <2>9. comparatorSemaphore < nReaders
    <3>1. Heard \subseteq C!Reader /\ Heard # C!Reader
      BY <2>7 DEF Heard
    <3>2. Cardinality(Heard) \in Nat /\ Cardinality(Heard) < nReaders
      BY <3>1, SomeReaders, ReadersAre
    <3>3. comparatorSemaphore \in Nat /\ loop \in 1..nReaders
          /\ comparatorSemaphore + (loop - 1) = Cardinality(Heard)
      BY <1>4, <3>1, Zenon DEF ComparatorInv
    <3> QED BY <3>2, <3>3, ReadersAre
  <2>10. comparatorSemaphore' = comparatorSemaphore + 1
    BY <1>1, <2>9 DEF C!ReleaseComparator
  <2> QED BY <1>1, <1>4, <2>6, <2>7, <2>8, <2>10, ComparatorWaits
<1> QED BY <1>3, <1>4

\* A reader goes on.
LEMMA ToldKeeps ==
  ASSUME VisitInv, NEW r \in C!Reader, C!Told(r)
  PROVE  /\ VisitInv'
         /\ \A k \in Nat : ReadersInv(k) /\ ComparatorInv => ReadersInv(k)' /\ ComparatorInv'
<1>1. /\ rat[r] = "released"
      /\ rat' = [rat EXCEPT ![r] = IF terminate[r] THEN "leaves" ELSE "visits"]
      /\ UNCHANGED <<visit, left, entry, readerDone, terminate, readerSemaphore>>
      /\ UNCHANGED Comparing /\ comparatorSemaphore' = comparatorSemaphore
  BY Zenon DEF C!Told, C!Goto, C!params, C!sems, C!comparator, Comparing
<1>2. (IF terminate[r] THEN "leaves" ELSE "visits") \in ReaderPlaces
  BY DEF ReaderPlaces, Finishing
<1>3. /\ VisitInv' /\ OthersKeep(r)
      /\ rat'[r] = IF terminate[r] THEN "leaves" ELSE "visits"
  BY <1>1, <1>2, MovesKeep
<1>4. ASSUME NEW k \in Nat, ReadersInv(k), ComparatorInv PROVE ReadersInv(k)' /\ ComparatorInv'
  <2>1. InRound(r, k)
    BY <1>4, Zenon DEF ReadersInv
  <2>2. rat'[r] = "visits"
    BY <1>3, <2>1, Zenon DEF InRound
  <2>3. Published(r)' <=> Published(r)
    BY <1>1, <2>2 DEF Published
  <2>4. /\ rat'[r] \notin {"published"} \cup Finishing
        /\ rat'[r] \notin Finishing
        /\ rat'[r] \notin {"done", "ends"} /\ rat[r] \notin {"done", "ends"}
    BY <1>1, <2>2 DEF Finishing
  <2>5. visit' = visit /\ left' = left /\ entry' = entry /\ terminate' = terminate
        /\ readerDone' = readerDone /\ readerSemaphore' = readerSemaphore
    BY <1>1
  <2>6. InRound(r, k)'
    BY <2>1, <2>3, <2>4, <2>5, Zenon DEF InRound
  <2>7. ReadersInv(k)'
    BY <1>1, <1>3, <1>4, <2>6, RoundIs, Zenon
  <2>8. Heard' = Heard
    <3>1. r \in Heard' <=> r \in Heard
      BY <1>1, <2>2, <2>5 DEF Heard
    <3> QED BY <1>3, <3>1 DEF Heard, OthersKeep
  <2>9. ComparatorInv'
    BY <1>1, <1>4, <2>5, <2>8, Zenon DEF ComparatorInv, Comparing, SeenInv, Differs
  <2> QED BY <2>7, <2>9
<1> QED BY <1>3, <1>4

\* A reader comes to the end of its visit.
LEMMA EndVisitKeeps ==
  ASSUME VisitInv, NEW r \in C!Reader, C!EndVisit(r)
  PROVE  /\ VisitInv'
         /\ \A k \in Nat : ReadersInv(k) /\ ComparatorInv => ReadersInv(k)' /\ ComparatorInv'
<1>1. /\ rat[r] = "visits" /\ left[r] = <<>> /\ readerSemaphore[r] = 1
      /\ readerSemaphore' = [readerSemaphore EXCEPT ![r] = 0]
      /\ rat' = [rat EXCEPT ![r] = "leaves"]
      /\ UNCHANGED <<visit, left, entry, readerDone, terminate>>
      /\ UNCHANGED Comparing /\ comparatorSemaphore' = comparatorSemaphore
  BY Zenon DEF C!EndVisit, C!WaitsOwn, C!Goto, C!params, C!comparator, Comparing
<1>2. "leaves" \in ReaderPlaces
  BY DEF ReaderPlaces, Finishing
<1>3. /\ VisitInv' /\ OthersKeep(r) /\ rat'[r] = "leaves"
      /\ UNCHANGED readerSemaphore \/ readerSemaphore'[r] = 0
  BY <1>1, <1>2, MovesKeep
<1>4. ASSUME NEW k \in Nat, ReadersInv(k), ComparatorInv PROVE ReadersInv(k)' /\ ComparatorInv'
  <2>1. InRound(r, k)
    BY <1>4, Zenon DEF ReadersInv
  <2>2. ~Published(r) /\ ~Published(r)' /\ readerSemaphore'[r] = 0 /\ Len(left[r]) = 0
    <3>1. readerSemaphore \in [C!Reader -> 0..1]
      BY Zenon DEF VisitInv
    <3>2. readerSemaphore'[r] = 0
      BY <1>1, <3>1
    <3> QED BY <1>1, <1>3, <3>2 DEF Published
  <2>3. rat'[r] \notin {"done", "ends"} /\ rat[r] \notin {"done", "ends"}
    BY <1>1, <1>3
  <2>4. visit' = visit /\ left' = left /\ entry' = entry /\ terminate' = terminate
        /\ readerDone' = readerDone
    BY <1>1
  <2>5. InRound(r, k)'
    BY <2>1, <2>2, <2>3, <2>4, Zenon DEF InRound
  <2>6. ReadersInv(k)'
    BY <1>1, <1>3, <1>4, <2>5, RoundIs, Zenon
  <2>7. r \notin Heard /\ r \notin Heard'
    BY <1>1, <1>3 DEF Heard
  <2>8. Heard' = Heard
    BY <1>3, <2>7 DEF Heard, OthersKeep
  <2> QED BY <1>1, <1>4, <2>6, <2>7, <2>8, ComparatorWaits
<1> QED BY <1>3, <1>4

\* A reader says that it has finished.
LEMMA DoneKeeps ==
  ASSUME VisitInv, NEW r \in C!Reader, C!Done(r)
  PROVE  /\ VisitInv'
         /\ \A k \in Nat : ReadersInv(k) /\ ComparatorInv => ReadersInv(k)' /\ ComparatorInv'
<1>1. /\ rat[r] = "leaves" /\ readerDone' = [readerDone EXCEPT ![r] = TRUE]
      /\ rat' = [rat EXCEPT ![r] = "done"]
      /\ UNCHANGED <<visit, left, entry, terminate, readerSemaphore>>
      /\ UNCHANGED Comparing /\ comparatorSemaphore' = comparatorSemaphore
  BY Zenon DEF C!Done, C!Goto, C!sems, C!comparator, Comparing
<1>2. "done" \in ReaderPlaces
  BY DEF ReaderPlaces, Finishing
<1>3. /\ VisitInv' /\ OthersKeep(r) /\ rat'[r] = "done" /\ readerDone'[r]
  <2>1. readerDone \in [C!Reader -> BOOLEAN]
    BY Zenon DEF VisitInv
  <2>2. readerDone'[r]
    BY <1>1, <2>1, Zenon
  <2>3. /\ VisitInv' /\ OthersKeep(r) /\ rat'[r] = "done"
    BY <1>1, <1>2, MovesKeep, Zenon
  <2> QED BY <2>2, <2>3
<1>4. ASSUME NEW k \in Nat, ReadersInv(k), ComparatorInv PROVE ReadersInv(k)' /\ ComparatorInv'
  <2>1. InRound(r, k)
    BY <1>4, Zenon DEF ReadersInv
  <2>2. ~Published(r) /\ ~Published(r)' /\ rat[r] \in {"published"} \cup Finishing
        /\ rat[r] \in Finishing /\ rat'[r] \in {"done", "ends"}
    BY <1>1, <1>3 DEF Published, Finishing
  <2>3. visit' = visit /\ left' = left /\ entry' = entry /\ terminate' = terminate
        /\ readerSemaphore' = readerSemaphore
    BY <1>1
  <2>4. InRound(r, k)'
    BY <1>3, <2>1, <2>2, <2>3, Zenon DEF InRound
  <2>5. ReadersInv(k)'
    BY <1>1, <1>3, <1>4, <2>4, RoundIs, Zenon
  <2>6. r \notin Heard /\ r \notin Heard'
    BY <1>1, <1>3 DEF Heard
  <2>7. Heard' = Heard
    BY <1>3, <2>6 DEF Heard, OthersKeep
  <2> QED BY <1>1, <1>4, <2>5, <2>6, <2>7, ComparatorWaits
<1> QED BY <1>3, <1>4

\* The first of the last a of b places.
LEMMA FirstOfRest ==
  ASSUME NEW a \in Nat, NEW b \in Nat, a > 0, a <= b
  PROVE  1 \in 1..a /\ b - a + 1 \in 1..b
OBVIOUS

\* A reader can read every directory, if none of them fails.
LEMMA FailIsAbsent ==
  ASSUME VisitInv, NEW r \in C!Reader, C!Fail(r)
  PROVE  VisitInv' /\ ~C!NobodyFails /\ UNCHANGED visit
<1>1. /\ left[r] # <<>> /\ Head(left[r]) = Failure
      /\ rat' = [rat EXCEPT ![r] = "leaves"]
      /\ UNCHANGED <<visit, left, entry, readerDone, terminate, readerSemaphore>>
  BY Zenon DEF C!Fail, C!Failing, C!Goto, C!params, C!sems
<1>2. "leaves" \in ReaderPlaces
  BY DEF ReaderPlaces, Finishing
<1>3. VisitInv'
  BY <1>1, <1>2, MovesKeep
<1>4. left[r] \in Seq(Found) /\ visit[r] \in Seq(Found) /\ Len(left[r]) <= Len(visit[r])
      /\ \A j \in 1..Len(left[r]) : left[r][j] = visit[r][Len(visit[r]) - Len(left[r]) + j]
  BY Zenon DEF VisitInv
<1>5. Head(left[r]) = left[r][1] /\ Len(left[r]) \in Nat /\ Len(left[r]) > 0 /\ Len(visit[r]) \in Nat
  BY <1>1, <1>4, HeadTailProperties, LenProperties
<1>6. 1 \in 1..Len(left[r]) /\ Len(visit[r]) - Len(left[r]) + 1 \in 1..Len(visit[r])
  <2>1. Len(left[r]) <= Len(visit[r])
    BY <1>4
  <2> QED BY <1>5, <2>1, FirstOfRest
<1>7. visit[r][Len(visit[r]) - Len(left[r]) + 1] = Failure
  BY <1>1, <1>4, <1>5, <1>6, Zenon
<1> QED BY <1>1, <1>3, <1>6, <1>7, Zenon DEF C!NobodyFails

\* The comparator is told of one more reader, and looks when it was the last.
LEMMA CountKeeps ==
  ASSUME VisitInv, C!Count
  PROVE  /\ VisitInv'
         /\ \A k \in Nat : ReadersInv(k) /\ ComparatorInv => ReadersInv(k)' /\ ComparatorInv'
<1>1. /\ comparatorAt = "waits" /\ comparatorSemaphore > 0
      /\ comparatorSemaphore' = comparatorSemaphore - 1
      /\ IF loop < nReaders THEN loop' = loop + 1 /\ comparatorAt' = comparatorAt
                            ELSE loop' = 1 /\ comparatorAt' = "looks"
      /\ strToCompare' = 0
  BY DEF C!Count, C!NoReader
<1>2. /\ ~someContinue' /\ ~someFinished' /\ (different' <=> different)
      /\ someContinue' \in BOOLEAN /\ someFinished' \in BOOLEAN /\ different' = different
      /\ visit' = visit /\ left' = left /\ entry' = entry /\ terminate' = terminate
      /\ readerDone' = readerDone /\ readerSemaphore' = readerSemaphore /\ rat' = rat
  BY Zenon DEF C!Count, C!params, C!reader
<1>3. VisitInv'
  BY <1>2, Zenon DEF VisitInv
<1>4. ASSUME NEW k \in Nat, ReadersInv(k) PROVE ReadersInv(k)'
  BY <1>2, <1>4, ZenonT(120) DEF ReadersInv, InRound, Alike, Published
<1>5. Heard' = Heard /\ Heard \subseteq C!Reader
  BY <1>2, Zenon DEF Heard
<1>6. IsFiniteSet(Heard) /\ Cardinality(Heard) \in Nat /\ Cardinality(Heard) <= nReaders
  BY <1>5, SomeReaders
<1>7. ASSUME ComparatorInv PROVE ComparatorInv'
  <2>1. /\ ~different /\ comparatorSemaphore \in Nat /\ loop \in 1..nReaders
        /\ comparatorSemaphore + (loop - 1) = Cardinality(Heard)
    BY <1>1, <1>7, Zenon DEF ComparatorInv
  <2>2. different' \in BOOLEAN /\ ~different'
    BY <1>2, <1>7, <2>1, Zenon DEF ComparatorInv
  <2>3. CASE loop < nReaders
    <3>1. /\ comparatorAt' = "waits" /\ comparatorSemaphore' \in Nat /\ loop' \in 1..nReaders
          /\ comparatorSemaphore' + (loop' - 1) = Cardinality(Heard')
      BY <1>1, <1>5, <1>6, <2>1, <2>3, ReadersAre
    <3> QED BY <1>2, <2>2, <3>1, Zenon DEF ComparatorInv
  <2>4. CASE ~(loop < nReaders)
    <3>1. /\ comparatorAt' = "looks" /\ comparatorSemaphore' = 0 /\ loop' = 1
          /\ loop' \in 1..nReaders /\ comparatorSemaphore' \in Nat
          /\ Cardinality(Heard) = nReaders
      BY <1>1, <1>6, <2>1, <2>4, ReadersAre
    <3>2. Heard' = C!Reader
      BY <1>5, <3>1, SomeReaders
    <3>3. SeenInv(loop - 1)'
      <4>1. loop' - 1 = 0 /\ 1..0 = {}
        BY <3>1
      <4>2. ~\E r \in 1..0 : readerDone'[r] \/ ~readerDone'[r]
        BY <4>1, Zenon
      <4> QED BY <1>1, <1>2, <4>1, <4>2, Zenon DEF SeenInv
    <3> QED BY <1>2, <2>2, <3>1, <3>2, <3>3, Zenon DEF ComparatorInv
  <2> QED BY <2>3, <2>4
<1> QED BY <1>3, <1>4, <1>7

\* The comparator looks at one more reader.
LEMMA LookKeeps ==
  ASSUME VisitInv, C!Look
  PROVE  /\ VisitInv'
         /\ \A k \in Nat : ReadersInv(k) /\ ComparatorInv => ReadersInv(k)' /\ ComparatorInv'
<1>1. /\ comparatorAt = "looks" /\ comparatorSemaphore' = comparatorSemaphore
      /\ visit' = visit /\ left' = left /\ entry' = entry /\ terminate' = terminate
      /\ readerDone' = readerDone /\ readerSemaphore' = readerSemaphore /\ rat' = rat
  BY Zenon DEF C!Look, C!params, C!sems, C!reader
<1>2. IF loop = nReaders \/ different' THEN comparatorAt' = "decides" /\ loop' = 1
                                       ELSE loop' = loop + 1 /\ comparatorAt' = comparatorAt
  BY Zenon DEF C!Look
<1>3. VisitInv'
  BY <1>1, Zenon DEF VisitInv
<1>4. ASSUME NEW k \in Nat, ReadersInv(k) PROVE ReadersInv(k)'
  BY <1>1, <1>4, ZenonT(120) DEF ReadersInv, InRound, Alike, Published
<1>5. Heard' = Heard
  BY <1>1, Zenon DEF Heard
<1>6. ASSUME ComparatorInv PROVE ComparatorInv'
  <2>1. /\ ~different /\ comparatorSemaphore = 0 /\ comparatorSemaphore \in Nat
        /\ loop \in 1..nReaders
        /\ Heard = C!Reader /\ SeenInv(loop - 1) /\ someFinished \in BOOLEAN
        /\ someContinue \in BOOLEAN /\ different \in BOOLEAN
    BY <1>1, <1>6, Zenon DEF ComparatorInv
  <2>2. /\ 1..loop = (1..loop - 1) \cup {loop} /\ loop \notin 1..loop - 1
        /\ 1..loop \subseteq C!Reader /\ loop # 0 /\ 0 \notin 1..loop - 1 /\ loop \in 1..loop
        /\ 1..loop - 1 \subseteq 1..loop
    BY <2>1, ReadersAre
  <2>3. someFinished' \in BOOLEAN /\ someContinue' \in BOOLEAN /\ different' \in BOOLEAN
    BY <2>1, Zenon DEF C!Look
  <2>4. IF different' THEN Differs'
        ELSE /\ someFinished' <=> \E r \in 1..loop : readerDone[r]
             /\ someContinue' <=> \E r \in 1..loop : ~readerDone[r]
             /\ IF someContinue'
                THEN /\ strToCompare' \in 1..loop /\ ~readerDone[strToCompare']
                     /\ \A r \in 1..loop : ~readerDone[r] => entry[r] = entry[strToCompare']
                ELSE strToCompare' = 0
    <3>1. CASE readerDone[loop]
      <4>1. someFinished' /\ (someContinue' <=> someContinue) /\ strToCompare' = strToCompare
            /\ ~different'
        BY <2>1, <3>1, Zenon DEF C!Look
      <4> QED BY <2>1, <2>2, <3>1, <4>1, Zenon DEF SeenInv
    <3>2. CASE ~readerDone[loop]
      <4>1. someContinue' /\ (someFinished' <=> someFinished)
        BY <3>2, Zenon DEF C!Look
      <4>2. CASE strToCompare = 0
        <5>1. strToCompare' = loop /\ ~different'
          BY <2>1, <3>2, <4>2, Zenon DEF C!Look, C!NoReader
        <5>2. ~someContinue
          BY <2>1, <2>2, <4>2, Zenon DEF SeenInv
        <5> QED BY <2>1, <2>2, <3>2, <4>1, <5>1, <5>2, Zenon DEF SeenInv
      <4>3. CASE strToCompare # 0
        <5>1. strToCompare' = strToCompare /\ (different' <=> entry[strToCompare] # entry[loop])
          BY <3>2, <4>3, Zenon DEF C!Look, C!NoReader
        <5>2. someContinue /\ strToCompare \in 1..loop - 1 /\ ~readerDone[strToCompare]
          BY <2>1, <4>3, Zenon DEF SeenInv
        <5>3. CASE different'
          BY <1>1, <2>2, <3>2, <5>1, <5>2, <5>3, Zenon DEF Differs
        <5>4. CASE ~different'
          BY <2>1, <2>2, <3>2, <4>1, <5>1, <5>2, <5>4, Zenon DEF SeenInv
        <5> QED BY <5>3, <5>4
      <4> QED BY <4>2, <4>3
    <3> QED BY <3>1, <3>2
  <2>5. CASE loop = nReaders \/ different'
    <3>1. comparatorAt' = "decides" /\ loop' = 1 /\ loop' \in 1..nReaders
      BY <1>2, <2>5, ReadersAre
    <3>2. ~different' => SeenInv(nReaders)'
      BY <1>1, <2>4, <2>5, Zenon DEF SeenInv
    <3> QED BY <1>1, <1>5, <2>1, <2>3, <2>4, <3>1, <3>2, Zenon DEF ComparatorInv
  <2>6. CASE ~(loop = nReaders \/ different')
    <3>1. comparatorAt' = "looks" /\ loop' = loop + 1 /\ loop' \in 1..nReaders /\ loop' - 1 = loop
      BY <1>1, <1>2, <2>1, <2>6, ReadersAre
    <3>2. SeenInv(loop - 1)'
      BY <1>1, <2>4, <2>6, <3>1, Zenon DEF SeenInv
    <3> QED BY <1>1, <1>5, <2>1, <2>3, <2>6, <3>1, <3>2, Zenon DEF ComparatorInv
  <2> QED BY <2>5, <2>6
<1> QED BY <1>3, <1>4, <1>6

\* Readers that have all told the comparator have published or have finished.
LEMMA AllHeard ==
  ASSUME NEW k \in Nat, ReadersInv(k), Heard = C!Reader, NEW r \in C!Reader
  PROVE  /\ readerDone[r] => Len(visit[r]) - Len(left[r]) = k /\ Len(left[r]) = 0
         /\ ~readerDone[r] => /\ Published(r) /\ Len(visit[r]) - Len(left[r]) = k + 1
                              /\ rat[r] \in {"released", "visits"}
<1>1. InRound(r, k) /\ r \in Heard
  BY Zenon DEF ReadersInv
<1>2. CASE readerDone[r]
  <2>1. rat[r] \in Finishing /\ ~Published(r)
    BY <1>1, <1>2 DEF InRound, Finishing, Published
  <2> QED BY <1>1, <1>2, <2>1, Zenon DEF InRound
<1>3. CASE ~readerDone[r]
  <2>1. rat[r] # "ends"
    BY <1>1, <1>3 DEF InRound
  <2>2. readerSemaphore[r] = 0 /\ rat[r] \in {"released", "visits"}
    BY <1>1, <2>1, Zenon DEF Heard
  <2>3. Published(r)
    BY <2>2 DEF Published
  <2> QED BY <1>1, <1>3, <2>2, <2>3, Zenon DEF InRound
<1> QED BY <1>2, <1>3

\* Of two visits with k entries in common one is over and the other is not.
LEMMA LongerVisit ==
  ASSUME NEW a \in Nat, NEW b \in Nat, NEW c, NEW d \in Nat, NEW k \in Nat,
         a - c = k, c = 0, b - d = k + 1
  PROVE  a # b
OBVIOUS

\* The comparator decides: it lets the readers go on, or it has the answer.
LEMMA DecideKeeps ==
  ASSUME VisitInv, C!Decide
  PROVE  /\ VisitInv'
         /\ \A k \in Nat : ReadersInv(k) /\ ComparatorInv =>
              \/ comparatorAt' = "ends" /\ RightAnswer'
              \/ comparatorAt' # "ends" /\ ReadersInv(k + 1)' /\ ComparatorInv'
<1>1. /\ comparatorAt = "decides"
      /\ different' = (different \/ (someFinished /\ someContinue))
      /\ terminate' = [r \in C!Reader |-> terminate[r] \/ different']
      /\ comparatorAt' = IF different' \/ ~someContinue THEN "ends" ELSE "waits"
      /\ visit' = visit /\ left' = left /\ entry' = entry
      /\ readerDone' = readerDone /\ rat' = rat
      /\ comparatorSemaphore' = comparatorSemaphore /\ loop' = loop
      /\ someContinue' = someContinue /\ someFinished' = someFinished
  BY Zenon DEF C!Decide, C!reader
<1>2. readerSemaphore' = [r \in C!Reader |-> 1]
  BY Zenon DEF C!Decide
<1>3. readerSemaphore' \in [C!Reader -> 0..1] /\ \A r \in C!Reader : readerSemaphore'[r] # 0
  BY <1>2
<1>4. terminate' \in [C!Reader -> BOOLEAN]
      /\ \A r \in C!Reader : terminate'[r] <=> terminate[r] \/ different'
  BY <1>1, Zenon
<1>5. VisitInv'
  <2>1. /\ visit \in [C!Reader -> Seq(Found)] /\ left \in [C!Reader -> Seq(Found)]
        /\ readerDone \in [C!Reader -> BOOLEAN] /\ rat \in [C!Reader -> ReaderPlaces]
        /\ DOMAIN entry = C!Reader /\ entry = [p \in C!Reader |-> entry[p]]
        /\ \A p \in C!Reader :
             /\ Len(left[p]) <= Len(visit[p])
             /\ \A j \in 1..Len(left[p]) : left[p][j] = visit[p][Len(visit[p]) - Len(left[p]) + j]
    BY Zenon DEF VisitInv
  <2>2. /\ visit' \in [C!Reader -> Seq(Found)] /\ left' \in [C!Reader -> Seq(Found)]
        /\ readerDone' \in [C!Reader -> BOOLEAN] /\ rat' \in [C!Reader -> ReaderPlaces]
        /\ DOMAIN entry' = C!Reader /\ entry' = [p \in C!Reader |-> entry'[p]]
    BY <1>1, <2>1, Zenon
  <2>3. \A p \in C!Reader :
          /\ Len(left'[p]) <= Len(visit'[p])
          /\ \A j \in 1..Len(left'[p]) :
               left'[p][j] = visit'[p][Len(visit'[p]) - Len(left'[p]) + j]
    BY <1>1, <2>1
  <2> QED BY <1>3, <1>4, <2>2, <2>3, Zenon DEF VisitInv
<1>6. ASSUME NEW k \in Nat, ReadersInv(k), ComparatorInv
      PROVE  \/ comparatorAt' = "ends" /\ RightAnswer'
             \/ comparatorAt' # "ends" /\ ReadersInv(k + 1)' /\ ComparatorInv'
  <2>1. /\ comparatorSemaphore = 0 /\ loop = 1 /\ Heard = C!Reader
        /\ IF different THEN Differs ELSE SeenInv(nReaders)
        /\ someFinished \in BOOLEAN /\ someContinue \in BOOLEAN /\ different \in BOOLEAN
    BY <1>1, <1>6, Zenon DEF ComparatorInv
  <2>2. C!Reader = 1..nReaders
    BY ReadersAre
  <2>3. \A r \in C!Reader : InRound(r, k)
    BY <1>6, Zenon DEF ReadersInv
  <2>4. ASSUME NEW r \in C!Reader
        PROVE  /\ visit[r] \in Seq(Found) /\ Len(visit[r]) \in Nat /\ Len(left[r]) \in Nat
    <3>1. visit[r] \in Seq(Found) /\ left[r] \in Seq(Found)
      BY Zenon DEF VisitInv
    <3> QED BY <3>1, LenProperties
  <2>5. CASE different
    <3>1. PICK r \in C!Reader, s \in C!Reader :
            ~readerDone[r] /\ ~readerDone[s] /\ entry[r] # entry[s]
      BY <2>1, <2>5, Zenon DEF Differs
    <3>2. Published(r) /\ Published(s)
      BY <1>6, <2>1, <3>1, AllHeard, Zenon
    <3>3. visit[r][k + 1] # visit[s][k + 1]
      BY <2>3, <3>1, <3>2, Zenon DEF InRound
    <3>4. different' /\ comparatorAt' = "ends"
      BY <1>1, <2>5, Zenon
    <3> QED BY <1>1, <3>3, <3>4, Zenon DEF RightAnswer
  <2>6. CASE ~different /\ someFinished /\ someContinue
    <3>1. PICK r \in C!Reader : readerDone[r]
      BY <2>1, <2>2, <2>6, Zenon DEF SeenInv
    <3>2. PICK s \in C!Reader : ~readerDone[s]
      BY <2>1, <2>2, <2>6, Zenon DEF SeenInv
    <3>3. Len(visit[r]) - Len(left[r]) = k /\ Len(left[r]) = 0
          /\ Len(visit[s]) - Len(left[s]) = k + 1
      BY <1>6, <2>1, <3>1, <3>2, AllHeard, Zenon
    <3>4. Len(visit[r]) # Len(visit[s])
      <4>1. Len(visit[r]) \in Nat /\ Len(visit[s]) \in Nat /\ Len(left[s]) \in Nat
        BY <2>4
      <4> QED BY <3>3, <4>1, LongerVisit
    <3>5. different' /\ comparatorAt' = "ends"
      BY <1>1, <2>6, Zenon
    <3> QED BY <1>1, <3>4, <3>5, Zenon DEF RightAnswer
  <2>7. CASE ~different /\ ~someContinue
    <3>1. \A r \in C!Reader : readerDone[r]
      BY <2>1, <2>2, <2>7, Zenon DEF SeenInv
    <3>2. ASSUME NEW r \in C!Reader PROVE Len(visit[r]) = k
      <4>1. Len(visit[r]) - Len(left[r]) = k /\ Len(left[r]) = 0
        BY <1>6, <2>1, <3>1, AllHeard, Zenon
      <4>2. Len(visit[r]) \in Nat
        BY <2>4
      <4> QED BY <4>1, <4>2
    <3>3. ASSUME NEW r \in C!Reader, NEW s \in C!Reader PROVE visit[r] = visit[s]
      <4>1. \A j \in 1..Len(visit[r]) : visit[r][j] = visit[s][j]
        BY <1>6, <3>2, Zenon DEF ReadersInv, Alike
      <4> QED BY <2>4, <3>2, <4>1, SeqEqual, Zenon
    <3>4. ~different' /\ comparatorAt' = "ends"
      BY <1>1, <2>7, Zenon
    <3> QED BY <1>1, <3>3, <3>4, Zenon DEF RightAnswer
  <2>8. CASE ~different /\ ~someFinished /\ someContinue
    <3>1. ~different' /\ comparatorAt' = "waits" /\ different' \in BOOLEAN
      BY <1>1, <2>1, <2>8, Zenon
    <3>2. ASSUME NEW r \in C!Reader
          PROVE  /\ ~readerDone[r] /\ Published(r) /\ Len(visit[r]) - Len(left[r]) = k + 1
                 /\ rat[r] \in {"released", "visits"} /\ entry[r] = visit[r][k + 1]
                 /\ entry[r] = entry[strToCompare]
      <4>1. ~readerDone[r] /\ entry[r] = entry[strToCompare]
        BY <2>1, <2>2, <2>8, Zenon DEF SeenInv
      <4>2. /\ Published(r) /\ Len(visit[r]) - Len(left[r]) = k + 1
            /\ rat[r] \in {"released", "visits"}
        BY <1>6, <2>1, <4>1, AllHeard, Zenon
      <4>3. entry[r] = visit[r][k + 1]
        BY <2>3, <4>2, Zenon DEF InRound
      <4> QED BY <4>1, <4>2, <4>3
    <3>3. ASSUME NEW r \in C!Reader PROVE InRound(r, k + 1)'
      <4>1. ~Published(r)' /\ ~terminate'[r]
        BY <1>3, <1>4, <2>3, <3>1, Zenon DEF Published, InRound
      <4>2. /\ rat'[r] \notin {"published"} \cup Finishing /\ rat'[r] \notin Finishing
            /\ rat'[r] \notin {"done", "ends"}
        BY <1>1, <3>2 DEF Finishing
      <4>3. Len(visit'[r]) - Len(left'[r]) = k + 1 /\ ~readerDone'[r]
        BY <1>1, <3>2, Zenon
      <4> QED BY <4>1, <4>2, <4>3, Zenon DEF InRound
    <3>4. Alike(k + 1)'
      <4>1. ASSUME NEW r \in C!Reader, NEW s \in C!Reader, NEW j \in 1..k + 1
            PROVE  visit[r][j] = visit[s][j]
        <5>1. j \in 1..k \/ j = k + 1
          OBVIOUS
        <5>2. CASE j \in 1..k
          BY <1>6, <5>2, Zenon DEF ReadersInv, Alike
        <5>3. CASE j = k + 1
          BY <3>2, <5>3, Zenon
        <5> QED BY <5>1, <5>2, <5>3
      <4> QED BY <1>1, <4>1, Zenon DEF Alike
    <3>5. Cardinality(Heard') = 0
      <4>1. \A r \in C!Reader : rat'[r] # "ends"
        BY <1>1, <3>2
      <4>2. Heard' = {}
        BY <1>3, <4>1, Zenon DEF Heard
      <4> QED BY <4>2, FS_EmptySet
    <3>6. comparatorSemaphore' \in Nat /\ loop' \in 1..nReaders
          /\ comparatorSemaphore' + (loop' - 1) = Cardinality(Heard')
      BY <1>1, <2>1, <3>5, ReadersAre
    <3>7. ComparatorInv'
      BY <1>1, <2>1, <3>1, <3>6, Zenon DEF ComparatorInv
    <3>8. comparatorAt' # "ends"
      BY <3>1
    <3> QED BY <3>3, <3>4, <3>7, <3>8, Zenon DEF ReadersInv
  <2> QED BY <2>1, <2>5, <2>6, <2>7, <2>8, Zenon
<1> QED BY <1>5, <1>6

\* Each step of the program keeps what is known of the round.
LEMMA CompareNext == CompareInv /\ [C!Next]_(C!vars) => CompareInv'
<1> SUFFICES ASSUME CompareInv, [C!Next]_(C!vars) PROVE CompareInv'
  OBVIOUS
<1>1. VisitInv
  BY DEF CompareInv
<1>2. ASSUME NEW r \in C!Reader, C!ReaderStep(r) PROVE CompareInv'
  <2>1. CASE C!Fail(r)
    <3>1. ~C!NobodyFails'
      BY <1>1, <2>1, FailIsAbsent, Zenon DEF C!NobodyFails
    <3> QED BY <1>1, <2>1, <3>1, FailIsAbsent, Zenon DEF CompareInv
  <2>2. CASE ~C!Fail(r)
    <3>1. /\ VisitInv'
          /\ \A k \in Nat : ReadersInv(k) /\ ComparatorInv => ReadersInv(k)' /\ ComparatorInv'
      BY <1>1, <1>2, <2>2, PublishKeeps, ReleaseKeeps, ToldKeeps, EndVisitKeeps, DoneKeeps, Zenon
      DEF C!ReaderStep
    <3>2. visit' = visit /\ comparatorAt' = comparatorAt /\ (different' <=> different)
      <4>1. C!Publish(r) => UNCHANGED <<visit, comparatorAt, different>>
        BY Zenon DEF C!Publish, C!comparator
      <4>2. C!Release(r) => UNCHANGED <<visit, comparatorAt, different>>
        BY Zenon DEF C!Release, C!comparator
      <4>3. C!Told(r) => UNCHANGED <<visit, comparatorAt, different>>
        BY Zenon DEF C!Told, C!comparator
      <4>4. C!EndVisit(r) => UNCHANGED <<visit, comparatorAt, different>>
        BY Zenon DEF C!EndVisit, C!comparator
      <4>5. C!Done(r) => UNCHANGED <<visit, comparatorAt, different>>
        BY Zenon DEF C!Done, C!comparator
      <4>6. UNCHANGED <<visit, comparatorAt, different>>
        BY <1>2, <2>2, <4>1, <4>2, <4>3, <4>4, <4>5, Zenon DEF C!ReaderStep
      <4> QED BY <4>6, Zenon
    <3>3. C!NobodyFails' <=> C!NobodyFails
      BY <3>2, Zenon DEF C!NobodyFails
    <3>4. RightAnswer => RightAnswer'
      BY <3>2, Zenon DEF RightAnswer
    <3> QED BY <3>1, <3>2, <3>3, <3>4, Zenon DEF CompareInv
  <2> QED BY <2>1, <2>2
<1>3. ASSUME C!ComparatorStep PROVE CompareInv'
  <2>1. visit' = visit /\ comparatorAt # "ends"
    <3>1. visit' = visit /\ comparatorAt \in {"waits", "looks", "decides"}
      BY <1>3, Zenon DEF C!ComparatorStep, C!Count, C!Look, C!Decide
    <3> QED BY <3>1
  <2>2. C!NobodyFails' <=> C!NobodyFails
    BY <2>1, Zenon DEF C!NobodyFails
  <2>3. ASSUME NEW k \in Nat PROVE k + 1 \in Nat
    OBVIOUS
  <2>4. CASE C!Count
    <3>1. comparatorAt' # "ends"
      BY <2>1, <2>4 DEF C!Count
    <3> QED BY <1>1, <2>1, <2>2, <2>4, <3>1, CountKeeps, Zenon DEF CompareInv
  <2>5. CASE C!Look
    <3>1. comparatorAt' # "ends"
      <4>1. comparatorAt' = "decides" \/ comparatorAt' = comparatorAt
        BY <2>5, Zenon DEF C!Look
      <4> QED BY <2>1, <4>1
    <3> QED BY <1>1, <2>1, <2>2, <2>5, <3>1, LookKeeps, Zenon DEF CompareInv
  <2>6. CASE C!Decide
    BY <1>1, <2>1, <2>2, <2>3, <2>6, DecideKeeps, Zenon DEF CompareInv
  <2> QED BY <1>3, <2>4, <2>5, <2>6, Zenon DEF C!ComparatorStep
<1>4. ASSUME UNCHANGED C!vars PROVE CompareInv'
  <2>1. /\ visit' = visit /\ left' = left /\ entry' = entry /\ terminate' = terminate
        /\ readerDone' = readerDone /\ readerSemaphore' = readerSemaphore /\ rat' = rat
        /\ comparatorAt' = comparatorAt /\ comparatorSemaphore' = comparatorSemaphore
        /\ loop' = loop /\ strToCompare' = strToCompare /\ someContinue' = someContinue
        /\ someFinished' = someFinished /\ different' = different
    BY <1>4, Zenon DEF C!vars, C!params, C!sems, C!reader, C!comparator
  <2>2. VisitInv' /\ (C!NobodyFails' <=> C!NobodyFails) /\ (RightAnswer' <=> RightAnswer)
    BY <1>1, <2>1, SMTT(60) DEF VisitInv, C!NobodyFails, RightAnswer
  <2>3. ASSUME NEW k \in Nat, ReadersInv(k) PROVE ReadersInv(k)'
    BY <2>1, <2>3, ZenonT(120) DEF ReadersInv, InRound, Alike, Published
  <2>4. ComparatorInv => ComparatorInv'
    BY <2>1, Zenon DEF ComparatorInv, SeenInv, Differs, Heard
  <2> QED BY <2>1, <2>2, <2>3, <2>4, Zenon DEF CompareInv
<1> QED BY <1>2, <1>3, <1>4, Zenon DEF C!Next

\* When the comparator looks, all readers are blocked or have finished.
LEMMA CompareSays == CompareInv => C!AnswerIsRight
<1> SUFFICES ASSUME CompareInv, C!NobodyFails
             PROVE  /\ C!AllBlocked
                    /\ comparatorAt = "ends" =>
                         (different <=> \E r, s \in C!Reader : visit[r] # visit[s])
  BY DEF C!AnswerIsRight
<1>1. CASE comparatorAt = "ends"
  <2>1. comparatorAt \notin {"looks", "decides"}
    BY <1>1
  <2>2. RightAnswer
    BY <1>1, Zenon DEF CompareInv
  <2> QED BY <2>1, <2>2, Zenon DEF C!AllBlocked, RightAnswer
<1>2. CASE comparatorAt # "ends"
  <2>1. ASSUME comparatorAt \in {"looks", "decides"}, NEW r \in C!Reader
        PROVE  \/ readerDone[r]
               \/ rat[r] \in {"released", "visits"} /\ readerSemaphore[r] = 0
    <3>1. comparatorAt # "waits" /\ ComparatorInv
      BY <1>2, <2>1, Zenon DEF CompareInv
    <3>2. Heard = C!Reader
      BY <3>1, Zenon DEF ComparatorInv
    <3>3. PICK k \in Nat : ReadersInv(k)
      BY <1>2, Zenon DEF CompareInv
    <3> QED BY <3>2, <3>3, AllHeard, Zenon DEF Published
  <2> QED BY <1>2, <2>1, Zenon DEF C!AllBlocked
<1> QED BY <1>1, <1>2

\* In every execution in which every directory can be read, the comparator
\* looks when the readers are blocked, and its answer is right.
THEOREM ComparatorIsRight == C!Spec => []C!AnswerIsRight
BY CompareStart, CompareNext, CompareSays, PTL DEF C!Spec

\* An execution of the labs is, of lab10es03, an execution of its module.
LEMMA LabHasComparator == LabSpec => C!Spec
<1>1. LabInit => C!Init
  BY DEF LabInit
<1>2. [LabNext]_labVars => [C!Next]_(C!vars)
  <2>1. ASSUME LabNext PROVE [C!Next]_(C!vars)
    <3>1. CASE lab = "comparator"
      BY <2>1, <3>1, SMTT(10) DEF LabNext
    <3>2. CASE lab # "comparator"
      BY <2>1, <3>2, SMTT(10)
      DEF LabNext, comparator, C!vars, C!params, C!sems, C!reader, C!comparator
    <3> QED BY <3>1, <3>2
  <2>2. ASSUME UNCHANGED labVars PROVE UNCHANGED C!vars
    BY <2>2, SMTT(10)
    DEF labVars, comparator, C!vars, C!params, C!sems, C!reader, C!comparator
  <2> QED BY <2>1, <2>2
<1> QED BY <1>1, <1>2, PTL DEF LabSpec, C!Spec

\* So it is in every execution of the labs.
THEOREM LabAnswerIsRight == LabSpec => []AnswerIsRight
BY LabHasComparator, ComparatorIsRight, PTL DEF AnswerIsRight

=============================================================================
