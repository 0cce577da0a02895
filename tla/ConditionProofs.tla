-------------------------- MODULE ConditionProofs --------------------------
(***************************************************************************)
(* Proofs about one kernel condition variable (module Condition), for any  *)
(* finite set of processes.  The invariant that carries them is IInv: the  *)
(* count of waiters bounds the tokens (TokenInv), a channel only holds     *)
(* processes that are inside its loop (ChannelInv), nobody sleeps on a     *)
(* channel whose loop test would let it through (NoLostWakeup), a free     *)
(* slot is empty (RefInv), and the mutex has one owner (MutexInv).  In its *)
(* second part a theorem about a test program (module LabTests): the       *)
(* processes of semaphore_test3 take turns, for any number of turns.       *)
(***************************************************************************)
EXTENDS Condition, LabTests, FiniteSetTheorems, TLAPS

IInv == /\ TypeOK /\ TokenInv /\ ChannelInv
        /\ NoLostWakeup /\ RefInv /\ MutexInv

\* Waiting is finite, so its cardinality can be counted with.
LEMMA WaitingFinite ==
  /\ IsFiniteSet(Waiting)
  /\ Cardinality(Waiting) \in Nat
  /\ Waiting = {} <=> Cardinality(Waiting) = 0
<1>1. Waiting \subseteq Proc
  BY DEF Waiting
<1>2. IsFiniteSet(Waiting)
  BY <1>1, CondAssumption, FS_Subset
<1>3. QED
  BY <1>2, FS_CardinalityType, FS_EmptySet

\* The counters: count follows the set of waiters and bounds the tokens.
LEMMA CountersStep ==
  ASSUME IInv, [Next]_vars
  PROVE  TokenInv' /\ count' \in Nat /\ tokens' \in Nat
<1> DEFINE Good == TokenInv' /\ count' \in Nat /\ tokens' \in Nat
<1> USE DEF IInv, TypeOK, PCs, TokenInv, Goto
<1>1. ASSUME NEW p \in Proc, WaitEnter(p), tokens = 0 PROVE Good
  <2>1. p \notin Waiting /\ Waiting' = Waiting \cup {p}
    BY <1>1 DEF WaitEnter, Call, Waiting
  <2>2. Cardinality(Waiting') = Cardinality(Waiting) + 1
    BY <2>1, WaitingFinite, FS_AddElement
  <2>3. count' = count + 1 /\ tokens' = tokens
    BY <1>1 DEF WaitEnter
  <2>4. QED
    BY <2>2, <2>3
<1>2. ASSUME NEW p \in Proc, WaitEnter(p), tokens # 0 PROVE Good
  <2>1. Waiting' = Waiting
    BY <1>2 DEF WaitEnter, Waiting
  <2>2. count' = count /\ tokens' = tokens - 1
    BY <1>2 DEF WaitEnter
  <2>3. QED
    BY <1>2, <2>1, <2>2
<1>3. ASSUME NEW p \in Proc, WaitTakes(p) PROVE Good
  <2>1. p \in Waiting /\ Waiting' = Waiting \ {p}
    BY <1>3 DEF WaitTakes, TakeMutex, Waiting
  <2>2. Cardinality(Waiting') = Cardinality(Waiting) - 1
    BY <2>1, WaitingFinite, FS_RemoveElement
  <2>3. count' = count - 1 /\ tokens' = tokens - 1 /\ tokens # 0
    BY <1>3 DEF WaitTakes
  <2>4. QED
    BY <2>2, <2>3, WaitingFinite
<1>4. ASSUME Alloc PROVE Good
  <2>1. Waiting = {} /\ Waiting' = Waiting
    BY <1>4 DEF Alloc, RefInv, Inside, Waiting
  <2>2. QED
    BY <1>4, <2>1, WaitingFinite DEF Alloc
<1>5. ASSUME NEW p \in Proc, Wake(p) PROVE Good
  <2>1. Waiting' = Waiting
    BY <1>5 DEF Wake, Signal, Broadcast, Waiting
  <2>2. CASE Signal(p)
    BY <2>1, <2>2 DEF Signal
  <2>3. CASE Broadcast(p)
    BY <2>1, <2>3 DEF Broadcast
  <2>4. QED
    BY <1>5, <2>2, <2>3 DEF Wake
<1>6. ASSUME NEW p \in Proc,
             \/ Mutex(p) \/ LockWakes(p) \/ WaitSleepsAgain(p) \/ WaitRelocks(p)
             \/ Kill(p) \/ \E v \in Values : Set(p, v)
      PROVE  Good
  <2>1. count' = count /\ tokens' = tokens
    BY <1>6 DEF Mutex, Lock, Unlock, LockWakes, WaitSleepsAgain, WaitRelocks, Kill, Set
  <2>2. Waiting' = Waiting
    BY <1>6 DEF Mutex, Lock, Unlock, LockWakes, WaitSleepsAgain, WaitRelocks, Kill, Set,
       TakeMutex, Call, Waiting
  <2>3. QED
    BY <2>1, <2>2
<1>7. CASE Destroy \/ UNCHANGED vars
  BY <1>7 DEF Destroy, vars, Waiting
<1>8. QED
  BY <1>1, <1>2, <1>3, <1>4, <1>5, <1>6, <1>7 DEF Next, Continue

\* Everything that needs no counting.
LEMMA ControlStep ==
  ASSUME IInv, [Next]_vars, count' \in Nat, tokens' \in Nat
  PROVE  TypeOK' /\ ChannelInv' /\ NoLostWakeup' /\ RefInv' /\ MutexInv'
<1> DEFINE Good == TypeOK' /\ ChannelInv' /\ NoLostWakeup' /\ RefInv' /\ MutexInv'
<1> USE CondAssumption
    DEF IInv, TypeOK, PCs, ChannelInv, NoLostWakeup, RefInv, MutexInv, Inside, Call, Goto
<1>1. CASE Alloc
  BY <1>1 DEF Alloc
<1>2. CASE Destroy
  BY <1>2 DEF Destroy
<1>3. ASSUME NEW p \in Proc, Lock(p) PROVE Good
  <2>1. CASE locked
    BY <1>3, <2>1 DEF Lock, TakeMutex
  <2>2. CASE ~locked
    BY <1>3, <2>2 DEF Lock, TakeMutex
  <2>3. QED
    BY <2>1, <2>2
<1>4. ASSUME NEW p \in Proc, Unlock(p) PROVE Good
  BY <1>4 DEF Unlock
<1>5. ASSUME NEW p \in Proc, WaitEnter(p) PROVE Good
  BY <1>5 DEF WaitEnter
<1>6. ASSUME NEW p \in Proc, Signal(p) PROVE Good
  <2>1. tokens' # tokens => onQ' = {}
    BY <1>6 DEF Signal
  <2>2. QED
    BY <1>6, <2>1 DEF Signal
<1>7. ASSUME NEW p \in Proc, Broadcast(p) PROVE Good
  BY <1>7 DEF Broadcast
<1>8. ASSUME NEW p \in Proc, LockWakes(p) \/ WaitRelocks(p) PROVE Good
  <2>1. CASE locked
    BY <1>8, <2>1 DEF LockWakes, WaitRelocks, TakeMutex
  <2>2. CASE ~locked
    BY <1>8, <2>2 DEF LockWakes, WaitRelocks, TakeMutex
  <2>3. QED
    BY <2>1, <2>2
<1>9. ASSUME NEW p \in Proc, WaitSleepsAgain(p) PROVE Good
  BY <1>9 DEF WaitSleepsAgain
<1>10. ASSUME NEW p \in Proc, WaitTakes(p) PROVE Good
  <2>1. onQ = {} /\ onQ' = {}
    BY <1>10 DEF WaitTakes
  <2>2. CASE locked
    BY <1>10, <2>1, <2>2 DEF WaitTakes, TakeMutex
  <2>3. CASE ~locked
    BY <1>10, <2>1, <2>3 DEF WaitTakes, TakeMutex
  <2>4. QED
    BY <2>2, <2>3
<1>11. ASSUME NEW p \in Proc, Kill(p) PROVE Good
  BY <1>11 DEF Kill
<1>12. ASSUME NEW p \in Proc, NEW v \in Values, Set(p, v) PROVE Good
  BY <1>12 DEF Set
<1>13. CASE UNCHANGED vars
  BY <1>13 DEF vars
<1>14. QED
  BY <1>1, <1>2, <1>3, <1>4, <1>5, <1>6, <1>7, <1>8, <1>9, <1>10, <1>11, <1>12, <1>13
     DEF Next, Mutex, Wake, Continue

LEMMA Invariant == Spec => []IInv
<1>1. Init => IInv
  <2>1. Init => Waiting = {}
    BY DEF Init, Waiting
  <2>2. Init => TokenInv
    BY <2>1, FS_EmptySet DEF Init, TokenInv
  <2>3. Init => TypeOK
    <3>1. Init => ref \in BOOLEAN /\ locked \in BOOLEAN /\ pc \in [Proc -> PCs]
      BY Zenon DEF Init, PCs
    <3>2. QED
      BY <3>1 DEF Init, TypeOK
  <2>4. Init => ChannelInv /\ NoLostWakeup /\ RefInv /\ MutexInv
    BY DEF Init, ChannelInv, NoLostWakeup, RefInv, Inside, MutexInv
  <2>5. QED
    BY <2>2, <2>3, <2>4 DEF IInv
<1>2. IInv /\ [Next]_vars => IInv'
  BY CountersStep, ControlStep DEF IInv
<1>3. QED
  BY <1>1, <1>2, PTL DEF Spec

\* The fields of struct condition keep their types; neither counter is ever
\* negative, although cond_wait decrements both (lab06/src/file.c).
THEOREM TypeCorrect == Spec => []TypeOK
BY Invariant, PTL DEF IInv

\* count is the number of waiters and there is never a token too many:
\* cond_signal's comparison and cond_broadcast's assignment keep it so even
\* when callers ignore the mutex.
THEOREM TokensCorrect == Spec => []TokenInv
BY Invariant, PTL DEF IInv

\* Nobody sleeps on &c->q while a token is available, or on &c->m while the
\* mutex is free: every change that opens a loop is followed by its wakeup.
THEOREM WakeupsAreNotLost == Spec => []NoLostWakeup
BY Invariant, PTL DEF IInv

\* cond_lock, cond_unlock and the two halves of cond_wait give mutual
\* exclusion to clients that only release what they own.
THEOREM MutualExclusion == Spec => []MutexInv
BY Invariant, PTL DEF IInv
-----------------------------------------------------------------------------
(* The test programs (module LabTests): semaphore_test3 of st.c, in which  *)
(* the parent and two children take turns.                                 *)

Waits == {"wait1", "wait2"}
Posts == {"post1", "post2"}
Ops   == {"fork", "join"} \cup Waits \cup Posts
Ins   == {I("wait1"), I("wait2"), I("post1"), I("post2"), Fork("child1"), Fork("child2"),
          Join("child1"), Join("child2")}

\* A program in which every sem_post comes after a sem_wait, but for the first
\* instruction of the parent.
InTurn(prog, first) ==
  \A k \in 1..Len(prog) :
    /\ prog[k][1] \in Ops
    /\ prog[k][1] \in Posts => (first /\ k = 1) \/ (k > 1 /\ prog[k - 1][1] \in Waits)

\* A loop of two instructions, unrolled.
LEMMA RepeatIs ==
  ASSUME NEW n \in Nat, NEW a \in Ins, NEW b \in Ins
  PROVE  /\ Repeat(n, <<a, b>>) \in Seq(Ins) /\ Len(Repeat(n, <<a, b>>)) = 2 * n
         /\ \A k \in 1..2 * n : Repeat(n, <<a, b>>)[k] = IF k % 2 = 1 THEN a ELSE b
<1>. DEFINE r == Repeat(n, <<a, b>>)
<1>1. Len(<<a, b>>) = 2 /\ 2 * n \in Nat /\ n * 2 = 2 * n
  OBVIOUS
<1>2. r = [i \in 1..2 * n |-> <<a, b>>[((i - 1) % 2) + 1]]
  BY <1>1 DEF Repeat
<1>3. \A k \in 1..2 * n : ((k - 1) % 2) + 1 = IF k % 2 = 1 THEN 1 ELSE 2
  OBVIOUS
<1>4. \A k \in 1..2 * n : r[k] = IF k % 2 = 1 THEN a ELSE b
  BY <1>2, <1>3
<1>5. r \in [1..2 * n -> Ins]
  BY <1>2, <1>4
<1>. HIDE DEF r
<1>6. r \in Seq(Ins) /\ Len(r) = 2 * n
  BY <1>1, <1>5
<1> QED BY <1>4, <1>6 DEF r

\* Two pieces of a program.
LEMMA Pieces ==
  ASSUME NEW s \in Seq(Ins), NEW t \in Seq(Ins)
  PROVE  /\ s \o t \in Seq(Ins) /\ Len(s \o t) = Len(s) + Len(t)
         /\ \A k \in 1..Len(s) : (s \o t)[k] = s[k]
         /\ \A k \in Len(s) + 1..Len(s) + Len(t) : (s \o t)[k] = t[k - Len(s)]
  OBVIOUS

\* The loop of a process waits and posts in turn.
LEMMA LoopInTurn ==
  ASSUME NEW n \in Nat, NEW a \in Ins, NEW b \in Ins, a[1] \in Waits, b[1] \in Posts
  PROVE  InTurn(Repeat(n, <<a, b>>), FALSE)
<1>. DEFINE r == Repeat(n, <<a, b>>)
<1>1. Len(r) = 2 * n /\ \A k \in 1..2 * n : r[k] = IF k % 2 = 1 THEN a ELSE b
  BY RepeatIs
<1>. HIDE DEF r
<1>2. ASSUME NEW k \in 1..Len(r)
      PROVE  r[k][1] \in Ops /\ (r[k][1] \in Posts => k > 1 /\ r[k - 1][1] \in Waits)
  <2>1. CASE k % 2 = 1
    BY <1>1, <2>1 DEF Waits, Posts, Ops
  <2>2. CASE k % 2 # 1
    <3>1. k > 1 /\ k - 1 \in 1..Len(r) /\ (k - 1) % 2 = 1
      BY <1>1, <2>2
    <3> QED BY <1>1, <2>2, <3>1 DEF Waits, Posts, Ops
  <2> QED BY <2>1, <2>2
<1> QED BY <1>2 DEF r, InTurn

\* Something may come before and after it.
LEMMA AroundInTurn ==
  ASSUME NEW s \in Seq(Ins), NEW t \in Seq(Ins), NEW first \in BOOLEAN,
         InTurn(s, first), InTurn(t, FALSE)
  PROVE  InTurn(s \o t, first)
<1>. DEFINE u == s \o t
<1>1. /\ u \in Seq(Ins) /\ Len(u) = Len(s) + Len(t)
      /\ \A k \in 1..Len(s) : u[k] = s[k]
      /\ \A k \in Len(s) + 1..Len(s) + Len(t) : u[k] = t[k - Len(s)]
  BY Pieces
<1>. HIDE DEF u
<1>2. Len(s) \in Nat /\ Len(t) \in Nat
  OBVIOUS
<1>3. ASSUME NEW k \in 1..Len(u)
      PROVE  /\ u[k][1] \in Ops
             /\ u[k][1] \in Posts => (first /\ k = 1) \/ (k > 1 /\ u[k - 1][1] \in Waits)
  <2>1. CASE k <= Len(s)
    <3>1. u[k] = s[k] /\ (k > 1 => u[k - 1] = s[k - 1])
      BY <1>1, <1>2, <2>1
    <3> QED BY <3>1, <2>1, <1>2 DEF InTurn
  <2>2. CASE k > Len(s)
    <3>. DEFINE j == k - Len(s)
    <3>1. j \in 1..Len(t) /\ u[k] = t[j]
      BY <1>1, <1>2, <2>2
    <3>2. ASSUME j > 1 PROVE k > 1 /\ u[k - 1] = t[j - 1]
      <4>1. k - 1 \in Len(s) + 1..Len(s) + Len(t) /\ (k - 1) - Len(s) = j - 1 /\ k > 1
        BY <1>1, <1>2, <2>2, <3>2
      <4> QED BY <1>1, <4>1
    <3>. HIDE DEF j
    <3> QED BY <3>1, <3>2 DEF InTurn
  <2> QED BY <2>1, <2>2, <1>2
<1> QED BY <1>3 DEF u, InTurn

\* The instructions have their operation first.
LEMMA Operations ==
  /\ \A op : I(op)[1] = op
  /\ \A c : Fork(c)[1] = "fork" /\ Join(c)[1] = "join"
  BY DEF I, Fork, Join

\* One instruction that is neither wait nor post.
LEMMA AloneInTurn ==
  ASSUME NEW a \in Ins, a[1] \in {"fork", "join"}
  PROVE  InTurn(<<a>>, FALSE) /\ <<a>> \in Seq(Ins)
  BY DEF InTurn, Ops, Posts, Waits

Test3 == semaphore_test3

\* The programs of semaphore_test3, for any number of turns.
LEMMA Test3InTurn ==
  ASSUME Turns \in Nat, NEW p \in Process
  PROVE  InTurn(Test3[p], p = "parent") /\ Test3[p] \in Seq(Ins)
<1>. DEFINE Good(q, first) == InTurn(q, first) /\ q \in Seq(Ins)
<1>1. Good(Repeat(2 * Turns, <<I("wait1"), I("post2")>>), FALSE)
  <2>1. I("wait1") \in Ins /\ I("post2") \in Ins /\ 2 * Turns \in Nat
    BY DEF Ins
  <2>2. I("wait1")[1] \in Waits /\ I("post2")[1] \in Posts
    BY Operations DEF Waits, Posts
  <2> QED BY <2>1, <2>2, LoopInTurn, RepeatIs
<1>2. Good(Repeat(Turns, Turn), FALSE)
  <2>1. I("wait2") \in Ins /\ I("post1") \in Ins
    BY DEF Ins
  <2>2. I("wait2")[1] \in Waits /\ I("post1")[1] \in Posts
    BY Operations DEF Waits, Posts
  <2> QED BY <2>1, <2>2, LoopInTurn, RepeatIs DEF Turn
<1>3. /\ Good(<<Fork("child2")>>, FALSE) /\ Good(<<Join("child2")>>, FALSE)
      /\ Good(<<Join("child1")>>, FALSE)
  <2>1. Fork("child2") \in Ins /\ Join("child2") \in Ins /\ Join("child1") \in Ins
    BY DEF Ins
  <2> QED BY <2>1, AloneInTurn, Operations
<1>4. Good(<<I("post2"), Fork("child1")>>, TRUE)
  <2>1. I("post2") \in Ins /\ Fork("child1") \in Ins
    BY DEF Ins
  <2>2. I("post2")[1] = "post2" /\ Fork("child1")[1] = "fork"
    BY Operations
  <2> QED BY <2>1, <2>2 DEF InTurn, Ops, Posts, Waits
<1>5. ASSUME NEW s, NEW t, NEW first \in BOOLEAN, Good(s, first), Good(t, FALSE)
      PROVE  Good(s \o t, first)
  BY <1>5, AroundInTurn, Pieces
<1>6. Good(<<>>, FALSE)
  BY DEF InTurn
<1>. DEFINE l1 == Repeat(2 * Turns, <<I("wait1"), I("post2")>>)
            l2 == Repeat(Turns, Turn)
            f1 == <<I("post2"), Fork("child1")>>
            f2 == <<Fork("child2")>>
            j1 == <<Join("child1")>>
            j2 == <<Join("child2")>>
<1>7. /\ Test3["parent"] = f1 \o l1 \o j1 /\ Test3["child1"] = f2 \o l2 \o j2
      /\ Test3["child2"] = l2 /\ Test3["child3"] = <<>>
  BY DEF Test3, semaphore_test3
<1>8. Good(l1, FALSE) /\ Good(l2, FALSE) /\ Good(f1, TRUE) /\ Good(f2, FALSE) /\ Good(j1, FALSE) /\ Good(j2, FALSE)
  BY <1>1, <1>2, <1>3, <1>4
<1>. HIDE DEF Good, l1, l2, f1, f2, j1, j2
<1>9. Good(f1 \o l1 \o j1, TRUE) /\ Good(f2 \o l2 \o j2, FALSE)
  <2>1. Good(f1 \o l1, TRUE) /\ Good(f2 \o l2, FALSE)
    BY <1>5, <1>8
  <2> QED BY <1>5, <1>8, <2>1
<1>10. Good(Test3[p], p = "parent")
  <2>1. CASE p = "parent"
    BY <2>1, <1>7, <1>9
  <2>2. CASE p \in {"child1", "child2", "child3"}
    BY <2>2, <1>6, <1>7, <1>8, <1>9
  <2> QED BY <2>1, <2>2 DEF Process
<1> QED BY <1>10 DEF Good

\* The instruction that p has called last.
LastOp(p) == Test3[p][at[p] - 1][1]

\* p is about to make the first sem_post, or it has returned from sem_wait and
\* has not called sem_post since.
HasTurn(p) ==
  \/ p = "parent" /\ at[p] = 1
  \/ at[p] > 1 /\ LastOp(p) \in Waits /\ spc1[p] = "out" /\ spc2[p] = "out"

\* There is one turn: a process has it, or one of the semaphores, or nobody.
OneTurnIsLeft ==
  /\ \A p \in Process, q \in Process : HasTurn(p) /\ HasTurn(q) => p = q
  /\ \A p \in Process : HasTurn(p) => stokens1 = 0 /\ stokens2 = 0
  /\ stokens1 + stokens2 <= 1

TestTypes ==
  /\ at \in [Process -> Nat \ {0}] /\ \A p \in Process : at[p] <= Len(Test3[p]) + 1
  /\ stokens1 \in Nat /\ stokens2 \in Nat
  /\ spc1 \in [Process -> S1!PCs] /\ spc2 \in [Process -> S2!PCs]

\* who is inside sem_post has called it
PostInv ==
  \A p \in Process : spc1[p] = "wake" \/ spc2[p] = "wake" => at[p] > 1 /\ LastOp(p) \in Posts

TestInv == TestTypes /\ PostInv /\ OneTurnIsLeft

\* Only test is known to be semaphore_test3.
LEMMA ProgramIs == (test = "semaphore_test3" => Program = Test3)
  BY DEF Program, Test3

\* What the next instruction of a process can be.
LEMMA NextOp ==
  ASSUME Turns \in Nat, test = "semaphore_test3", TestTypes, NEW p \in Process, NEW op, Runs(p, op)
  PROVE  /\ op \in Ops /\ at[p] \in 1..Len(Test3[p]) /\ Test3[p][at[p]][1] = op
         /\ spc1[p] = "out" /\ spc2[p] = "out"
         /\ op \in Posts => HasTurn(p)
<1>1. at[p] <= Len(Test3[p]) /\ Test3[p][at[p]][1] = op /\ spc1[p] = "out" /\ spc2[p] = "out"
  BY ProgramIs DEF Runs, Outside
<1>2. Len(Test3[p]) \in Nat /\ InTurn(Test3[p], p = "parent")
  BY Test3InTurn
<1>3. at[p] \in 1..Len(Test3[p])
  BY <1>1, <1>2 DEF TestTypes
<1>4. op \in Ops /\ (op \in Posts => (p = "parent" /\ at[p] = 1) \/ (at[p] > 1 /\ LastOp(p) \in Waits))
  BY <1>1, <1>2, <1>3 DEF InTurn, LastOp
<1> QED BY <1>1, <1>3, <1>4 DEF HasTurn

\* A step that gives nobody the turn and leaves the tokens alone.
LEMMA NobodyGains ==
  ASSUME OneTurnIsLeft, UNCHANGED <<stokens1, stokens2>>, \A p \in Process : HasTurn(p)' => HasTurn(p)
  PROVE  OneTurnIsLeft'
  BY DEF OneTurnIsLeft

\* A step of p that leaves the others alone.
Others(p) ==
  \A q \in Process \ {p} : at'[q] = at[q] /\ spc1'[q] = spc1[q] /\ spc2'[q] = spc2[q]

\* What the others have done and have they keep.
LEMMA OthersKeep ==
  ASSUME NEW p \in Process, Others(p), NEW q \in Process \ {p}
  PROVE  (HasTurn(q)' <=> HasTurn(q)) /\ LastOp(q)' = LastOp(q)
  BY DEF HasTurn, LastOp, Others

\* A system call or a fork: p has gone on to its next instruction.
LEMMA Advances ==
  ASSUME TestTypes, NEW p \in Process, at[p] \in 1..Len(Test3[p]), Advance(p), Turns \in Nat
  PROVE  /\ at'[p] = at[p] + 1 /\ at'[p] > 1 /\ LastOp(p)' = Test3[p][at[p]][1]
         /\ \A q \in Process \ {p} : at'[q] = at[q]
         /\ at' \in [Process -> Nat \ {0}] /\ \A q \in Process : at'[q] <= Len(Test3[q]) + 1
<1>1. Len(Test3[p]) \in Nat
  BY Test3InTurn
<1>2. at' = [at EXCEPT ![p] = at[p] + 1] /\ at \in [Process -> Nat \ {0}]
  BY DEF Advance, TestTypes
<1>3. at'[p] = at[p] + 1 /\ \A q \in Process \ {p} : at'[q] = at[q]
  BY <1>2
<1>4. (at[p] + 1) - 1 = at[p] /\ at[p] + 1 \in Nat \ {0} /\ at[p] + 1 > 1 /\ at[p] + 1 <= Len(Test3[p]) + 1
  BY <1>1
<1>5. LastOp(p)' = Test3[p][at[p]][1]
  BY <1>3, <1>4 DEF LastOp, Test3, semaphore_test3
<1>6. at' \in [Process -> Nat \ {0}]
  BY <1>2, <1>4
<1>7. \A q \in Process : at'[q] <= Len(Test3[q]) + 1
  BY <1>3, <1>4 DEF TestTypes
<1> QED BY <1>3, <1>4, <1>5, <1>6, <1>7

\* A post where there were no tokens leaves one.
LEMMA OneMore ==
  ASSUME NEW a, NEW b, a = 0, b = 0, NEW c \in Nat, NEW d \in Nat, c + d = a + b + 1
  PROVE  c + d <= 1
OBVIOUS

\* A process that goes on to its next instruction passes the turn on with
\* sem_post, waits for it with sem_wait, and has nothing to do with it otherwise.
LEMMA GoesOnKeeps ==
  ASSUME Turns \in Nat, test = "semaphore_test3", TestInv, NEW p \in Process, NEW op,
         Runs(p, op), Advance(p),
         \A q \in Process \ {p} : spc1'[q] = spc1[q] /\ spc2'[q] = spc2[q],
         spc1' \in [Process -> S1!PCs], spc2' \in [Process -> S2!PCs],
         spc1'[p] = "wake" \/ spc2'[p] = "wake" => op \in Posts,
         op \in Waits => spc1'[p] # "out" \/ spc2'[p] # "out",
         stokens1' \in Nat, stokens2' \in Nat,
         op \in Posts => stokens1' + stokens2' = stokens1 + stokens2 + 1,
         op \notin Posts => UNCHANGED <<stokens1, stokens2>>
  PROVE  TestInv'
<1>1. /\ op \in Ops /\ at[p] \in 1..Len(Test3[p]) /\ Test3[p][at[p]][1] = op
      /\ op \in Posts => HasTurn(p)
  BY NextOp DEF TestInv
<1>2. /\ at'[p] > 1 /\ LastOp(p)' = op
      /\ \A q \in Process \ {p} : at'[q] = at[q]
      /\ at' \in [Process -> Nat \ {0}] /\ \A q \in Process : at'[q] <= Len(Test3[q]) + 1
  BY <1>1, Advances DEF TestInv
<1>3. Others(p)
  BY <1>2 DEF Others
<1>4. TestTypes'
  BY <1>2 DEF TestTypes, Test3, semaphore_test3
<1>5. PostInv'
  <2>1. ASSUME NEW q \in Process, spc1'[q] = "wake" \/ spc2'[q] = "wake"
        PROVE  at'[q] > 1 /\ LastOp(q)' \in Posts
    <3>1. CASE q = p
      BY <2>1, <3>1, <1>2
    <3>2. CASE q # p
      BY <2>1, <3>2, <1>2, <1>3, OthersKeep DEF TestInv, PostInv
    <3> QED BY <3>1, <3>2
  <2> QED BY <2>1 DEF PostInv
<1>6. ~HasTurn(p)'
  BY <1>2 DEF HasTurn, Waits
<1>7. \A q \in Process : HasTurn(q)' => q # p /\ HasTurn(q)
  BY <1>3, <1>6, OthersKeep
<1>8. OneTurnIsLeft'
  <2>1. CASE op \in Posts
    <3>1. \A q \in Process : ~HasTurn(q)'
      BY <2>1, <1>1, <1>7 DEF TestInv, OneTurnIsLeft
    <3>2. stokens1 = 0 /\ stokens2 = 0
      BY <2>1, <1>1 DEF TestInv, OneTurnIsLeft
    <3>3. stokens1' + stokens2' = stokens1 + stokens2 + 1
      BY <2>1
    <3>4. stokens1' + stokens2' <= 1
      BY <3>2, <3>3, OneMore
    <3> QED BY <3>1, <3>4 DEF OneTurnIsLeft
  <2>2. CASE op \notin Posts
    BY <2>2, <1>7, NobodyGains DEF TestInv
  <2> QED BY <2>1, <2>2
<1> QED BY <1>4, <1>5, <1>8 DEF TestInv

\* Inside a system call the turn is taken with a token, or nothing happens to it.
LEMMA InCallKeeps ==
  ASSUME TestInv, NEW p \in Process, at' = at,
         \A q \in Process \ {p} : spc1'[q] = spc1[q] /\ spc2'[q] = spc2[q],
         spc1' \in [Process -> S1!PCs], spc2' \in [Process -> S2!PCs],
         spc1'[p] = "wake" \/ spc2'[p] = "wake" => spc1[p] = "wake" \/ spc2[p] = "wake",
         stokens1' \in Nat, stokens2' \in Nat,
         \/ stokens1' + stokens2' = stokens1 + stokens2 - 1
         \/ UNCHANGED <<stokens1, stokens2>> /\ (spc1'[p] # "out" \/ spc2'[p] # "out")
         \/ UNCHANGED <<stokens1, stokens2>> /\ (spc1[p] = "wake" \/ spc2[p] = "wake")
  PROVE  TestInv'
<1>1. Others(p)
  BY DEF Others
<1>2. LastOp(p)' = LastOp(p)
  BY DEF LastOp, Test3, semaphore_test3
<1>3. TestTypes'
  BY DEF TestInv, TestTypes, Test3, semaphore_test3
<1>4. PostInv'
  <2>1. ASSUME NEW q \in Process, spc1'[q] = "wake" \/ spc2'[q] = "wake"
        PROVE  at'[q] > 1 /\ LastOp(q)' \in Posts
    <3>1. spc1[q] = "wake" \/ spc2[q] = "wake"
      BY <2>1
    <3>2. LastOp(q)' = LastOp(q)
      BY <1>1, <1>2, OthersKeep
    <3> QED BY <3>1, <3>2 DEF TestInv, PostInv
  <2> QED BY <2>1 DEF PostInv
<1>5. \A q \in Process \ {p} : HasTurn(q)' <=> HasTurn(q)
  BY <1>1, OthersKeep
<1>6. OneTurnIsLeft'
  <2>1. CASE stokens1' + stokens2' = stokens1 + stokens2 - 1
    <3>1. stokens1 \in Nat /\ stokens2 \in Nat /\ stokens1 + stokens2 <= 1
      BY DEF TestInv, TestTypes, OneTurnIsLeft
    <3>2. stokens1' = 0 /\ stokens2' = 0 /\ ~(stokens1 = 0 /\ stokens2 = 0)
      BY <2>1, <3>1
    <3>3. \A q \in Process : ~HasTurn(q)
      BY <3>2 DEF TestInv, OneTurnIsLeft
    <3> QED BY <3>2, <3>3, <1>5 DEF OneTurnIsLeft
  <2>2. CASE UNCHANGED <<stokens1, stokens2>> /\ (spc1'[p] # "out" \/ spc2'[p] # "out")
    <3>1. HasTurn(p)' => HasTurn(p)
      BY <2>2 DEF HasTurn
    <3> QED BY <2>2, <3>1, <1>5, NobodyGains DEF TestInv
  <2>3. CASE UNCHANGED <<stokens1, stokens2>> /\ (spc1[p] = "wake" \/ spc2[p] = "wake")
    <3>1. at[p] > 1 /\ LastOp(p) \in Posts
      BY <2>3 DEF TestInv, PostInv
    <3>2. HasTurn(p)' => HasTurn(p)
      BY <3>1, <1>2 DEF HasTurn, Waits, Posts
    <3> QED BY <2>3, <3>2, <1>5, NobodyGains DEF TestInv
  <2> QED BY <2>1, <2>2, <2>3
<1> QED BY <1>3, <1>4, <1>6 DEF TestInv

\* A step that changes neither the places of the processes nor the semaphores.
LEMMA SameTurn ==
  ASSUME TestInv, UNCHANGED <<at, stokens1, stokens2, spc1, spc2>>
  PROVE  TestInv'
  BY DEF TestInv, TestTypes, PostInv, OneTurnIsLeft, HasTurn, LastOp, Test3, semaphore_test3

\* What sem_wait and sem_post of the first semaphore do to p, ...
LEMMA FirstSemaphore ==
  ASSUME TestTypes, NEW p \in Process
  PROVE  /\ S1!WaitEnter(p) =>
              spc1' = [spc1 EXCEPT ![p] = "test"] /\ stokens1' = stokens1
         /\ S1!PostEnter(p) =>
              spc1' = [spc1 EXCEPT ![p] = "wake"] /\ stokens1' = stokens1 + 1
         /\ S1!InCall(p) =>
              \/ stokens1' = stokens1 /\ spc1' = [spc1 EXCEPT ![p] = "slept"]
              \/ stokens1' = stokens1 /\ spc1' = [spc1 EXCEPT ![p] = "test"]
              \/ stokens1' = stokens1 /\ spc1[p] = "wake" /\ spc1' = [spc1 EXCEPT ![p] = "out"]
              \/ stokens1' = stokens1 - 1 /\ stokens1 >= 1 /\ spc1' = [spc1 EXCEPT ![p] = "out"]
  BY DEF TestTypes, S1!WaitEnter, S1!PostEnter, S1!InCall, S1!WaitSleep, S1!WaitResume,
         S1!WaitTake, S1!PostWake, S1!Goto, S1!NoToken

\* ... and those of the second.
LEMMA SecondSemaphore ==
  ASSUME TestTypes, NEW p \in Process
  PROVE  /\ S2!WaitEnter(p) =>
              spc2' = [spc2 EXCEPT ![p] = "test"] /\ stokens2' = stokens2
         /\ S2!PostEnter(p) =>
              spc2' = [spc2 EXCEPT ![p] = "wake"] /\ stokens2' = stokens2 + 1
         /\ S2!InCall(p) =>
              \/ stokens2' = stokens2 /\ spc2' = [spc2 EXCEPT ![p] = "slept"]
              \/ stokens2' = stokens2 /\ spc2' = [spc2 EXCEPT ![p] = "test"]
              \/ stokens2' = stokens2 /\ spc2[p] = "wake" /\ spc2' = [spc2 EXCEPT ![p] = "out"]
              \/ stokens2' = stokens2 - 1 /\ stokens2 >= 1 /\ spc2' = [spc2 EXCEPT ![p] = "out"]
  BY DEF TestTypes, S2!WaitEnter, S2!PostEnter, S2!InCall, S2!WaitSleep, S2!WaitResume,
         S2!WaitTake, S2!PostWake, S2!Goto, S2!NoToken

\* fork() and wait() have nothing to do with the semaphores.
LEMMA ForkAndJoinKeep ==
  ASSUME Turns \in Nat, test = "semaphore_test3", TestInv, NEW p \in Process, ForkStep(p) \/ JoinStep(p)
  PROVE  TestInv'
<1>1. PICK op \in {"fork", "join"} : Runs(p, op)
  BY DEF ForkStep, JoinStep
<1>2. Advance(p) /\ UNCHANGED <<stokens1, stokens2, spc1, spc2>>
  BY DEF ForkStep, JoinStep, sems, sem1, sem2
<1>3. TestTypes /\ op \notin Posts /\ op \notin Waits
  BY DEF TestInv, Posts, Waits
<1>4. spc1[p] = "out" /\ spc2[p] = "out"
  BY <1>1, <1>3, NextOp
<1> QED BY <1>1, <1>2, <1>3, <1>4, GoesOnKeeps DEF TestTypes

\* The calls of the first semaphore, ...
LEMMA FirstCallsKeep ==
  ASSUME Turns \in Nat, test = "semaphore_test3", TestInv, NEW p \in Process, Sem1Call(p)
  PROVE  TestInv'
<1>1. Advance(p) /\ UNCHANGED <<stokens2, spc2>> /\ TestTypes
  BY DEF Sem1Call, sem2, TestInv
<1>2. "wait1" \in Waits /\ "wait1" \notin Posts /\ "post1" \in Posts /\ "post1" \notin Waits
  BY DEF Posts, Waits
<1>3. {"out", "test", "wake"} \subseteq S1!PCs
  BY DEF S1!PCs
<1>4. CASE Runs(p, "wait1") /\ S1!WaitEnter(p)
  <2>1. spc1' = [spc1 EXCEPT ![p] = "test"] /\ stokens1' = stokens1
    BY <1>1, <1>4, FirstSemaphore
  <2>2. spc2[p] = "out"
    BY <1>1, <1>4, NextOp
  <2>3. /\ spc1' \in [Process -> S1!PCs] /\ spc1'[p] = "test"
        /\ \A q \in Process \ {p} : spc1'[q] = spc1[q]
    BY <2>1, <1>1, <1>3 DEF TestTypes
  <2> QED BY <1>1, <1>2, <1>4, <2>1, <2>2, <2>3, GoesOnKeeps DEF TestTypes
<1>5. CASE Runs(p, "post1") /\ S1!PostEnter(p)
  <2>1. spc1' = [spc1 EXCEPT ![p] = "wake"] /\ stokens1' = stokens1 + 1
    BY <1>1, <1>5, FirstSemaphore
  <2>2. /\ spc1' \in [Process -> S1!PCs]
        /\ \A q \in Process \ {p} : spc1'[q] = spc1[q]
    BY <2>1, <1>1, <1>3 DEF TestTypes
  <2>3. stokens1' \in Nat /\ stokens2' \in Nat /\ stokens1' + stokens2' = stokens1 + stokens2 + 1
    BY <2>1, <1>1 DEF TestTypes
  <2> QED BY <1>1, <1>2, <1>5, <2>2, <2>3, GoesOnKeeps DEF TestTypes
<1> QED BY <1>4, <1>5 DEF Sem1Call

\* ... and of the second.
LEMMA SecondCallsKeep ==
  ASSUME Turns \in Nat, test = "semaphore_test3", TestInv, NEW p \in Process, Sem2Call(p)
  PROVE  TestInv'
<1>1. Advance(p) /\ UNCHANGED <<stokens1, spc1>> /\ TestTypes
  BY DEF Sem2Call, sem1, TestInv
<1>2. "wait2" \in Waits /\ "wait2" \notin Posts /\ "post2" \in Posts /\ "post2" \notin Waits
  BY DEF Posts, Waits
<1>3. {"out", "test", "wake"} \subseteq S2!PCs
  BY DEF S2!PCs
<1>4. CASE Runs(p, "wait2") /\ S2!WaitEnter(p)
  <2>1. spc2' = [spc2 EXCEPT ![p] = "test"] /\ stokens2' = stokens2
    BY <1>1, <1>4, SecondSemaphore
  <2>2. spc1[p] = "out"
    BY <1>1, <1>4, NextOp
  <2>3. /\ spc2' \in [Process -> S2!PCs] /\ spc2'[p] = "test"
        /\ \A q \in Process \ {p} : spc2'[q] = spc2[q]
    BY <2>1, <1>1, <1>3 DEF TestTypes
  <2> QED BY <1>1, <1>2, <1>4, <2>1, <2>2, <2>3, GoesOnKeeps DEF TestTypes
<1>5. CASE Runs(p, "post2") /\ S2!PostEnter(p)
  <2>1. spc2' = [spc2 EXCEPT ![p] = "wake"] /\ stokens2' = stokens2 + 1
    BY <1>1, <1>5, SecondSemaphore
  <2>2. /\ spc2' \in [Process -> S2!PCs]
        /\ \A q \in Process \ {p} : spc2'[q] = spc2[q]
    BY <2>1, <1>1, <1>3 DEF TestTypes
  <2>3. stokens1' \in Nat /\ stokens2' \in Nat /\ stokens1' + stokens2' = stokens1 + stokens2 + 1
    BY <2>1, <1>1 DEF TestTypes
  <2> QED BY <1>1, <1>2, <1>5, <2>2, <2>3, GoesOnKeeps DEF TestTypes
<1> QED BY <1>4, <1>5 DEF Sem2Call

\* Inside sem_wait and sem_post.
LEMMA KernelKeeps ==
  ASSUME TestInv, NEW p \in Process, Kernel(p)
  PROVE  TestInv'
<1>1. TestTypes
  BY DEF TestInv
<1>2. CASE C1!Continue(p) /\ UNCHANGED <<user, cond2, sems>>
  BY <1>2, SameTurn DEF user, sems, sem1, sem2
<1>3. CASE C2!Continue(p) /\ UNCHANGED <<user, cond1, sems>>
  BY <1>3, SameTurn DEF user, sems, sem1, sem2
<1>4. CASE S1!InCall(p) /\ UNCHANGED <<user, conds, sem2>>
  <2>1. UNCHANGED <<at, stokens2, spc2>>
    BY <1>4 DEF user, sem2
  <2>2. PICK to \in {"slept", "test", "out"} :
          /\ spc1' = [spc1 EXCEPT ![p] = to]
          /\ \/ stokens1' = stokens1 /\ to # "out"
             \/ stokens1' = stokens1 /\ spc1[p] = "wake"
             \/ stokens1' = stokens1 - 1 /\ stokens1 >= 1
    BY <1>1, <1>4, FirstSemaphore
  <2>3. /\ spc1' \in [Process -> S1!PCs] /\ spc1'[p] = to
        /\ \A q \in Process \ {p} : spc1'[q] = spc1[q]
    BY <2>2, <1>1 DEF TestTypes, S1!PCs
  <2>4. stokens1' \in Nat /\ stokens2' \in Nat
    BY <2>1, <2>2, <1>1 DEF TestTypes
  <2>5. \/ stokens1' + stokens2' = stokens1 + stokens2 - 1
        \/ UNCHANGED <<stokens1, stokens2>> /\ spc1'[p] # "out"
        \/ UNCHANGED <<stokens1, stokens2>> /\ spc1[p] = "wake"
    BY <2>1, <2>2, <2>3, <1>1 DEF TestTypes
  <2> QED BY <2>1, <2>3, <2>4, <2>5, <1>1, InCallKeeps DEF TestTypes
<1>5. CASE S2!InCall(p) /\ UNCHANGED <<user, conds, sem1>>
  <2>1. UNCHANGED <<at, stokens1, spc1>>
    BY <1>5 DEF user, sem1
  <2>2. PICK to \in {"slept", "test", "out"} :
          /\ spc2' = [spc2 EXCEPT ![p] = to]
          /\ \/ stokens2' = stokens2 /\ to # "out"
             \/ stokens2' = stokens2 /\ spc2[p] = "wake"
             \/ stokens2' = stokens2 - 1 /\ stokens2 >= 1
    BY <1>1, <1>5, SecondSemaphore
  <2>3. /\ spc2' \in [Process -> S2!PCs] /\ spc2'[p] = to
        /\ \A q \in Process \ {p} : spc2'[q] = spc2[q]
    BY <2>2, <1>1 DEF TestTypes, S2!PCs
  <2>4. stokens1' \in Nat /\ stokens2' \in Nat
    BY <2>1, <2>2, <1>1 DEF TestTypes
  <2>5. \/ stokens1' + stokens2' = stokens1 + stokens2 - 1
        \/ UNCHANGED <<stokens1, stokens2>> /\ spc2'[p] # "out"
        \/ UNCHANGED <<stokens1, stokens2>> /\ spc2[p] = "wake"
    BY <2>1, <2>2, <2>3, <1>1 DEF TestTypes
  <2> QED BY <2>1, <2>3, <2>4, <2>5, <1>1, InCallKeeps DEF TestTypes
<1> QED BY <1>2, <1>3, <1>4, <1>5 DEF Kernel

\* semaphore_test3 uses no condition.
LEMMA NoConditions ==
  ASSUME Turns \in Nat, test = "semaphore_test3", TestTypes, NEW p \in Process
  PROVE  ~JumpStep(p) /\ ~Cond1Call(p) /\ ~Cond2Call(p)
<1>1. \A op \in {"jump", "lock", "unlock", "wait", "signal", "broadcast", "set", "lock2", "unlock2"} :
        ~Runs(p, op)
  BY NextOp DEF Ops, Waits, Posts
<1> QED BY <1>1 DEF JumpStep, Cond1Call, Cond2Call

\* The invariant of semaphore_test3, whose processes the other tests do not have.
TurnInv == test = "semaphore_test3" => TestInv

\* The start: the parent has the turn.
LEMMA TurnStarts == Turns \in Nat /\ TestInit => TurnInv
<1>1. ASSUME Turns \in Nat, TestInit PROVE TestInv
  <2>1. /\ at = [p \in Process |-> 1] /\ stokens1 = 0 /\ stokens2 = 0
        /\ spc1 = [p \in Process |-> "out"] /\ spc2 = [p \in Process |-> "out"]
    BY <1>1 DEF TestInit, S1!Init, S2!Init
  <2>2. \A p \in Process : Len(Test3[p]) \in Nat
    BY <1>1, Test3InTurn
  <2>3. TestTypes
    BY <2>1, <2>2 DEF TestTypes, S1!PCs, S2!PCs
  <2>4. PostInv
    BY <2>1 DEF PostInv
  <2>5. OneTurnIsLeft
    BY <2>1 DEF OneTurnIsLeft, HasTurn
  <2> QED BY <2>3, <2>4, <2>5 DEF TestInv
<1> QED BY <1>1 DEF TurnInv

\* Every step of the test programs keeps it.
LEMMA TurnStays == Turns \in Nat /\ TurnInv /\ [TestNext]_testVars => TurnInv'
<1>1. ASSUME Turns \in Nat, TurnInv, [TestNext]_testVars, test' = "semaphore_test3"
      PROVE  TestInv'
  <2>1. CASE UNCHANGED testVars
    <3>1. test = "semaphore_test3" /\ UNCHANGED <<at, stokens1, stokens2, spc1, spc2>>
      BY <1>1, <2>1 DEF testVars, user, sems, sem1, sem2
    <3> QED BY <1>1, <3>1, SameTurn DEF TurnInv
  <2>2. CASE AllocConditions
    <3>1. test = "semaphore_test3" /\ UNCHANGED <<at, stokens1, stokens2, spc1, spc2>>
      BY <1>1, <2>2 DEF AllocConditions, user, sems, sem1, sem2
    <3> QED BY <1>1, <3>1, SameTurn DEF TurnInv
  <2>3. ASSUME NEW p \in Process, Step(p) PROVE TestInv'
    <3>1. test = "semaphore_test3"
      BY <1>1, <2>3 DEF Step, ForkStep, JoinStep, JumpStep, Cond1Call, Cond2Call,
                        Sem1Call, Sem2Call, Kernel, user
    <3>2. TestInv /\ TestTypes
      BY <1>1, <3>1 DEF TurnInv, TestInv
    <3>3. \/ ForkStep(p) \/ JoinStep(p) \/ Sem1Call(p) \/ Sem2Call(p) \/ Kernel(p)
      BY <1>1, <2>3, <3>1, <3>2, NoConditions DEF Step
    <3> QED BY <1>1, <3>1, <3>2, <3>3, ForkAndJoinKeep, FirstCallsKeep, SecondCallsKeep, KernelKeeps
  <2> QED BY <1>1, <2>1, <2>2, <2>3 DEF TestNext
<1> QED BY <1>1 DEF TurnInv

\* In semaphore_test3 at most one process is between the return of its sem_wait
\* and its sem_post, and then neither semaphore has a token; for any number of
\* turns and however the processes are scheduled.
THEOREM ChildrenTakeTurns == TestSpec => []OneTurn
<1>1. TurnInv => OneTurn
  <2>1. ASSUME TurnInv, test = "semaphore_test3", NEW p \in Process, Did(p, "wait1") \/ Did(p, "wait2")
        PROVE  HasTurn(p) /\ OneTurnIsLeft
    <3>1. Program = Test3 /\ TestInv
      BY <2>1, ProgramIs DEF TurnInv
    <3> QED BY <2>1, <3>1 DEF Did, Outside, HasTurn, LastOp, Waits, TestInv
  <2> QED BY <2>1 DEF OneTurn, OneTurnIsLeft
<1>2. TestInit => TurnInv
  BY TestAssumption, TurnStarts
<1>3. TurnInv /\ [TestNext]_testVars => TurnInv'
  BY TestAssumption, TurnStays
<1> QED BY <1>1, <1>2, <1>3, PTL DEF TestSpec
=============================================================================
