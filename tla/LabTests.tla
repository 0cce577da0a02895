------------------------------ MODULE LabTests ------------------------------
(***************************************************************************)
(* The user programs that test the kernel's synchronisation: the five of   *)
(* lab06/src/cond_test.c and the three of lab06/src/st.c, run on two       *)
(* condition variables (module Condition) and two semaphores (module       *)
(* Semaphore).  A program is a sequence of instructions for each process;  *)
(* printf, cond_get and sleep(5) change nothing and are left out.          *)
(* Names that Condition has too carry a prefix, so that the proofs about   *)
(* both can be in one module.                                              *)
(***************************************************************************)
EXTENDS Integers, Sequences

CONSTANTS Tests,   \* the programs to run, one of which is chosen at the start
          Last,    \* the value at which cond_test1 and 2 stop (10 in the code)
          Turns    \* the rounds of each child in semaphore_test3 (5 in the code)

ASSUME TestAssumption == Last \in Nat \ {0} /\ Turns \in Nat \ {0}

LOCAL SX == INSTANCE SequencesExt

VARIABLES test,    \* the program that runs
          at,      \* where each process is in its program
          alive    \* the processes forked so far

VARIABLES ref1, locked1, count1, tokens1, value1, onQ1, onM1, kpc1, owner1
VARIABLES ref2, locked2, count2, tokens2, value2, onQ2, onM2, kpc2, owner2
VARIABLES slock1, scount1, stokens1, asleep1, spc1, posts1, waits1, kills1
VARIABLES slock2, scount2, stokens2, asleep2, spc2, posts2, waits2, kills2

user  == <<test, at, alive>>
cond1 == <<ref1, locked1, count1, tokens1, value1, onQ1, onM1, kpc1, owner1>>
cond2 == <<ref2, locked2, count2, tokens2, value2, onQ2, onM2, kpc2, owner2>>
sem1  == <<slock1, scount1, stokens1, asleep1, spc1, posts1, waits1, kills1>>
sem2  == <<slock2, scount2, stokens2, asleep2, spc2, posts2, waits2, kills2>>
conds == <<cond1, cond2>>
sems  == <<sem1, sem2>>
testVars == <<user, conds, sems>>

Process    == {"parent", "child1", "child2", "child3"}
TestValues == -2..Last
NoProc     == "nobody"
Many       == 1000  \* more calls of sem_wait or sem_post than any run makes

C1 == INSTANCE Condition WITH Proc <- Process, Values <- TestValues, Disciplined <- FALSE,
        ref <- ref1, locked <- locked1, count <- count1, tokens <- tokens1,
        value <- value1, onQ <- onQ1, onM <- onM1, pc <- kpc1, owner <- owner1
C2 == INSTANCE Condition WITH Proc <- Process, Values <- TestValues, Disciplined <- FALSE,
        ref <- ref2, locked <- locked2, count <- count2, tokens <- tokens2,
        value <- value2, onQ <- onQ2, onM <- onM2, pc <- kpc2, owner <- owner2
S1 == INSTANCE Semaphore WITH
        Proc <- Process, InitCount <- 0, MaxPosts <- Many, MaxWaits <- Many, MaxKills <- 0,
        lock <- slock1, count <- scount1, tokens <- stokens1, asleep <- asleep1,
        pc <- spc1, posts <- posts1, waits <- waits1, kills <- kills1
S2 == INSTANCE Semaphore WITH
        Proc <- Process, InitCount <- 0, MaxPosts <- Many, MaxWaits <- Many, MaxKills <- 0,
        lock <- slock2, count <- scount2, tokens <- stokens2, asleep <- asleep2,
        pc <- spc2, posts <- posts2, waits <- waits2, kills <- kills2

-----------------------------------------------------------------------------
(* The programs.  An instruction is an operation and its argument.          *)

I(op)         == <<op, 0>>
SetTo(v)      == <<"set", v>>
Fork(child)   == <<"fork", child>>
Join(child)   == <<"join", child>>
JumpIf(v, to) == <<"jump", <<v, to>>>>  \* if cond_get(cond) >= v go to `to'
GoTo(to)      == <<"jump", <<-2, to>>>>

\* cond_lock; while (cond_get(cond) < v) cond_wait; cond_unlock, as the code
\* from position b on
WaitFor(v, b) ==
  <<I("lock"), JumpIf(v, b + 4), I("wait"), GoTo(b + 1), I("unlock")>>

\* the same with sem_post before every cond_wait and at the end
PostAndWaitFor(v, b) ==
  <<I("lock"), JumpIf(v, b + 5), I("post1"), I("wait"), GoTo(b + 1),
    I("unlock"), I("post1")>>

\* the loop of the parents: cond_set(cond, value) and cond_signal, and `last'
\* instead of cond_signal for the last value
Count(last) ==
  SX!FlattenSeq([v \in 1..Last |-> <<SetTo(v), I(IF v = Last THEN last ELSE "signal")>>])

condition_test1 ==
  [parent |-> <<Fork("child1")>> \o Count("signal") \o <<Join("child1")>>,
   child1 |-> WaitFor(Last, 1),
   child2 |-> <<>>, child3 |-> <<>>]

condition_test2 ==
  [parent |-> <<Fork("child1")>> \o Count("broadcast") \o <<Join("child1")>>,
   child1 |-> <<Fork("child2")>> \o WaitFor(Last, 2) \o <<Join("child2")>>,
   child2 |-> WaitFor(Last, 1),
   child3 |-> <<>>]

mutex_test1 ==
  [parent |-> <<I("lock"), Fork("child1"), I("unlock"), Join("child1")>>,
   child1 |-> <<I("lock"), I("unlock")>>,
   child2 |-> <<>>, child3 |-> <<>>]

mutex_test2 ==
  [parent |-> <<I("lock"), I("lock2"), Fork("child1"), I("unlock"), Join("child1")>>,
   child1 |-> <<Fork("child2"), I("lock"), I("unlock"), I("lock2"), I("unlock2"),
                Join("child2")>>,
   child2 |-> <<I("lock"), I("unlock"), I("unlock2")>>,
   child3 |-> <<>>]

condition_test3 ==
  [parent |-> <<SetTo(-1), Fork("child1")>> \o PostAndWaitFor(0, 3) \o <<Join("child1")>>,
   child1 |-> <<Fork("child2")>> \o PostAndWaitFor(1, 2) \o <<Join("child2")>>,
   child2 |-> <<Fork("child3")>> \o PostAndWaitFor(2, 2) \o <<Join("child3")>>,
   child3 |-> <<I("wait1"), I("wait1"), I("wait1"), I("signal"),
                I("wait1"), SetTo(-2), I("signal"), I("signal"),
                I("wait1"), I("wait1"), SetTo(0), I("broadcast"),
                I("wait1"), I("wait1"), I("wait1"), SetTo(1), I("broadcast"),
                I("wait1"), I("wait1"), SetTo(2), I("signal"), I("wait1")>>]

Repeat(n, body) == [i \in 1..n * Len(body) |-> body[((i - 1) % Len(body)) + 1]]

semaphore_test1 ==
  [parent |-> <<Fork("child1"), I("wait1"), Join("child1")>>,
   child1 |-> <<I("post1")>>,
   child2 |-> <<>>, child3 |-> <<>>]

semaphore_test2 ==
  [parent |-> <<Fork("child1"), I("wait1"), I("post1"), Join("child1")>>,
   child1 |-> <<Fork("child2"), I("wait1"), I("post1"), Join("child2")>>,
   child2 |-> <<I("post1")>>,
   child3 |-> <<>>]

\* the parent and the two children take turns: the parent waits for sem1 and
\* posts sem2, a child waits for sem2 and posts sem1
Turn == <<I("wait2"), I("post1")>>

semaphore_test3 ==
  [parent |-> <<I("post2"), Fork("child1")>>
              \o Repeat(2 * Turns, <<I("wait1"), I("post2")>>) \o <<Join("child1")>>,
   child1 |-> <<Fork("child2")>> \o Repeat(Turns, Turn) \o <<Join("child2")>>,
   child2 |-> Repeat(Turns, Turn),
   child3 |-> <<>>]

Program == CASE test = "condition_test1" -> condition_test1
             [] test = "condition_test2" -> condition_test2
             [] test = "mutex_test1" -> mutex_test1
             [] test = "mutex_test2" -> mutex_test2
             [] test = "condition_test3" -> condition_test3
             [] test = "semaphore_test1" -> semaphore_test1
             [] test = "semaphore_test2" -> semaphore_test2
             [] test = "semaphore_test3" -> semaphore_test3

Ended(p) == p \in alive /\ at[p] > Len(Program[p])

TestInit ==
  /\ test \in Tests
  /\ at = [p \in Process |-> 1] /\ alive = {"parent"}
  /\ C1!Init /\ value1 = 0 /\ C2!Init /\ value2 = 0 /\ S1!Init /\ S2!Init

-----------------------------------------------------------------------------
Advance(p) == at' = [at EXCEPT ![p] = @ + 1]

Outside(p) == kpc1[p] = "out" /\ kpc2[p] = "out" /\ spc1[p] = "out" /\ spc2[p] = "out"

\* p is in user code and its next instruction is op
Runs(p, op) ==
  /\ p \in alive /\ at[p] <= Len(Program[p]) /\ Program[p][at[p]][1] = op
  /\ Outside(p)

Arg(p) == Program[p][at[p]][2]

\* cond_alloc by the parent before anything else (the slots of the tests)
AllocConditions ==
  /\ ~ref1 /\ C1!Alloc /\ C2!Alloc
  /\ UNCHANGED <<user, sems>>

ForkStep(p) ==
  /\ Runs(p, "fork") /\ ref1 /\ alive' = alive \cup {Arg(p)} /\ Advance(p)
  /\ UNCHANGED <<test, conds, sems>>

\* wait(): every process of the tests has at most one child
JoinStep(p) ==
  /\ Runs(p, "join") /\ Ended(Arg(p)) /\ Advance(p)
  /\ UNCHANGED <<test, alive, conds, sems>>

JumpStep(p) ==
  /\ Runs(p, "jump") /\ ref1
  /\ at' = [at EXCEPT ![p] = IF value1 >= Arg(p)[1] THEN Arg(p)[2] ELSE @ + 1]
  /\ UNCHANGED <<test, alive, conds, sems>>

Cond1Call(p) ==
  /\ \/ Runs(p, "lock") /\ C1!Lock(p)
     \/ Runs(p, "unlock") /\ C1!Unlock(p)
     \/ Runs(p, "wait") /\ C1!WaitEnter(p)
     \/ Runs(p, "signal") /\ C1!Signal(p)
     \/ Runs(p, "broadcast") /\ C1!Broadcast(p)
     \/ Runs(p, "set") /\ C1!Set(p, Arg(p))
  /\ Advance(p)
  /\ UNCHANGED <<test, alive, cond2, sems>>

Cond2Call(p) ==
  /\ \/ Runs(p, "lock2") /\ C2!Lock(p)
     \/ Runs(p, "unlock2") /\ C2!Unlock(p)
  /\ Advance(p)
  /\ UNCHANGED <<test, alive, cond1, sems>>

Sem1Call(p) ==
  /\ \/ Runs(p, "wait1") /\ S1!WaitEnter(p)
     \/ Runs(p, "post1") /\ S1!PostEnter(p)
  /\ ref1 /\ Advance(p)
  /\ UNCHANGED <<test, alive, conds, sem2>>

Sem2Call(p) ==
  /\ \/ Runs(p, "wait2") /\ S2!WaitEnter(p)
     \/ Runs(p, "post2") /\ S2!PostEnter(p)
  /\ ref1 /\ Advance(p)
  /\ UNCHANGED <<test, alive, conds, sem1>>

Kernel(p) ==
  \/ C1!Continue(p) /\ UNCHANGED <<user, cond2, sems>>
  \/ C2!Continue(p) /\ UNCHANGED <<user, cond1, sems>>
  \/ S1!InCall(p) /\ UNCHANGED <<user, conds, sem2>>
  \/ S2!InCall(p) /\ UNCHANGED <<user, conds, sem1>>

Step(p) == \/ ForkStep(p) \/ JoinStep(p) \/ JumpStep(p) \/ Cond1Call(p)
           \/ Cond2Call(p) \/ Sem1Call(p) \/ Sem2Call(p) \/ Kernel(p)

TestNext == AllocConditions \/ \E p \in Process : Step(p)

TestSpec == TestInit /\ [][TestNext]_testVars

\* Every process is scheduled again and again and runs its program.
FairTestSpec == TestSpec /\ WF_testVars(AllocConditions) /\ \A p \in Process : WF_testVars(Step(p))
-----------------------------------------------------------------------------
\* The instruction p executed last is op, and it has returned.
Did(p, op) == at[p] > 1 /\ Program[p][at[p] - 1][1] = op /\ Outside(p)

\* semaphore_test3 prints the parent's line and a child's line in turn: the
\* two semaphores carry one token between them, so that at most one process is
\* between the return of its sem_wait and its sem_post.
OneTurn ==
  test = "semaphore_test3" =>
    LET turns == {p \in Process : Did(p, "wait1") \/ Did(p, "wait2")}
    IN  /\ \A p, q \in turns : p = q
        /\ turns # {} => stokens1 = 0 /\ stokens2 = 0

Finished == \A p \in Process : Program[p] # <<>> => Ended(p)

\* "... passed!": every program ends by printing that it passed, once its
\* parent has waited for all its children.
Passed == <>Finished

\* The two programs that use only the mutex, and the three of st.c, do pass.
MutexAndSemaphoreTestsPass ==
  test \in {"mutex_test1", "mutex_test2",
            "semaphore_test1", "semaphore_test2", "semaphore_test3"} => Passed

\* And a program that does not pass is stuck for one reason only: a process
\* stays in cond_wait for a token that nobody will give it any more.  The
\* mutex, the semaphores and wait() never block it for ever by themselves.
OnlyWaitersHang ==
  \/ <>Finished
  \/ <>[](\E p \in Process : kpc1[p] = "token" /\ tokens1 = 0)
=============================================================================
