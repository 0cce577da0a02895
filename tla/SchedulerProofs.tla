-------------------------- MODULE SchedulerProofs --------------------------
(***************************************************************************)
(* Theorems about Scheduler, for any number of processors and of slots:    *)
(* who holds ptable.lock, one processor for each stack, the panics of      *)
(* sched(), and the wakeups of sleep() and of wait().                      *)
(***************************************************************************)
EXTENDS Scheduler, TLAPS

\* Who holds ptable.lock: a processor in its scheduler's loop, one that runs a
\* process inside wait(), or one that is on either side of swtch.
LockInv ==
  \A c \in CPU : ptlock = c <=>
    IF runs[c] = Nobody THEN scan[c] # NPROC + 1
    ELSE pc[runs[c]] \in {"forkret", "wait"} \cup InSched

\* The scheduler that runs p continues after p in its loop; a process that is
\* not RUNNING and still has its stack in use is on its way through swtch.
RunInv ==
  \A c \in CPU : runs[c] # Nobody =>
    /\ scan[c] = runs[c]
    /\ \/ state[runs[c]] = "RUNNING"
       \/ state[runs[c]] = "RUNNABLE" /\ pc[runs[c]] = "yield"
       \/ state[runs[c]] = "SLEEPING" /\ pc[runs[c]] \in {"slept", "waited"}
       \/ state[runs[c]] = "ZOMBIE" /\ pc[runs[c]] = "dead"

\* Where a process continues when it does not run.
PcInv ==
  \A p \in Proc :
    /\ state[p] = "EMBRYO" => pc[p] = "forkret"
    /\ state[p] = "RUNNABLE" => pc[p] \in {"forkret", "yield", "slept", "waited"}
    /\ state[p] = "SLEEPING" => pc[p] \in {"slept", "waited"}

\* The client's lock is held from the test of the flag to the sleep, and from
\* the change of the flag to the wakeup; while somebody is about to sleep the
\* flag stays down.
ClientInv ==
  \A c \in CPU :
    /\ lk = c <=> runs[c] # Nobody /\ pc[runs[c]] \in {"test", "sleep", "wake"}
    /\ runs[c] # Nobody /\ pc[runs[c]] = "sleep" => ~flag

\* initproc is nobody's child and never ends, and nobody is its own parent.
ParentInv ==
  /\ state[initproc] \in {"RUNNABLE", "RUNNING", "SLEEPING"} /\ parent[initproc] = Nobody
  /\ \A p \in Proc : parent[p] # p

Bodies == LockInv /\ RunInv /\ PcInv
Wakeups == NoLostWakeup /\ ParentsAreWoken

\* The invariant of the proofs: a wakeup can only be lost to a process that is
\* between two of its steps, so it says who may be where, with which lock.
IInv == TypeOK /\ Bodies /\ OneStackOneCPU /\ ClientInv /\ ParentInv /\ Wakeups
-----------------------------------------------------------------------------
\* acquire(&ptable.lock) at the head of the loop of scheduler().
LEMMA SchedAcquireInv ==
  ASSUME IInv, NEW c \in CPU, SchedAcquire(c) PROVE IInv'
<1>1. TypeOK'
  BY SMTT(30) DEF SchedAcquire, IInv, TypeOK, procs
<1>2. Bodies'
  BY SchedAssumption, SMTT(30)
  DEF SchedAcquire, IInv, TypeOK, Bodies, LockInv, RunInv, PcInv, Free, procs
<1>3. OneStackOneCPU'
  BY SMTT(30) DEF SchedAcquire, IInv, OneStackOneCPU, procs
<1>4. ClientInv'
  BY SMTT(30) DEF SchedAcquire, IInv, ClientInv
<1>5. ParentInv'
  BY SMTT(30) DEF SchedAcquire, IInv, ParentInv, procs
<1>6. Wakeups'
  BY SMTT(30)
  DEF SchedAcquire, IInv, Wakeups, NoLostWakeup, ParentsAreWoken, procs
<1> QED BY <1>1, <1>2, <1>3, <1>4, <1>5, <1>6 DEF IInv

\* scheduler() passes over a process that is not RUNNABLE.
LEMMA SchedSkipInv == ASSUME IInv, NEW c \in CPU, SchedSkip(c) PROVE IInv'
<1>1. TypeOK'
  BY SchedAssumption, SMTT(30) DEF SchedSkip, IInv, TypeOK, Proc, procs
<1>2. Bodies'
  BY SchedAssumption, SMTT(30)
  DEF SchedSkip, IInv, TypeOK, Bodies, LockInv, RunInv, PcInv, Proc, procs
<1>3. OneStackOneCPU'
  BY SMTT(30) DEF SchedSkip, IInv, OneStackOneCPU, procs
<1>4. ClientInv'
  BY SMTT(30) DEF SchedSkip, IInv, ClientInv
<1>5. ParentInv'
  BY SMTT(30) DEF SchedSkip, IInv, ParentInv, procs
<1>6. Wakeups'
  BY SMTT(30)
  DEF SchedSkip, IInv, Wakeups, NoLostWakeup, ParentsAreWoken, procs
<1> QED BY <1>1, <1>2, <1>3, <1>4, <1>5, <1>6 DEF IInv

\* swtch to a process: it was RUNNABLE, so its stack is nobody's but this
\* CPU's.
LEMMA SchedRunInv == ASSUME IInv, NEW c \in CPU, SchedRun(c) PROVE IInv'
<1>1. TypeOK'
  BY SMTT(30) DEF SchedRun, IInv, TypeOK
<1>2. Bodies'
  BY SchedAssumption, SMTT(30)
  DEF SchedRun, IInv, TypeOK, Bodies, LockInv, RunInv, PcInv, OneStackOneCPU,
     Proc, InSched
<1>3. OneStackOneCPU'
  BY SchedAssumption, SMTT(30)
  DEF SchedRun, IInv, Bodies, LockInv, RunInv, OneStackOneCPU, Proc, InSched
<1>4. ClientInv'
  <2>1. pc[scan[c]] \in {"forkret", "yield", "slept", "waited"}
    BY SMTT(30) DEF IInv, Bodies, PcInv, SchedRun
  <2>2. /\ runs[c] = Nobody /\ runs' = [runs EXCEPT ![c] = scan[c]]
        /\ runs \in [CPU -> Proc \cup {Nobody}]
        /\ lk' = lk /\ flag' = flag /\ pc' = pc
    BY SMTT(30) DEF SchedRun, IInv, TypeOK
  <2> QED BY <2>1, <2>2, SMTT(30) DEF IInv, ClientInv
<1>5. ParentInv'
  BY SMTT(30) DEF SchedRun, IInv, ParentInv
<1>6. Wakeups'
  BY SMTT(30) DEF SchedRun, IInv, Wakeups, NoLostWakeup, ParentsAreWoken
<1> QED BY <1>1, <1>2, <1>3, <1>4, <1>5, <1>6 DEF IInv

\* sched() in a process: its stack is free, and the lock goes to the loop.
LEMMA SchedInv == ASSUME IInv, NEW c \in CPU, Sched(c) PROVE IInv'
<1>1. TypeOK'
  BY SchedAssumption, SMTT(30)
  DEF Sched, IInv, TypeOK, Bodies, RunInv, Proc, procs
<1>2. Bodies'
  BY SchedAssumption, SMTT(30)
  DEF Sched, IInv, TypeOK, Bodies, LockInv, RunInv, PcInv, Proc, procs
<1>3. OneStackOneCPU'
  BY SMTT(30) DEF Sched, IInv, OneStackOneCPU, procs
<1>4. ClientInv'
  BY SMTT(30) DEF Sched, IInv, Bodies, RunInv, ClientInv
<1>5. ParentInv'
  BY SMTT(30) DEF Sched, IInv, ParentInv, procs
<1>6. Wakeups'
  BY SMTT(30) DEF Sched, IInv, Wakeups, NoLostWakeup, ParentsAreWoken, procs
<1> QED BY <1>1, <1>2, <1>3, <1>4, <1>5, <1>6 DEF IInv

\* forkret and the end of yield release the lock that the scheduler took.
LEMMA ResumeInv ==
  ASSUME IInv, NEW c \in CPU, NEW p \in Proc, Resume(c, p) PROVE IInv'
<1>1. TypeOK'
  BY SMTT(30) DEF Resume, IInv, TypeOK, PCs, Goto, procs
<1>2. Bodies'
  BY SchedAssumption, SMTT(30)
  DEF Resume, IInv, TypeOK, Bodies, LockInv, RunInv, PcInv, OneStackOneCPU,
     Proc, InSched, Goto, On, procs
<1>3. OneStackOneCPU'
  BY SMTT(30) DEF Resume, IInv, OneStackOneCPU, procs
<1>4. ClientInv'
  BY SMTT(30) DEF Resume, IInv, ClientInv, Goto, On
<1>5. ParentInv'
  BY SMTT(30) DEF Resume, IInv, ParentInv, procs
<1>6. Wakeups'
  BY SMTT(30)
  DEF Resume, IInv, Wakeups, NoLostWakeup, ParentsAreWoken, Q, procs
<1> QED BY <1>1, <1>2, <1>3, <1>4, <1>5, <1>6 DEF IInv

\* the end of sleep() releases the lock that the scheduler took.
LEMMA SleepWakesInv ==
  ASSUME IInv, NEW c \in CPU, NEW p \in Proc, SleepWakes(c, p) PROVE IInv'
<1>1. TypeOK'
  BY SMTT(30) DEF SleepWakes, IInv, TypeOK, PCs, Goto
<1>2. Bodies'
  BY SchedAssumption, SMTT(30)
  DEF SleepWakes, IInv, TypeOK, Bodies, LockInv, RunInv, PcInv, Proc, InSched,
     Goto, On
<1>3. OneStackOneCPU'
  BY SMTT(30) DEF SleepWakes, IInv, OneStackOneCPU
<1>4. ClientInv'
  BY SMTT(30) DEF SleepWakes, IInv, ClientInv, Goto, On
<1>5. ParentInv'
  BY SMTT(30) DEF SleepWakes, IInv, ParentInv
<1>6. Wakeups'
  BY SMTT(30) DEF SleepWakes, IInv, Wakeups, NoLostWakeup, ParentsAreWoken, On
<1> QED BY <1>1, <1>2, <1>3, <1>4, <1>5, <1>6 DEF IInv

\* yield() takes the lock before it makes the process RUNNABLE.
LEMMA YieldInv ==
  ASSUME IInv, NEW c \in CPU, NEW p \in Proc, Yield(c, p) PROVE IInv'
<1>1. TypeOK'
  BY SMTT(30) DEF Yield, IInv, TypeOK, PCs, Goto
<1>2. Bodies'
  BY SchedAssumption, SMTT(30)
  DEF Yield, IInv, TypeOK, Bodies, LockInv, RunInv, PcInv, OneStackOneCPU,
     Proc, InSched, Free, Goto, On
<1>3. OneStackOneCPU'
  BY SMTT(30) DEF Yield, IInv, OneStackOneCPU
<1>4. ClientInv'
  BY SMTT(30) DEF Yield, IInv, ClientInv, Goto, On
<1>5. ParentInv'
  BY SMTT(30) DEF Yield, IInv, ParentInv
<1>6. Wakeups'
  BY SMTT(30) DEF Yield, IInv, Wakeups, NoLostWakeup, ParentsAreWoken
<1> QED BY <1>1, <1>2, <1>3, <1>4, <1>5, <1>6 DEF IInv

\* allocproc takes a slot that is no process's child and that nobody runs.
LEMMA ForkAllocInv ==
  ASSUME IInv, NEW c \in CPU, NEW p \in Proc, NEW q \in Proc, ForkAlloc(c, p, q) PROVE IInv'
<1>1. TypeOK'
  BY SMTT(30) DEF ForkAlloc, IInv, TypeOK, PCs
<1>2. Bodies'
  BY SMTT(30)
  DEF ForkAlloc, IInv, TypeOK, Bodies, LockInv, RunInv, PcInv, InSched, On
<1>3. OneStackOneCPU'
  BY SMTT(30) DEF ForkAlloc, IInv, OneStackOneCPU
<1>4. ClientInv'
  BY SMTT(30) DEF ForkAlloc, IInv, TypeOK, Bodies, RunInv, ClientInv, On
<1>5. ParentInv'
  BY SMTT(30) DEF ForkAlloc, IInv, TypeOK, ParentInv
<1>6. Wakeups'
  BY SMTT(30) DEF ForkAlloc, IInv, Wakeups, NoLostWakeup, ParentsAreWoken
<1> QED BY <1>1, <1>2, <1>3, <1>4, <1>5, <1>6 DEF IInv

\* the end of fork(), with the child RUNNABLE or its slot given back.
LEMMA ForkDoneInv ==
  ASSUME IInv, NEW c \in CPU, NEW p \in Proc, NEW q \in Proc, ForkDone(c, p, q) PROVE IInv'
<1>1. TypeOK'
  BY SchedAssumption, SMTT(30)
  DEF ForkDone, IInv, TypeOK, Bodies, PCs, Goto, On
<1>2. Bodies'
  BY SchedAssumption, SMTT(30)
  DEF ForkDone, IInv, TypeOK, Bodies, LockInv, RunInv, PcInv, OneStackOneCPU,
     InSched, Goto, On
<1>3. OneStackOneCPU'
  BY SchedAssumption, SMTT(30) DEF ForkDone, IInv, TypeOK, OneStackOneCPU
<1>4. ClientInv'
  BY SMTT(30) DEF ForkDone, IInv, ClientInv, Goto, On
<1>5. ParentInv'
  BY SchedAssumption, SMTT(30)
  DEF ForkDone, IInv, TypeOK, ParentInv, Proc, initproc
<1>6. Wakeups'
  BY SchedAssumption, SMTT(30)
  DEF ForkDone, IInv, TypeOK, Wakeups, NoLostWakeup, ParentsAreWoken,
     initproc, Q
<1> QED BY <1>1, <1>2, <1>3, <1>4, <1>5, <1>6 DEF IInv

\* exit() wakes the parent, and init when it inherits a ZOMBIE, under the
\* lock.
LEMMA ExitInv ==
  ASSUME IInv, NEW c \in CPU, NEW p \in Proc, Exit(c, p) PROVE IInv'
<1>1. TypeOK'
  BY SchedAssumption, SMTT(30)
  DEF Exit, IInv, TypeOK, PCs, Proc, initproc, Goto, WakeChan, ExitWakes,
     Adopt
<1>2. Bodies'
  BY SchedAssumption, SMTT(30)
  DEF Exit, IInv, TypeOK, Bodies, LockInv, RunInv, PcInv, OneStackOneCPU,
     Proc, InSched, Free, Goto, On, WakeChan, ExitWakes
<1>3. OneStackOneCPU'
  BY SMTT(30) DEF Exit, IInv, TypeOK, OneStackOneCPU, WakeChan, ExitWakes
<1>4. ClientInv'
  BY SMTT(30) DEF Exit, IInv, ClientInv, Goto, On
<1>5. ParentInv'
  BY SchedAssumption, SMTT(30)
  DEF Exit, IInv, ParentInv, Proc, initproc, WakeChan, ExitWakes, Adopt,
     Orphans
<1>6. Wakeups'
  BY SMTT(30)
  DEF Exit, IInv, ParentInv, Wakeups, NoLostWakeup, ParentsAreWoken, WakeChan,
     ExitWakes, Adopt, Orphans
<1> QED BY <1>1, <1>2, <1>3, <1>4, <1>5, <1>6 DEF IInv

\* wait() takes the lock before it looks at the children.
LEMMA WaitEnterInv ==
  ASSUME IInv, NEW c \in CPU, NEW p \in Proc, WaitEnter(c, p) PROVE IInv'
<1>1. TypeOK'
  BY SMTT(30) DEF WaitEnter, IInv, TypeOK, PCs, Goto, procs
<1>2. Bodies'
  BY SchedAssumption, SMTT(30)
  DEF WaitEnter, IInv, TypeOK, Bodies, LockInv, RunInv, PcInv, OneStackOneCPU,
     Proc, Free, Goto, On, procs
<1>3. OneStackOneCPU'
  BY SMTT(30) DEF WaitEnter, IInv, OneStackOneCPU, procs
<1>4. ClientInv'
  BY SMTT(30) DEF WaitEnter, IInv, ClientInv, Goto, On
<1>5. ParentInv'
  BY SMTT(30) DEF WaitEnter, IInv, ParentInv, procs
<1>6. Wakeups'
  BY SMTT(30)
  DEF WaitEnter, IInv, Wakeups, NoLostWakeup, ParentsAreWoken, procs
<1> QED BY <1>1, <1>2, <1>3, <1>4, <1>5, <1>6 DEF IInv

\* wait() frees the stack of a ZOMBIE, which has left it: its exit() had the
\* lock.
LEMMA WaitReapInv ==
  ASSUME IInv, NEW c \in CPU, NEW p \in Proc, WaitReap(c, p) PROVE IInv'
<1>1. TypeOK'
  BY SMTT(30) DEF WaitReap, IInv, TypeOK, PCs, Goto, Zombies
<1>2. Bodies'
  BY SchedAssumption, SMTT(30)
  DEF WaitReap, IInv, TypeOK, Bodies, LockInv, RunInv, PcInv, OneStackOneCPU,
     Proc, InSched, Goto, On, Zombies
<1>3. OneStackOneCPU'
  <2>1. PICK q \in Zombies(p) : state' = [state EXCEPT ![q] = "UNUSED"]
    BY DEF WaitReap
  <2>2. ptlock = c /\ runs[c] = p /\ state[p] = "RUNNING" /\ runs' = runs
    BY SchedAssumption, SMTT(30)
    DEF WaitReap, On, IInv, Bodies, LockInv, TypeOK, Proc, procs
  <2>3. ASSUME NEW d \in CPU PROVE runs[d] # q
    BY <2>2, SchedAssumption, SMTT(30)
    DEF IInv, Bodies, LockInv, RunInv, Zombies, InSched, Proc
  <2> QED BY <2>1, <2>2, <2>3, SMTT(30) DEF IInv, OneStackOneCPU, TypeOK, Zombies
<1>4. ClientInv'
  BY SMTT(30) DEF WaitReap, IInv, ClientInv, Goto, On
<1>5. ParentInv'
  BY SchedAssumption, SMTT(30) DEF WaitReap, IInv, ParentInv, Proc, Zombies
<1>6. Wakeups'
  BY SMTT(30)
  DEF WaitReap, IInv, TypeOK, Wakeups, NoLostWakeup, ParentsAreWoken
<1> QED BY <1>1, <1>2, <1>3, <1>4, <1>5, <1>6 DEF IInv

\* wait() returns -1 and releases the lock.
LEMMA WaitFailsInv ==
  ASSUME IInv, NEW c \in CPU, NEW p \in Proc, WaitFails(c, p) PROVE IInv'
<1>1. TypeOK'
  BY SMTT(30) DEF WaitFails, IInv, TypeOK, PCs, Goto, procs
<1>2. Bodies'
  BY SchedAssumption, SMTT(30)
  DEF WaitFails, IInv, TypeOK, Bodies, LockInv, RunInv, PcInv, Proc, InSched,
     Goto, On, procs
<1>3. OneStackOneCPU'
  BY SMTT(30) DEF WaitFails, IInv, OneStackOneCPU, procs
<1>4. ClientInv'
  BY SMTT(30) DEF WaitFails, IInv, ClientInv, Goto, On
<1>5. ParentInv'
  BY SMTT(30) DEF WaitFails, IInv, ParentInv, procs
<1>6. Wakeups'
  BY SMTT(30)
  DEF WaitFails, IInv, Wakeups, NoLostWakeup, ParentsAreWoken, procs
<1> QED BY <1>1, <1>2, <1>3, <1>4, <1>5, <1>6 DEF IInv

\* wait() sleeps under the lock that exit() needs, so no child died in
\* between.
LEMMA WaitSleepsInv ==
  ASSUME IInv, NEW c \in CPU, NEW p \in Proc, WaitSleeps(c, p) PROVE IInv'
<1>1. TypeOK'
  BY SMTT(30) DEF WaitSleeps, IInv, TypeOK, PCs, Goto
<1>2. Bodies'
  BY SMTT(30)
  DEF WaitSleeps, IInv, TypeOK, Bodies, LockInv, RunInv, PcInv, InSched, Goto,
     On
<1>3. OneStackOneCPU'
  BY SMTT(30) DEF WaitSleeps, IInv, OneStackOneCPU
<1>4. ClientInv'
  BY SMTT(30) DEF WaitSleeps, IInv, ClientInv, Goto, On
<1>5. ParentInv'
  BY SMTT(30) DEF WaitSleeps, IInv, ParentInv
<1>6. Wakeups'
  <2>1. NoLostWakeup'
    BY SMTT(30) DEF IInv, TypeOK, Wakeups, NoLostWakeup, WaitSleeps, Q, Proc
  <2>2. ParentsAreWoken'
    BY SchedAssumption, SMTT(30)
    DEF IInv, TypeOK, Wakeups, ParentsAreWoken, WaitSleeps, Zombies
  <2> QED BY <2>1, <2>2 DEF Wakeups
<1> QED BY <1>1, <1>2, <1>3, <1>4, <1>5, <1>6 DEF IInv

\* wait() goes on from its sleep and looks at the children again.
LEMMA WaitWakesInv ==
  ASSUME IInv, NEW c \in CPU, NEW p \in Proc, WaitWakes(c, p) PROVE IInv'
<1>1. TypeOK'
  BY SMTT(30) DEF WaitWakes, IInv, TypeOK, PCs, Goto
<1>2. Bodies'
  BY SMTT(30)
  DEF WaitWakes, IInv, Bodies, LockInv, RunInv, PcInv, InSched, Goto, On
<1>3. OneStackOneCPU'
  BY SMTT(30) DEF WaitWakes, IInv, OneStackOneCPU
<1>4. ClientInv'
  BY SMTT(30) DEF WaitWakes, IInv, ClientInv, Goto, On
<1>5. ParentInv'
  BY SMTT(30) DEF WaitWakes, IInv, ParentInv
<1>6. Wakeups'
  BY SMTT(30) DEF WaitWakes, IInv, Wakeups, NoLostWakeup, ParentsAreWoken, On
<1> QED BY <1>1, <1>2, <1>3, <1>4, <1>5, <1>6 DEF IInv

\* kill() wakes a sleeper, whose stack is out of use.
LEMMA KillInv ==
  ASSUME IInv, NEW c \in CPU, NEW p \in Proc, NEW q \in Proc, Kill(c, p, q) PROVE IInv'
<1>1. TypeOK'
  BY SMTT(30) DEF Kill, IInv, TypeOK
<1>2. Bodies'
  BY SchedAssumption, SMTT(30)
  DEF Kill, IInv, Bodies, LockInv, RunInv, PcInv, InSched, Free
<1>3. OneStackOneCPU'
  BY SMTT(30) DEF Kill, IInv, OneStackOneCPU
<1>4. ClientInv'
  BY SMTT(30) DEF Kill, IInv, ClientInv
<1>5. ParentInv'
  BY SMTT(30) DEF Kill, IInv, ParentInv
<1>6. Wakeups'
  BY SMTT(30) DEF Kill, IInv, Wakeups, NoLostWakeup, ParentsAreWoken
<1> QED BY <1>1, <1>2, <1>3, <1>4, <1>5, <1>6 DEF IInv

\* the client takes its lock to look at the flag.
LEMMA TakeEnterInv ==
  ASSUME IInv, NEW c \in CPU, NEW p \in Proc, TakeEnter(c, p) PROVE IInv'
<1>1. TypeOK'
  BY SMTT(30) DEF TakeEnter, IInv, TypeOK, PCs, Goto, procs
<1>2. Bodies'
  BY SMTT(30)
  DEF TakeEnter, IInv, Bodies, LockInv, RunInv, PcInv, InSched, Goto, On,
     procs
<1>3. OneStackOneCPU'
  BY SMTT(30) DEF TakeEnter, IInv, OneStackOneCPU, procs
<1>4. ClientInv'
  BY SchedAssumption, SMTT(30)
  DEF TakeEnter, IInv, TypeOK, OneStackOneCPU, ClientInv, Proc, Free, Goto, On
<1>5. ParentInv'
  BY SMTT(30) DEF TakeEnter, IInv, ParentInv, procs
<1>6. Wakeups'
  BY SMTT(30)
  DEF TakeEnter, IInv, Wakeups, NoLostWakeup, ParentsAreWoken, Free, procs
<1> QED BY <1>1, <1>2, <1>3, <1>4, <1>5, <1>6 DEF IInv

\* the client finds the flag and takes it down.
LEMMA TakeFlagInv ==
  ASSUME IInv, NEW c \in CPU, NEW p \in Proc, TakeFlag(c, p) PROVE IInv'
<1>1. TypeOK'
  <2>1. flag' \in BOOLEAN
    BY Zenon DEF TakeFlag
  <2>2. (ptlock \in CPU \cup {Nobody} /\ lk \in CPU \cup {Nobody})'
    BY SMTT(30) DEF TakeFlag, IInv, TypeOK
  <2>3. pc' \in [Proc -> PCs]
    BY SMTT(30) DEF TakeFlag, IInv, TypeOK, PCs, Goto
  <2> QED BY <2>1, <2>2, <2>3 DEF IInv, TypeOK, TakeFlag, procs
<1>2. Bodies'
  BY SMTT(30)
  DEF TakeFlag, IInv, Bodies, LockInv, RunInv, PcInv, InSched, Goto, On, procs
<1>3. OneStackOneCPU'
  BY SMTT(30) DEF TakeFlag, IInv, OneStackOneCPU, procs
<1>4. ClientInv'
  BY SchedAssumption, SMTT(30)
  DEF TakeFlag, IInv, TypeOK, LockInv, RunInv, ClientInv, Proc, Goto, On
<1>5. ParentInv'
  BY SMTT(30) DEF TakeFlag, IInv, ParentInv, procs
<1>6. Wakeups'
  BY SMTT(30)
  DEF TakeFlag, IInv, Wakeups, NoLostWakeup, ParentsAreWoken, procs
<1> QED BY <1>1, <1>2, <1>3, <1>4, <1>5, <1>6 DEF IInv

\* the client finds no flag and calls sleep() with its lock held.
LEMMA TakeSleepsInv ==
  ASSUME IInv, NEW c \in CPU, NEW p \in Proc, TakeSleeps(c, p) PROVE IInv'
<1>1. TypeOK'
  BY SMTT(30) DEF TakeSleeps, IInv, TypeOK, PCs, Goto, procs
<1>2. Bodies'
  BY SMTT(30)
  DEF TakeSleeps, IInv, Bodies, LockInv, RunInv, PcInv, InSched, Goto, On,
     procs
<1>3. OneStackOneCPU'
  BY SMTT(30) DEF TakeSleeps, IInv, OneStackOneCPU, procs
<1>4. ClientInv'
  BY SMTT(30) DEF TakeSleeps, IInv, ClientInv, Goto, On
<1>5. ParentInv'
  BY SMTT(30) DEF TakeSleeps, IInv, ParentInv, procs
<1>6. Wakeups'
  BY SMTT(30)
  DEF TakeSleeps, IInv, Wakeups, NoLostWakeup, ParentsAreWoken, procs
<1> QED BY <1>1, <1>2, <1>3, <1>4, <1>5, <1>6 DEF IInv

\* sleep() has both locks between them; the flag was down under the first.
LEMMA SleepInv ==
  ASSUME IInv, NEW c \in CPU, NEW p \in Proc, Sleep(c, p) PROVE IInv'
<1>1. TypeOK'
  BY SMTT(30) DEF Sleep, IInv, TypeOK, PCs, Goto
<1>2. Bodies'
  BY SchedAssumption, SMTT(30)
  DEF Sleep, IInv, TypeOK, Bodies, LockInv, RunInv, PcInv, OneStackOneCPU,
     Proc, InSched, Free, Goto, On
<1>3. OneStackOneCPU'
  BY SMTT(30) DEF Sleep, IInv, OneStackOneCPU
<1>4. ClientInv'
  BY SchedAssumption, SMTT(30)
  DEF Sleep, IInv, TypeOK, Bodies, LockInv, RunInv, PcInv, OneStackOneCPU,
     ClientInv, Proc, Q, InSched, Free, Goto, On
<1>5. ParentInv'
  BY SMTT(30) DEF Sleep, IInv, ParentInv
<1>6. Wakeups'
  BY SchedAssumption, SMTT(30)
  DEF Sleep, IInv, TypeOK, ClientInv, ParentInv, Wakeups, NoLostWakeup,
     ParentsAreWoken, Proc, Q, On
<1> QED BY <1>1, <1>2, <1>3, <1>4, <1>5, <1>6 DEF IInv

\* the end of sleep() takes the client's lock again.
LEMMA RelockInv ==
  ASSUME IInv, NEW c \in CPU, NEW p \in Proc, Relock(c, p) PROVE IInv'
<1>1. TypeOK'
  BY SMTT(30) DEF Relock, IInv, TypeOK, PCs, Goto, procs
<1>2. Bodies'
  BY SMTT(30)
  DEF Relock, IInv, Bodies, LockInv, RunInv, PcInv, InSched, Goto, On, procs
<1>3. OneStackOneCPU'
  BY SMTT(30) DEF Relock, IInv, OneStackOneCPU, procs
<1>4. ClientInv'
  BY SchedAssumption, SMTT(30)
  DEF Relock, IInv, TypeOK, OneStackOneCPU, ClientInv, Proc, Free, Goto, On
<1>5. ParentInv'
  BY SMTT(30) DEF Relock, IInv, ParentInv, procs
<1>6. Wakeups'
  BY SMTT(30)
  DEF Relock, IInv, Wakeups, NoLostWakeup, ParentsAreWoken, Free, procs
<1> QED BY <1>1, <1>2, <1>3, <1>4, <1>5, <1>6 DEF IInv

\* the client sets the flag, with its lock held until the wakeup.
LEMMA GiveEnterInv ==
  ASSUME IInv, NEW c \in CPU, NEW p \in Proc, GiveEnter(c, p) PROVE IInv'
<1>1. TypeOK'
  BY SMTT(30) DEF GiveEnter, IInv, TypeOK, PCs, Goto, procs
<1>2. Bodies'
  BY SMTT(30)
  DEF GiveEnter, IInv, Bodies, LockInv, RunInv, PcInv, InSched, Goto, On,
     procs
<1>3. OneStackOneCPU'
  BY SMTT(30) DEF GiveEnter, IInv, OneStackOneCPU, procs
<1>4. ClientInv'
  BY SchedAssumption, SMTT(30)
  DEF GiveEnter, IInv, TypeOK, OneStackOneCPU, ClientInv, Proc, Free, Goto, On
<1>5. ParentInv'
  BY SMTT(30) DEF GiveEnter, IInv, ParentInv, procs
<1>6. Wakeups'
  BY SMTT(30)
  DEF GiveEnter, IInv, ClientInv, Wakeups, NoLostWakeup, ParentsAreWoken,
     Free, On, procs
<1> QED BY <1>1, <1>2, <1>3, <1>4, <1>5, <1>6 DEF IInv

\* wakeup() makes every sleeper of the channel RUNNABLE before the lock goes.
LEMMA WakeupInv ==
  ASSUME IInv, NEW c \in CPU, NEW p \in Proc, Wakeup(c, p) PROVE IInv'
<1>1. TypeOK'
  BY SMTT(30) DEF Wakeup, IInv, TypeOK, PCs, Goto, WakeChan
<1>2. Bodies'
  BY SchedAssumption, SMTT(30)
  DEF Wakeup, IInv, TypeOK, Bodies, LockInv, RunInv, PcInv, InSched, Free,
     Goto, On, WakeChan
<1>3. OneStackOneCPU'
  BY SMTT(30) DEF Wakeup, IInv, TypeOK, OneStackOneCPU, WakeChan
<1>4. ClientInv'
  BY SchedAssumption, SMTT(30)
  DEF Wakeup, IInv, TypeOK, Bodies, LockInv, ClientInv, Proc, Goto, On
<1>5. ParentInv'
  BY SchedAssumption, SMTT(30)
  DEF Wakeup, IInv, ParentInv, Proc, initproc, Q, WakeChan
<1>6. Wakeups'
  BY SMTT(30)
  DEF Wakeup, IInv, Wakeups, NoLostWakeup, ParentsAreWoken, WakeChan
<1> QED BY <1>1, <1>2, <1>3, <1>4, <1>5, <1>6 DEF IInv

-----------------------------------------------------------------------------
\* The initial states satisfy the invariant.
LEMMA InitInv == Init => IInv
<1> SUFFICES ASSUME Init PROVE IInv
  OBVIOUS
<1>1. TypeOK
  <2>1. flag \in BOOLEAN /\ killed \in [Proc -> BOOLEAN]
    BY Zenon DEF Init
  <2>2. scan \in [CPU -> 1..NPROC + 1]
    BY SchedAssumption, SMTT(30) DEF Init
  <2> QED BY <2>1, <2>2, SMTT(30) DEF Init, TypeOK, PCs
<1>2. Bodies
  BY SchedAssumption, SMTT(30) DEF Init, Bodies, LockInv, RunInv, PcInv, Proc, initproc
<1>3. OneStackOneCPU /\ ClientInv
  BY SchedAssumption, SMTT(30) DEF Init, OneStackOneCPU, ClientInv
<1>4. ParentInv /\ Wakeups
  BY SchedAssumption, SMTT(30) DEF Init, ParentInv, Wakeups, NoLostWakeup, ParentsAreWoken,
     Proc, initproc
<1> QED BY <1>1, <1>2, <1>3, <1>4 DEF IInv

\* A step of a scheduler's loop preserves the invariant.
LEMMA LoopInv == ASSUME IInv, NEW c \in CPU, Scheduler(c) PROVE IInv'
BY SchedAcquireInv, SchedSkipInv, SchedRunInv, SchedInv DEF Scheduler

\* A step that a process takes without choosing to preserves the invariant.
LEMMA InnerInv == ASSUME IInv, NEW c \in CPU, NEW p \in Proc, Inner(c, p) PROVE IInv'
BY ResumeInv, SleepWakesInv, WaitReapInv, WaitFailsInv, WaitSleepsInv, WaitWakesInv,
   TakeFlagInv, TakeSleepsInv, SleepInv, RelockInv, WakeupInv, ForkDoneInv DEF Inner

\* A call that a process makes preserves the invariant.
LEMMA CallInv == ASSUME IInv, NEW c \in CPU, NEW p \in Proc, Call(c, p) PROVE IInv'
BY ExitInv, WaitEnterInv, TakeEnterInv, GiveEnterInv, ForkAllocInv, KillInv DEF Call

\* The invariant is inductive.
LEMMA NextInv == IInv /\ [Next]_vars => IInv'
<1> SUFFICES ASSUME IInv, [Next]_vars PROVE IInv'
  OBVIOUS
<1>1. CASE Next
  BY <1>1, LoopInv, InnerInv, YieldInv, CallInv DEF Next
<1>2. CASE UNCHANGED vars
  BY <1>2 DEF vars, procs, IInv, TypeOK, Bodies, LockInv, RunInv, PcInv, OneStackOneCPU, ClientInv,
     ParentInv, Wakeups, NoLostWakeup, ParentsAreWoken, Zombies
<1> QED BY <1>1, <1>2

\* Every reachable state satisfies the invariant.
THEOREM Invariance == Spec => []IInv
BY InitInv, NextInv, PTL DEF Spec

\* The fields of struct proc and of struct cpu keep their types, p of
\* scheduler() the range of its loop.
THEOREM TypeCorrect == Spec => []TypeOK
BY Invariance, PTL DEF IInv

\* No two processors run on one kernel stack, and none on the stack of a
\* process that wait() has reaped: sleep, yield and exit keep ptable.lock
\* until swtch has left the stack.
THEOREM StackHasOneCPU == Spec => []OneStackOneCPU
BY Invariance, PTL DEF IInv

\* sched() finds ptable.lock held and no other lock: sleep has given the
\* client's lock back, and who calls exit, wait or yield has none.
THEOREM SchedIsSafe == Spec => []SchedNeverPanics
<1>1. IInv => SchedNeverPanics
  BY SchedAssumption, SMTT(30)
  DEF IInv, Bodies, LockInv, ClientInv, SchedNeverPanics, InSched, Proc
<1> QED BY <1>1, Invariance, PTL

\* A wakeup of the channel is not lost, whoever runs between the test of the
\* flag and the sleep: sleep takes ptable.lock before it gives lk back.
THEOREM WakeupsAreNotLost == Spec => []NoLostWakeup
BY Invariance, PTL DEF IInv, Wakeups

\* A parent in wait() does not sleep through the exit of a child, nor init
\* through the exit of a process that leaves it a dead child.
THEOREM ParentsAreNotLeft == Spec => []ParentsAreWoken
BY Invariance, PTL DEF IInv, Wakeups
=============================================================================
