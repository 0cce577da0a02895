----------------------------- MODULE Scheduler -----------------------------
(***************************************************************************)
(* Processes and processors of xv6 (lab06/xv6-cond-martino/proc.c): the    *)
(* per-CPU scheduler, sched, yield, sleep, wakeup, kill, fork, exit and    *)
(* wait.  ptable.lock is the interesting part: the process that calls      *)
(* sched holds it, the scheduler it switches to (or the next process that  *)
(* scheduler picks) releases it.                                           *)
(*                                                                         *)
(* So that sleep and wakeup have something to do, the processes also share *)
(* one spinlock lk and a flag that it protects, used the way semaphores    *)
(* and conditions use theirs: wait for the flag and take it, or set it and *)
(* wake the channel Q.                                                     *)
(***************************************************************************)
EXTENDS Integers, FiniteSets

CONSTANTS CPU,    \* the processors
          NPROC,  \* the slots of ptable.proc; slot 1 is initproc
          MaxKilled,  \* bound: slots marked killed at a time
          Nobody  \* no holder, no process, no channel

ASSUME SchedAssumption ==
  /\ NPROC \in Nat \ {0} /\ Nobody \notin CPU \cup (0..NPROC) /\ CPU # {}
  /\ MaxKilled \in Nat

Proc == 1..NPROC
initproc == 1
Q == 0  \* the channel of the flag; wait() sleeps on the parent itself

VARIABLES
  ptlock, lk,   \* the CPU that holds ptable.lock, and the client's lock
  flag,         \* what the client's lock protects
  state, chan, parent, killed,  \* fields of struct proc
  pc,           \* where each process continues
  runs,         \* whose stack each CPU is on: a process, or its scheduler's
  scan          \* p of each scheduler's loop; NPROC + 1: lock not held

procs == <<state, chan, parent, killed>>
vars  == <<ptlock, lk, flag, procs, pc, runs, scan>>

\* Where a process can be.  "user": outside the kernel.  "forkret", "yield",
\* "slept", "waited", "dead": has called sched() (or was never run), holds
\* ptable.lock when it goes on.  "wait": in wait(), holding ptable.lock.
\* "forking": has an EMBRYO child.  "test", "wake": holds lk, about to test
\* the flag or to call wakeup.  "sleep": in sleep(), wants ptable.lock.
\* "relock": at the end of sleep(), wants lk.
PCs == {"user", "forkret", "yield", "slept", "waited", "dead", "wait",
        "forking", "test", "wake", "sleep", "relock"}
InSched == {"yield", "slept", "waited", "dead"}

Goto(p, l) == pc' = [pc EXCEPT ![p] = l]
Free(lock) == lock = Nobody

Init ==
  /\ ptlock = Nobody /\ lk = Nobody /\ flag = FALSE
  /\ state = [p \in Proc |-> IF p = initproc THEN "RUNNABLE" ELSE "UNUSED"]
  /\ chan = [p \in Proc |-> Nobody] /\ parent = [p \in Proc |-> Nobody]
  /\ killed = [p \in Proc |-> FALSE]
  /\ pc = [p \in Proc |-> "forkret"]
  /\ runs = [c \in CPU |-> Nobody]
  /\ scan = [c \in CPU |-> NPROC + 1]

\* wakeup1(ch) applied to the states s
WakeChan(s, ch) ==
  [p \in Proc |-> IF s[p] = "SLEEPING" /\ chan[p] = ch THEN "RUNNABLE" ELSE s[p]]

-----------------------------------------------------------------------------
(* scheduler() on CPU c *)

SchedAcquire(c) ==
  /\ runs[c] = Nobody /\ scan[c] = NPROC + 1 /\ Free(ptlock)
  /\ ptlock' = c /\ scan' = [scan EXCEPT ![c] = 1]
  /\ UNCHANGED <<lk, flag, procs, pc, runs>>

SchedSkip(c) ==
  /\ runs[c] = Nobody /\ scan[c] \in Proc /\ state[scan[c]] # "RUNNABLE"
  /\ scan' = [scan EXCEPT ![c] = @ + 1]
  /\ ptlock' = IF scan[c] = NPROC THEN Nobody ELSE ptlock
  /\ UNCHANGED <<lk, flag, procs, pc, runs>>

\* p->state = RUNNING; swtch: the process goes on, with the lock held
SchedRun(c) ==
  /\ runs[c] = Nobody /\ scan[c] \in Proc /\ state[scan[c]] = "RUNNABLE"
  /\ runs' = [runs EXCEPT ![c] = scan[c]]
  /\ state' = [state EXCEPT ![scan[c]] = "RUNNING"]
  /\ UNCHANGED <<ptlock, lk, flag, chan, parent, killed, pc, scan>>

\* sched() in a process: back to the scheduler's loop, at the next p
Sched(c) ==
  /\ runs[c] \in Proc /\ pc[runs[c]] \in InSched /\ state[runs[c]] # "RUNNING"
  /\ runs' = [runs EXCEPT ![c] = Nobody]
  /\ scan' = [scan EXCEPT ![c] = @ + 1]
  /\ ptlock' = IF scan[c] = NPROC THEN Nobody ELSE ptlock
  /\ UNCHANGED <<lk, flag, procs, pc>>

-----------------------------------------------------------------------------
(* A process p that CPU c runs.                                             *)

On(c, p, l) == runs[c] = p /\ state[p] = "RUNNING" /\ pc[p] = l

\* forkret, and the end of yield: release ptable.lock
Resume(c, p) ==
  /\ On(c, p, "forkret") \/ On(c, p, "yield")
  /\ ptlock' = Nobody /\ Goto(p, "user")
  /\ UNCHANGED <<lk, flag, procs, runs, scan>>

\* the end of sleep, before it takes the caller's lock again
SleepWakes(c, p) ==
  /\ On(c, p, "slept")
  /\ ptlock' = Nobody /\ Goto(p, "relock")
  /\ chan' = [chan EXCEPT ![p] = Nobody]
  /\ UNCHANGED <<lk, flag, state, parent, killed, runs, scan>>

\* the timer interrupt in user space
Yield(c, p) ==
  /\ On(c, p, "user") /\ Free(ptlock)
  /\ ptlock' = c /\ state' = [state EXCEPT ![p] = "RUNNABLE"] /\ Goto(p, "yield")
  /\ UNCHANGED <<lk, flag, chan, parent, killed, runs, scan>>

\* allocproc takes an UNUSED slot under the lock
ForkAlloc(c, p, q) ==
  /\ On(c, p, "user") /\ Free(ptlock) /\ state[q] = "UNUSED"
  /\ \A r \in Proc : state[r] = "UNUSED" => q <= r
  /\ state' = [state EXCEPT ![q] = "EMBRYO"]
  /\ parent' = [parent EXCEPT ![q] = p]
  /\ pc' = [pc EXCEPT ![p] = "forking", ![q] = "forkret"]
  /\ UNCHANGED <<ptlock, lk, flag, chan, killed, runs, scan>>

\* the rest of fork, without the lock: the child becomes RUNNABLE, or kalloc
\* or copyuvm fails and the slot is given back (np->parent is set in between
\* by fork, but nobody looks at it before the child is a ZOMBIE)
ForkDone(c, p, q) ==
  /\ On(c, p, "forking") /\ state[q] = "EMBRYO" /\ parent[q] = p
  /\ \/ state' = [state EXCEPT ![q] = "RUNNABLE"] /\ UNCHANGED parent
     \/ state' = [state EXCEPT ![q] = "UNUSED"]
        /\ parent' = [parent EXCEPT ![q] = Nobody]
  /\ Goto(p, "user")
  /\ UNCHANGED <<ptlock, lk, flag, chan, killed, runs, scan>>

\* exit, after the files are closed: wake the parent, pass the children to
\* init (and wake it if one of them is dead), become a ZOMBIE
Orphans(p) == {q \in Proc : parent[q] = p}

Adopt(p) == [q \in Proc |-> IF q \in Orphans(p) THEN initproc ELSE parent[q]]

\* the parent woken, init forgotten
ExitWakes_ParentOnly(p) == WakeChan(state, parent[p])

ExitWakes(p) ==
  LET woken == WakeChan(state, parent[p])
  IN  IF \E q \in Orphans(p) : state[q] = "ZOMBIE"
      THEN WakeChan(woken, initproc) ELSE woken

\* ZOMBIE without ptable.lock, the stack still in use
Exit_NoLock(c, p) ==
  /\ On(c, p, "user") /\ p # initproc
  /\ parent' = Adopt(p) /\ state' = [ExitWakes(p) EXCEPT ![p] = "ZOMBIE"]
  /\ Goto(p, "dead")
  /\ UNCHANGED <<ptlock, lk, flag, chan, killed, runs, scan>>

Exit(c, p) ==
  /\ On(c, p, "user") /\ p # initproc /\ Free(ptlock)
  /\ ptlock' = c
  /\ parent' = Adopt(p) /\ state' = [ExitWakes(p) EXCEPT ![p] = "ZOMBIE"]
  /\ Goto(p, "dead")
  /\ UNCHANGED <<lk, flag, chan, killed, runs, scan>>

Zombies(p) == {q \in Proc : parent[q] = p /\ state[q] = "ZOMBIE"}

WaitEnter(c, p) ==
  /\ On(c, p, "user") /\ Free(ptlock)
  /\ ptlock' = c /\ Goto(p, "wait")
  /\ UNCHANGED <<lk, flag, procs, runs, scan>>

\* a dead child: free its stack and its slot
WaitReap(c, p) ==
  /\ On(c, p, "wait")
  /\ \E q \in Zombies(p) :
       /\ state' = [state EXCEPT ![q] = "UNUSED"]
       /\ parent' = [parent EXCEPT ![q] = Nobody]
       /\ killed' = [killed EXCEPT ![q] = FALSE]
  /\ ptlock' = Nobody /\ Goto(p, "user")
  /\ UNCHANGED <<lk, flag, chan, runs, scan>>

\* no children, or killed: return -1
WaitFails(c, p) ==
  /\ On(c, p, "wait") /\ Zombies(p) = {}
  /\ killed[p] \/ \A q \in Proc : parent[q] # p
  /\ ptlock' = Nobody /\ Goto(p, "user")
  /\ UNCHANGED <<lk, flag, procs, runs, scan>>

\* sleep(proc, &ptable.lock)
WaitSleeps(c, p) ==
  /\ On(c, p, "wait") /\ Zombies(p) = {}
  /\ ~killed[p] /\ \E q \in Proc : parent[q] = p
  /\ state' = [state EXCEPT ![p] = "SLEEPING"]
  /\ chan' = [chan EXCEPT ![p] = p]
  /\ Goto(p, "waited")
  /\ UNCHANGED <<ptlock, lk, flag, parent, killed, runs, scan>>

\* woken in wait(): the lock is already held
WaitWakes(c, p) ==
  /\ On(c, p, "waited")
  /\ chan' = [chan EXCEPT ![p] = Nobody] /\ Goto(p, "wait")
  /\ UNCHANGED <<ptlock, lk, flag, state, parent, killed, runs, scan>>

\* kill: an UNUSED slot too can answer, by the pid of a fork that failed or
\* by pid 0; a second kill changes nothing, init is not killed
Kill(c, p, q) ==
  /\ On(c, p, "user") /\ Free(ptlock)
  /\ q # initproc /\ ~killed[q]
  /\ Cardinality({r \in Proc : killed[r]}) < MaxKilled
  /\ killed' = [killed EXCEPT ![q] = TRUE]
  /\ state' = [state EXCEPT ![q] = IF @ = "SLEEPING" THEN "RUNNABLE" ELSE @]
  /\ UNCHANGED <<ptlock, lk, flag, chan, parent, pc, runs, scan>>

-----------------------------------------------------------------------------
(* The client: acquire(&lk); while (!flag) sleep(Q, &lk); flag = 0; release *)
(* and: acquire(&lk); flag = 1; wakeup(Q); release(&lk).                    *)

TakeEnter(c, p) ==
  /\ On(c, p, "user") /\ Free(lk)
  /\ lk' = c /\ Goto(p, "test")
  /\ UNCHANGED <<ptlock, flag, procs, runs, scan>>

TakeFlag(c, p) ==
  /\ On(c, p, "test") /\ flag
  /\ flag' = FALSE /\ lk' = Nobody /\ Goto(p, "user")
  /\ UNCHANGED <<ptlock, procs, runs, scan>>

TakeSleeps(c, p) ==
  /\ On(c, p, "test") /\ ~flag /\ Goto(p, "sleep")
  /\ UNCHANGED <<ptlock, lk, flag, procs, runs, scan>>

\* the lock of the client given up before ptable.lock is held
Sleep_ReleaseFirst(c, p) ==
  /\ \/ On(c, p, "sleep") /\ lk = c /\ lk' = Nobody /\ UNCHANGED <<ptlock, state, chan, pc>>
     \/ On(c, p, "sleep") /\ lk # c /\ Free(ptlock) /\ ptlock' = c
        /\ state' = [state EXCEPT ![p] = "SLEEPING"]
        /\ chan' = [chan EXCEPT ![p] = Q] /\ Goto(p, "slept") /\ UNCHANGED lk
  /\ UNCHANGED <<flag, parent, killed, runs, scan>>

\* the client's lock kept while asleep
Sleep_KeepsLock(c, p) ==
  /\ On(c, p, "sleep") /\ Free(ptlock)
  /\ ptlock' = c
  /\ state' = [state EXCEPT ![p] = "SLEEPING"]
  /\ chan' = [chan EXCEPT ![p] = Q]
  /\ Goto(p, "slept")
  /\ UNCHANGED <<lk, flag, parent, killed, runs, scan>>

\* sleep(Q, &lk): acquire(&ptable.lock); release(lk); SLEEPING; sched()
Sleep(c, p) ==
  /\ On(c, p, "sleep") /\ Free(ptlock)
  /\ ptlock' = c /\ lk' = Nobody
  /\ state' = [state EXCEPT ![p] = "SLEEPING"]
  /\ chan' = [chan EXCEPT ![p] = Q]
  /\ Goto(p, "slept")
  /\ UNCHANGED <<flag, parent, killed, runs, scan>>

Relock(c, p) ==
  /\ On(c, p, "relock") /\ Free(lk)
  /\ lk' = c /\ Goto(p, "test")
  /\ UNCHANGED <<ptlock, flag, procs, runs, scan>>

GiveEnter(c, p) ==
  /\ On(c, p, "user") /\ Free(lk)
  /\ lk' = c /\ flag' = TRUE /\ Goto(p, "wake")
  /\ UNCHANGED <<ptlock, procs, runs, scan>>

\* wakeup(Q), then release(&lk)
Wakeup(c, p) ==
  /\ On(c, p, "wake") /\ Free(ptlock)
  /\ state' = WakeChan(state, Q) /\ lk' = Nobody /\ Goto(p, "user")
  /\ UNCHANGED <<ptlock, flag, chan, parent, killed, runs, scan>>

-----------------------------------------------------------------------------
Scheduler(c) == SchedAcquire(c) \/ SchedSkip(c) \/ SchedRun(c) \/ Sched(c)

\* the kernel's own steps, which a process takes without choosing to
Inner(c, p) ==
  \/ Resume(c, p) \/ SleepWakes(c, p)
  \/ WaitReap(c, p) \/ WaitFails(c, p) \/ WaitSleeps(c, p) \/ WaitWakes(c, p)
  \/ TakeFlag(c, p) \/ TakeSleeps(c, p) \/ Sleep(c, p) \/ Relock(c, p) \/ Wakeup(c, p)
  \/ \E q \in Proc : ForkDone(c, p, q)

\* what a process may ask for; a killed one as well, since the kill can land
\* after the check that trap() makes on the way in
Call(c, p) ==
  \/ Exit(c, p) \/ WaitEnter(c, p) \/ TakeEnter(c, p) \/ GiveEnter(c, p)
  \/ \E q \in Proc : ForkAlloc(c, p, q) \/ Kill(c, p, q)

Next ==
  \E c \in CPU :
    \/ Scheduler(c)
    \/ \E p \in Proc : Inner(c, p) \/ Yield(c, p) \/ Call(c, p)

Spec == Init /\ [][Next]_vars
-----------------------------------------------------------------------------
\* The types of the state, over the fields of struct proc and struct cpu.
TypeOK ==
  /\ ptlock \in CPU \cup {Nobody} /\ lk \in CPU \cup {Nobody} /\ flag \in BOOLEAN
  /\ state \in [Proc -> {"UNUSED", "EMBRYO", "SLEEPING", "RUNNABLE", "RUNNING",
                         "ZOMBIE"}]
  /\ chan \in [Proc -> Proc \cup {Nobody, Q}]
  /\ parent \in [Proc -> Proc \cup {Nobody}]
  /\ killed \in [Proc -> BOOLEAN]
  /\ pc \in [Proc -> PCs]
  /\ runs \in [CPU -> Proc \cup {Nobody}]
  /\ scan \in [CPU -> 1..NPROC + 1]

\* A kernel stack is used by one processor at a time, and never after wait()
\* has freed it: nobody runs a process that is still switching away.
OneStackOneCPU ==
  /\ \A c, d \in CPU : runs[c] = runs[d] /\ runs[c] # Nobody => c = d
  /\ \A c \in CPU : runs[c] # Nobody => state[runs[c]] \notin {"UNUSED", "EMBRYO"}

\* The panics of sched() cannot happen: whoever calls it holds ptable.lock,
\* and no other lock (cpu->ncli == 1).
SchedNeverPanics ==
  \A c \in CPU : \A p \in Proc :
    runs[c] = p /\ pc[p] \in InSched => ptlock = c /\ lk # c

\* No lost wakeup: when nobody holds the client's lock and the flag is set,
\* nobody sleeps on the channel.
NoLostWakeup == lk = Nobody /\ flag => \A p \in Proc :
                  ~(state[p] = "SLEEPING" /\ chan[p] = Q)

\* A parent that sleeps in wait() has no dead child: an exit wakes it, also
\* when it is init that inherits a child already dead.
ParentsAreWoken ==
  \A p, q \in Proc :
    state[p] = "ZOMBIE" /\ parent[p] = q => ~(state[q] = "SLEEPING" /\ chan[q] = q)
=============================================================================
