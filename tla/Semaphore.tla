----------------------------- MODULE Semaphore -----------------------------
(***************************************************************************)
(* One kernel semaphore of lab06: struct semaphore and sem_wait, sem_post  *)
(* (lab06/src/file.c), used by the processes Proc through the system       *)
(* calls of the same name.  count and tokens are only touched while the    *)
(* semaphore's spinlock is held, so a process is at one of the points      *)
(* where it takes that lock, holds it, or sleeps on the channel &s->q.     *)
(*                                                                         *)
(* sleep() is used as one step: it gives up the lock and puts the process  *)
(* on the channel at once.  Module Scheduler models sleep() and wakeup()   *)
(* of proc.c line by line and shows that this is what they do.             *)
(***************************************************************************)
EXTENDS Integers, FiniteSets

CONSTANTS Proc,      \* the processes that share the semaphore
          NoProc,    \* the value of lock when nobody holds it
          InitCount, \* the n of sem_init(sn, n)
          MaxPosts,  \* bound: sem_post calls in a behaviour
          MaxWaits,  \* bound: sem_wait calls in a behaviour
          MaxKills   \* bound: kill() calls that find a process asleep

ASSUME SemAssumption ==
  /\ IsFiniteSet(Proc) /\ NoProc \notin Proc
  /\ InitCount \in Nat
  /\ MaxPosts \in Nat /\ MaxWaits \in Nat /\ MaxKills \in Nat

VARIABLES
  lock,    \* the holder of s->lock, or NoProc
  count,   \* s->count: tokens minus processes inside sem_wait
  tokens,  \* s->tokens
  asleep,  \* the processes SLEEPING on the channel &s->q
  pc,      \* where each process is
  posts, waits, kills   \* calls made so far

vars == <<lock, count, tokens, asleep, pc, posts, waits, kills>>

\* "out": in user code.  "test": in sem_wait, holding the lock, at the while.
\* "slept": in sem_wait, inside sleep().  "wake": in sem_post, holding the
\* lock, about to test count.
PCs == {"out", "test", "slept", "wake"}

Waiters == {p \in Proc : pc[p] \in {"test", "slept"}}

Goto(p, l) == pc' = [pc EXCEPT ![p] = l]

Init ==
  /\ lock = NoProc
  /\ count = InitCount /\ tokens = InitCount
  /\ asleep = {}
  /\ pc = [p \in Proc |-> "out"]
  /\ posts = 0 /\ waits = 0 /\ kills = 0

-----------------------------------------------------------------------------
(* The two tests of the code, and how they are easily got wrong. *)

NoToken == tokens < 1

\* if (s->count <= 0): after the increment there is someone waiting
SomeoneWaiting_Strict == count < 0
SomeoneWaiting == count <= 0

-----------------------------------------------------------------------------
(* sem_wait *)

\* acquire(&s->lock); s->count--
WaitEnter(p) ==
  /\ pc[p] = "out" /\ lock = NoProc /\ waits < MaxWaits
  /\ lock' = p /\ count' = count - 1 /\ waits' = waits + 1
  /\ Goto(p, "test")
  /\ UNCHANGED <<tokens, asleep, posts, kills>>

\* while (s->tokens < 1) sleep(&s->q, &s->lock)
WaitSleep(p) ==
  /\ pc[p] = "test" /\ NoToken
  /\ lock' = NoProc /\ asleep' = asleep \cup {p}
  /\ Goto(p, "slept")
  /\ UNCHANGED <<count, tokens, posts, waits, kills>>

\* the end of sleep(): runnable again, acquire(lk), back to the while
WaitResume(p) ==
  /\ pc[p] = "slept" /\ p \notin asleep /\ lock = NoProc
  /\ lock' = p
  /\ Goto(p, "test")
  /\ UNCHANGED <<count, tokens, asleep, posts, waits, kills>>

WaitTake_KeepsToken(p) ==
  /\ pc[p] = "test" /\ ~NoToken
  /\ lock' = NoProc
  /\ Goto(p, "out")
  /\ UNCHANGED <<count, tokens, asleep, posts, waits, kills>>

\* s->tokens--; release(&s->lock)
WaitTake(p) ==
  /\ pc[p] = "test" /\ ~NoToken
  /\ tokens' = tokens - 1 /\ lock' = NoProc
  /\ Goto(p, "out")
  /\ UNCHANGED <<count, asleep, posts, waits, kills>>

-----------------------------------------------------------------------------
(* sem_post *)

\* acquire(&s->lock); s->count++; s->tokens++
PostEnter(p) ==
  /\ pc[p] = "out" /\ lock = NoProc /\ posts < MaxPosts
  /\ lock' = p /\ count' = count + 1 /\ tokens' = tokens + 1
  /\ posts' = posts + 1
  /\ Goto(p, "wake")
  /\ UNCHANGED <<asleep, waits, kills>>

\* if (s->count <= 0) wakeup(&s->q); release(&s->lock).  wakeup() makes every
\* process that sleeps on the channel runnable.
PostWake(p) ==
  /\ pc[p] = "wake"
  /\ asleep' = IF SomeoneWaiting THEN {} ELSE asleep
  /\ lock' = NoProc
  /\ Goto(p, "out")
  /\ UNCHANGED <<count, tokens, posts, waits, kills>>

\* kill(pid) makes a sleeping process runnable whatever it sleeps for; it
\* stays inside sem_wait, which never looks at proc->killed.
Kill(p) ==
  /\ p \in asleep /\ kills < MaxKills
  /\ asleep' = asleep \ {p} /\ kills' = kills + 1
  /\ UNCHANGED <<lock, count, tokens, pc, posts, waits>>

-----------------------------------------------------------------------------
Wait(p) == WaitEnter(p) \/ WaitSleep(p) \/ WaitResume(p) \/ WaitTake(p)
Post(p) == PostEnter(p) \/ PostWake(p)

Next == \E p \in Proc : Wait(p) \/ Post(p) \/ Kill(p)

Spec == Init /\ [][Next]_vars

\* A process inside a system call is scheduled again and again: the run queue
\* is scanned in order (scheduler() in proc.c) and spinlocks are held for a
\* few instructions.  Nothing forces a process to make a call.
InCall(p) == WaitSleep(p) \/ WaitResume(p) \/ WaitTake(p) \/ PostWake(p)
FairSpec == Spec /\ \A p \in Proc : WF_vars(InCall(p))
-----------------------------------------------------------------------------
TypeOK ==
  /\ lock \in Proc \cup {NoProc}
  /\ count \in Int /\ tokens \in Nat
  /\ asleep \in SUBSET Proc
  /\ pc \in [Proc -> PCs]
  /\ posts \in 0..MaxPosts /\ waits \in 0..MaxWaits /\ kills \in 0..MaxKills

\* The spinlock protects the two counters: whoever is past acquire holds it.
LockInv == \A p \in Proc : pc[p] \in {"test", "wake"} <=> lock = p

\* count can be negative: it is the tokens left once every process that is
\* inside sem_wait has taken one (the comment on sem_post's test, "there is
\* someone waiting", relies on it).
CountInv == tokens = count + Cardinality(Waiters)

\* No lost wakeup: when nobody is in the middle of sem_post, a process can be
\* asleep on the channel only while there is no token to take.
NoLostWakeup ==
  asleep # {} => \/ tokens = 0
                 \/ \E p \in Proc : pc[p] = "wake" /\ SomeoneWaiting

\* Only a process inside sleep() is on the channel.
AsleepInv == \A p \in asleep : pc[p] = "slept"

\* What the semaphore promises (module CountingSemaphore): the tokens are the
\* permits, and a call of sem_wait is pending until it has taken one.
Abstract == INSTANCE CountingSemaphore WITH permits <- tokens, waiting <- Waiters

\* sem_wait and sem_post implement the promise, and under fair scheduling no
\* token stays unused while a process waits for one: a post reaches somebody.
Implements == Abstract!FairSpec
=============================================================================
