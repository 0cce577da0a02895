----------------------------- MODULE Condition -----------------------------
(***************************************************************************)
(* One kernel condition variable of lab06: struct condition and the        *)
(* functions cond_* of lab06/src/file.c.  A condition carries its own      *)
(* mutex (cond_lock, cond_unlock), an integer value (cond_set, cond_get)   *)
(* and a stock of resurrection tokens that decide which of the processes   *)
(* woken on the channel &c->q may leave cond_wait.                         *)
(*                                                                         *)
(* Every function runs under the spinlock c->lock and only sleep() gives   *)
(* that lock up, so an action is a stretch of code from acquire() or from  *)
(* the return of sleep() to the next sleep() or release().                 *)
(***************************************************************************)
EXTENDS Integers, FiniteSets

CONSTANTS Proc,        \* the processes that share the condition
          Values,      \* what the clients store with cond_set
          Disciplined  \* TRUE: only the owner of the mutex unlocks or waits

ASSUME CondAssumption ==
  IsFiniteSet(Proc) /\ Disciplined \in BOOLEAN

VARIABLES
  ref,      \* c->ref: the slot is assigned
  locked,   \* c->locked
  count,    \* c->count
  tokens,   \* c->resurrection_token
  value,    \* c->value
  onQ, onM, \* the processes SLEEPING on the channels &c->q and &c->m
  pc,       \* where each process is, see PCs
  owner     \* the processes whose last lock or wait returned and that have
            \* not unlocked since: what the clients believe (history)

vars == <<ref, locked, count, tokens, value, onQ, onM, pc, owner>>

\* "out": in user code.  "lock": in the while of cond_lock.  "token": in the
\* first while of cond_wait.  "relock": in its second while.
PCs == {"out", "lock", "token", "relock"}

Waiting == {p \in Proc : pc[p] = "token"}
Inside  == {p \in Proc : pc[p] # "out"}

Goto(p, l) == pc' = [pc EXCEPT ![p] = l]

Init ==
  /\ ref = FALSE /\ locked = FALSE
  /\ count = 0 /\ tokens = 0
  /\ value \in Values
  /\ onQ = {} /\ onM = {}
  /\ pc = [p \in Proc |-> "out"]
  /\ owner = {}

-----------------------------------------------------------------------------
(* Allocation.  The clients (cond_test.c) use a condition only between      *)
(* alloc and destroy, and destroy it when nobody is inside; value survives. *)

Alloc ==
  /\ ~ref
  /\ ref' = TRUE /\ count' = 0 /\ tokens' = 0 /\ locked' = FALSE
  /\ owner' = {}
  /\ UNCHANGED <<value, onQ, onM, pc>>

Destroy ==
  /\ ref /\ Inside = {}
  /\ ref' = FALSE
  /\ UNCHANGED <<locked, count, tokens, value, onQ, onM, pc, owner>>

Call(p) == ref /\ pc[p] = "out"

-----------------------------------------------------------------------------
(* The mutex *)

\* an if where the code has a while: once woken, the lock is taken
TakeMutex_If(p, here) ==
  \/ /\ locked /\ pc[p] # here
     /\ onM' = onM \cup {p} /\ Goto(p, here)
     /\ UNCHANGED <<locked, owner>>
  \/ /\ ~locked \/ pc[p] = here
     /\ locked' = TRUE /\ owner' = owner \cup {p} /\ Goto(p, "out")
     /\ UNCHANGED onM

\* while (c->locked) sleep(&c->m, &c->lock); c->locked = 1
TakeMutex(p, here) ==
  \/ /\ locked
     /\ onM' = onM \cup {p} /\ Goto(p, here)
     /\ UNCHANGED <<locked, owner>>
  \/ /\ ~locked
     /\ locked' = TRUE /\ owner' = owner \cup {p} /\ Goto(p, "out")
     /\ UNCHANGED onM

Lock(p) ==
  /\ Call(p) /\ (Disciplined => p \notin owner)
  /\ TakeMutex(p, "lock")
  /\ UNCHANGED <<ref, count, tokens, value, onQ>>

LockWakes(p) ==
  /\ pc[p] = "lock" /\ p \notin onM
  /\ TakeMutex(p, "lock")
  /\ UNCHANGED <<ref, count, tokens, value, onQ>>

Unlock_WakesNobody(p) ==
  /\ Call(p) /\ (Disciplined => p \in owner)
  /\ locked' = FALSE
  /\ owner' = owner \ {p}
  /\ UNCHANGED <<ref, count, tokens, value, onQ, onM, pc>>

\* if (c->locked) { c->locked = 0; wakeup(&c->m); }
Unlock(p) ==
  /\ Call(p) /\ (Disciplined => p \in owner)
  /\ locked' = FALSE
  /\ onM' = IF locked THEN {} ELSE onM
  /\ owner' = owner \ {p}
  /\ UNCHANGED <<ref, count, tokens, value, onQ, pc>>

-----------------------------------------------------------------------------
(* Waiting and waking *)

\* count++, unlock, then the first while: either there is no token and the
\* process sleeps, or there is one, left by a signal that another waiter has
\* not yet answered; it is taken, and the mutex just unlocked is taken back.
WaitEnter(p) ==
  /\ Call(p) /\ (Disciplined => p \in owner)
  /\ \/ /\ tokens = 0
        /\ count' = count + 1
        /\ onQ' = onQ \cup {p} /\ Goto(p, "token")
        /\ locked' = FALSE /\ owner' = owner \ {p}
        /\ UNCHANGED tokens
     \/ /\ tokens # 0
        /\ tokens' = tokens - 1
        /\ locked' = TRUE /\ owner' = owner \cup {p}
        /\ UNCHANGED <<count, onQ, pc>>
  /\ onM' = IF locked THEN {} ELSE onM
  /\ UNCHANGED <<ref, value>>

\* woken on &c->q, but somebody else took the token
WaitSleepsAgain(p) ==
  /\ pc[p] = "token" /\ p \notin onQ /\ tokens = 0
  /\ onQ' = onQ \cup {p}
  /\ UNCHANGED <<ref, locked, count, tokens, value, onM, pc, owner>>

\* woken on &c->q with a token to take: then the second while
WaitTakes(p) ==
  /\ pc[p] = "token" /\ p \notin onQ /\ tokens # 0
  /\ tokens' = tokens - 1 /\ count' = count - 1
  /\ TakeMutex(p, "relock")
  /\ UNCHANGED <<ref, value, onQ>>

\* woken on &c->m in the second while
WaitRelocks(p) ==
  /\ pc[p] = "relock" /\ p \notin onM
  /\ TakeMutex(p, "relock")
  /\ UNCHANGED <<ref, count, tokens, value, onQ>>

Signal_NoCap(p) ==
  /\ Call(p)
  /\ IF count > 0 THEN tokens' = tokens + 1 /\ onQ' = {}
                  ELSE UNCHANGED <<tokens, onQ>>
  /\ UNCHANGED <<ref, locked, count, value, onM, pc, owner>>

\* at most as many tokens as processes waiting
Signal(p) ==
  /\ Call(p)
  /\ \/ /\ count > 0
        /\ tokens' = IF count > tokens THEN tokens + 1 ELSE tokens
        /\ onQ' = {}
     \/ /\ ~(count > 0)
        /\ UNCHANGED <<tokens, onQ>>
  /\ UNCHANGED <<ref, locked, count, value, onM, pc, owner>>

\* tokens for everybody, wakeup() forgotten
Broadcast_Silent(p) ==
  /\ Call(p)
  /\ tokens' = IF count > 0 THEN count ELSE tokens
  /\ UNCHANGED <<ref, locked, count, value, onQ, onM, pc, owner>>

Broadcast(p) ==
  /\ Call(p)
  /\ \/ /\ count > 0
        /\ tokens' = count
        /\ onQ' = {}
     \/ /\ ~(count > 0)
        /\ UNCHANGED <<tokens, onQ>>
  /\ UNCHANGED <<ref, locked, count, value, onM, pc, owner>>

\* cond_set; cond_get changes nothing
Set(p, v) ==
  /\ Call(p)
  /\ value' = v
  /\ UNCHANGED <<ref, locked, count, tokens, onQ, onM, pc, owner>>

\* kill() makes a sleeping process runnable; the loops put it back to sleep.
Kill(p) ==
  /\ p \in onQ \cup onM
  /\ onQ' = onQ \ {p} /\ onM' = onM \ {p}
  /\ UNCHANGED <<ref, locked, count, tokens, value, pc, owner>>

-----------------------------------------------------------------------------
\* The steps of a process that is inside the kernel.
Continue(p) == \/ LockWakes(p) \/ WaitSleepsAgain(p)
               \/ WaitTakes(p) \/ WaitRelocks(p)

Mutex(p) == Lock(p) \/ Unlock(p)
Wake(p)  == Signal(p) \/ Broadcast(p)

Next ==
  \/ Alloc \/ Destroy
  \/ \E p \in Proc : \/ Mutex(p) \/ WaitEnter(p) \/ Wake(p)
                     \/ Continue(p) \/ Kill(p)
                     \/ \E v \in Values : Set(p, v)

Spec == Init /\ [][Next]_vars

\* A runnable process is scheduled again and again (scheduler() in proc.c).
FairSpec == Spec /\ \A p \in Proc : WF_vars(Continue(p))
-----------------------------------------------------------------------------
TypeOK ==
  /\ ref \in BOOLEAN /\ locked \in BOOLEAN
  /\ count \in Nat /\ tokens \in Nat /\ value \in Values
  /\ onQ \in SUBSET Proc /\ onM \in SUBSET Proc
  /\ pc \in [Proc -> PCs]
  /\ owner \in SUBSET Proc

\* count is "how many processes waiting on condition variable" (file.c:29),
\* and no call sequence makes more tokens than there are processes to use
\* them: a signal to nobody leaves nothing behind.
TokenInv ==
  /\ count = Cardinality(Waiting)
  /\ tokens <= count

\* No lost wakeup on either channel: nobody sleeps for a token while there is
\* one, and nobody sleeps for the mutex while it is free.
NoLostWakeup ==
  /\ onQ # {} => tokens = 0
  /\ onM # {} => locked

\* The channels hold exactly processes that are inside the matching while.
ChannelInv ==
  /\ \A p \in onQ : pc[p] = "token"
  /\ \A p \in onM : pc[p] \in {"lock", "relock"}

\* A slot that is not assigned has nobody inside.
RefInv == ~ref => Inside = {}

\* Mutual exclusion: with clients that unlock and wait only while they own
\* the mutex, at most one process is between cond_lock (or the return of
\* cond_wait) and its next cond_unlock or cond_wait, and locked says so.
MutexInv ==
  Disciplined =>
    /\ \A p, q \in owner : p = q
    /\ locked <=> owner # {}

\* Tokens and a free mutex reach somebody: they do not stay available while
\* the same processes go on waiting for them.
MutexWaiters == {p \in Proc : pc[p] \in {"lock", "relock"}}
TokensAreUsed ==
  \A S \in SUBSET Proc \ {{}} :
    (tokens > 0 /\ Waiting = S) ~> (tokens = 0 \/ Waiting # S)
MutexIsTaken ==
  \A S \in SUBSET Proc \ {{}} :
    (~locked /\ MutexWaiters = S) ~> (locked \/ MutexWaiters # S)
=============================================================================
