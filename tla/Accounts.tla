------------------------------ MODULE Accounts ------------------------------
(***************************************************************************)
(* lab11es01: one thread for each file of operations adds the amounts in   *)
(* it to the accounts of a shared file.  A thread reads a record and       *)
(* writes it back under a lock: in version A on the record, with           *)
(* LockFileEx, and in B, C and D on all of them (a critical section, a     *)
(* mutex, a semaphore of one).                                             *)
(***************************************************************************)
EXTENDS Integers, Sequences

FX == INSTANCE FiniteSetsExt

CONSTANTS Operations,  \* the operations of each thread, pairs of id and amount
          Ids          \* the accounts

\* an account is a record of the file, and the first one is number 1
AccountsAssumption == Operations \in Seq(Seq((Nat \ {0}) \X Int))

VARIABLES version,     \* the macro VERSION
          amount,      \* the amounts in the file
          held,        \* the id that each thread has locked, 0 for none
          accountRecord,  \* the amount that each thread has read
          done,        \* the operations that each thread has finished
          at           \* where each thread is

vars == <<version, amount, held, accountRecord, done, at>>

Thread == DOMAIN Operations
Operation(t) == Operations[t][done[t] + 1]
Goto(t, l)   == at' = [at EXCEPT ![t] = l]

Init ==
  /\ version \in {"A", "B", "C", "D"} /\ amount = [n \in Ids |-> 0]
  /\ held = [t \in Thread |-> 0] /\ accountRecord = [t \in Thread |-> 0]
  /\ done = [t \in Thread |-> 0] /\ at = [t \in Thread |-> "acquires"]

\* the lock that t asks for is held by u
Conflict(t, u) == held[u] # 0 /\ (version = "A" => held[u] = Operation(t)[1])

\* no lock
Acquire_Any(t) ==
  /\ at[t] = "acquires" /\ done[t] < Len(Operations[t])
  /\ held' = [held EXCEPT ![t] = Operation(t)[1]] /\ Goto(t, "reads")
  /\ UNCHANGED <<version, amount, accountRecord, done>>

Acquire(t) ==
  /\ at[t] = "acquires" /\ done[t] < Len(Operations[t])
  /\ \A u \in Thread : ~Conflict(t, u)
  /\ held' = [held EXCEPT ![t] = Operation(t)[1]] /\ Goto(t, "reads")
  /\ UNCHANGED <<version, amount, accountRecord, done>>

\* ReadFile finds no such record: the thread gives up the rest of its file
ReadFails(t) ==
  /\ at[t] = "reads" /\ Operation(t)[1] \notin Ids
  /\ held' = [held EXCEPT ![t] = 0] /\ Goto(t, "failed")
  /\ UNCHANGED <<version, amount, accountRecord, done>>

Read(t) ==
  /\ at[t] = "reads" /\ Operation(t)[1] \in Ids /\ Goto(t, "writes")
  /\ accountRecord' = [accountRecord EXCEPT ![t] = amount[Operation(t)[1]]]
  /\ UNCHANGED <<version, amount, held, done>>

Write(t) ==
  /\ at[t] = "writes" /\ Goto(t, "releases")
  /\ amount' = [amount EXCEPT ![Operation(t)[1]] = accountRecord[t] + Operation(t)[2]]
  /\ UNCHANGED <<version, held, accountRecord, done>>

Release(t) ==
  /\ at[t] = "releases" /\ Goto(t, "acquires")
  /\ held' = [held EXCEPT ![t] = 0] /\ done' = [done EXCEPT ![t] = @ + 1]
  /\ UNCHANGED <<version, amount, accountRecord>>

Step(t) == Acquire(t) \/ ReadFails(t) \/ Read(t) \/ Write(t) \/ Release(t)

Next == \E t \in Thread : Step(t)
Spec == Init /\ [][Next]_vars
Fairness == \A t \in Thread : WF_vars(Step(t))
-----------------------------------------------------------------------------
\* the operations that have been written
Written == {o \in Thread \X (1..FX!Max({Len(Operations[u]) : u \in Thread})) :
              o[2] <= done[o[1]] + (IF at[o[1]] = "releases" THEN 1 ELSE 0)}

\* No update is lost: an account is the sum of the operations on it.
NoLostUpdate ==
  \A n \in Ids :
    amount[n] = FX!MapThenSumSet(LAMBDA o : Operations[o[1]][o[2]][2],
                                 {o \in Written : Operations[o[1]][o[2]][1] = n})

AllEnd == \A t \in Thread : at[t] = "failed" \/ done[t] = Len(Operations[t])
=============================================================================
