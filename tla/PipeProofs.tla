----------------------------- MODULE PipeProofs -----------------------------
(***************************************************************************)
(* Theorems about Pipe, for any number of processes, any size of the ring  *)
(* and any width of its counters: the wakeups of pipewrite, piperead and   *)
(* pipeclose, and the moment at which the page of the pipe is freed.       *)
(***************************************************************************)
EXTENDS Pipe, SequenceTheorems, TLAPS

\* The type the proofs need; the bytes of the ring and its counters play no part.
Types == pc \in [Proc -> PCs]

\* p->lock is held inside the loops of pipewrite and piperead.
LockInv == \A p \in Proc : pc[p] \in {"write", "read", "copy"} <=> lock = p

\* Whoever is inside a function of pipe.c has the file of that end, and who
\* sleeps on a channel is in the function that sleeps there.
InsideInv ==
  /\ \A p \in Proc : /\ pc[p] \in {"write", "sleepW"} => p \in writers
                     /\ pc[p] \in {"read", "copy", "sleepR"} => p \in readers
  /\ \A p \in onR : p \in Proc /\ pc[p] = "sleepR"
  /\ \A p \in onW : p \in Proc /\ pc[p] = "sleepW"

\* An end is open as long as somebody has its file, or is about to tell the
\* pipe that nobody has; only one process can be the last.
EndsInv ==
  /\ readers # {} => readopen
  /\ writers # {} => writeopen
  /\ \A p \in Proc : /\ pc[p] = "closeR" => readopen /\ readers = {}
                     /\ pc[p] = "closeW" => writeopen /\ writers = {}
  /\ \A p, q \in Proc : /\ pc[p] = "closeR" /\ pc[q] = "closeR" => p = q
                        /\ pc[p] = "closeW" /\ pc[q] = "closeW" => p = q

\* The page of the pipe is there as long as an end is open.
LiveInv == live <=> readopen \/ writeopen

\* NoLostWakeup, also while p->lock is held: a writer may have put bytes that
\* it has not announced, a reader may have taken bytes.
SleepersInv ==
  /\ onR # {} => \/ Empty /\ writeopen
                 \/ unannounced
                 \/ \E p \in Proc : lock = p /\ pc[p] = "write"
  /\ onW # {} => \/ Full /\ readopen
                 \/ \E p \in Proc : lock = p /\ pc[p] = "copy"

IInv == Types /\ LockInv /\ InsideInv /\ EndsInv /\ LiveInv /\ SleepersInv
-----------------------------------------------------------------------------
\* pipewrite takes p->lock.
LEMMA WriteEnterInv ==
  ASSUME IInv, NEW p \in Proc, NEW n \in 1..MaxCall, WriteEnter(p, n) PROVE IInv'
<1>1. (Types /\ InsideInv /\ EndsInv /\ LiveInv /\ SleepersInv)'
  BY PipeAssumption, SMTT(30)
  DEF WriteEnter, IInv, Types, PCs, Goto, InsideInv, ends, queues, EndsInv,
     LiveInv, SleepersInv, ring, Full, Empty
<1>2. LockInv'
  BY PipeAssumption, SMTT(30) DEF WriteEnter, IInv, Types, LockInv, Goto
<1> QED BY <1>1, <1>2 DEF IInv

\* pipewrite puts a byte: it holds the lock, so who sleeps will be told by
\* it.
LEMMA WriteByteInv ==
  ASSUME IInv, NEW p \in Proc, NEW b \in Byte, WriteByte(p, b) PROVE IInv'
<1>1. (Types /\ LockInv /\ InsideInv /\ EndsInv /\ LiveInv)'
  BY SMTT(30)
  DEF WriteByte, IInv, Types, LockInv, InsideInv, ends, queues, EndsInv,
     LiveInv
<1>2. SleepersInv'
  BY SMTT(30) DEF WriteByte, IInv, LockInv, SleepersInv, queues
<1> QED BY <1>1, <1>2 DEF IInv

\* pipewrite finds the ring full: it wakes the readers before it sleeps.
LEMMA WriteSleepInv == ASSUME IInv, NEW p \in Proc, WriteSleep(p) PROVE IInv'
<1>1. (Types /\ EndsInv /\ LiveInv /\ SleepersInv)'
  BY SMTT(30)
  DEF WriteSleep, IInv, Types, PCs, Goto, EndsInv, ends, LiveInv, SleepersInv,
     Full, ring
<1>2. LockInv'
  BY PipeAssumption, SMTT(30) DEF WriteSleep, IInv, Types, LockInv, Goto
<1>3. InsideInv'
  BY SMTT(30) DEF WriteSleep, IInv, Types, InsideInv, Goto, ends
<1> QED BY <1>1, <1>2, <1>3 DEF IInv

\* pipewrite gives up: it is killed, or no reader is left that could sleep.
LEMMA WriteFailsInv == ASSUME IInv, NEW p \in Proc, WriteFails(p) PROVE IInv'
<1>1. (Types /\ InsideInv /\ EndsInv /\ LiveInv)'
  BY SMTT(30)
  DEF WriteFails, IInv, Types, PCs, Return, Goto, InsideInv, ends, queues,
     EndsInv, LiveInv
<1>2. LockInv'
  BY PipeAssumption, SMTT(30)
  DEF WriteFails, IInv, Types, LockInv, Return, Goto
<1>3. SleepersInv'
  <2>1. onR # {} => (Empty /\ writeopen)' \/ unannounced'
    <3>1. CASE p \in killed
      BY <3>1, Zenon DEF WriteFails
    <3>2. CASE ~readopen /\ p \notin killed
      BY <3>2, SMTT(30) DEF IInv, InsideInv, EndsInv
    <3> QED BY <3>1, <3>2, Zenon DEF WriteFails
  <2>2. /\ onR' = onR /\ onW' = onW /\ readopen' = readopen
        /\ nread' = nread /\ nwrite' = nwrite
        /\ pc[p] = "write" /\ lock = p
    BY Zenon DEF WriteFails, ring, ends, queues, IInv, LockInv
  <2> QED BY <2>1, <2>2, Zenon DEF IInv, LockInv, SleepersInv, Full
<1> QED BY <1>1, <1>2, <1>3 DEF IInv

\* pipewrite takes p->lock again at the end of sleep().
LEMMA WriteWakesInv == ASSUME IInv, NEW p \in Proc, WriteWakes(p) PROVE IInv'
<1>1. (Types /\ InsideInv /\ EndsInv /\ LiveInv /\ SleepersInv)'
  BY PipeAssumption, SMTT(30)
  DEF WriteWakes, IInv, Types, PCs, Goto, InsideInv, ends, queues, EndsInv,
     LiveInv, SleepersInv, ring, Full, Empty
<1>2. LockInv'
  BY PipeAssumption, SMTT(30) DEF WriteWakes, IInv, Types, LockInv, Goto
<1> QED BY <1>1, <1>2 DEF IInv

\* pipewrite wakes the readers for all it has put.
LEMMA WriteEndsInv == ASSUME IInv, NEW p \in Proc, WriteEnds(p) PROVE IInv'
<1>1. (Types /\ InsideInv /\ EndsInv /\ LiveInv)'
  BY SMTT(30)
  DEF WriteEnds, IInv, Types, PCs, Return, Goto, InsideInv, ends, EndsInv,
     LiveInv
<1>2. LockInv'
  BY PipeAssumption, SMTT(30)
  DEF WriteEnds, IInv, Types, LockInv, Return, Goto
<1>3. SleepersInv'
  BY SMTT(30) DEF WriteEnds, IInv, LockInv, SleepersInv, ring, ends, Full
<1> QED BY <1>1, <1>2, <1>3 DEF IInv

\* piperead takes p->lock.
LEMMA ReadEnterInv ==
  ASSUME IInv, NEW p \in Proc, NEW n \in 1..MaxCall, ReadEnter(p, n) PROVE IInv'
<1>1. (Types /\ InsideInv /\ EndsInv /\ LiveInv /\ SleepersInv)'
  BY PipeAssumption, SMTT(30)
  DEF ReadEnter, IInv, Types, PCs, Goto, InsideInv, ends, queues, EndsInv,
     LiveInv, SleepersInv, ring, Full, Empty
<1>2. LockInv'
  BY PipeAssumption, SMTT(30) DEF ReadEnter, IInv, Types, LockInv, Goto
<1> QED BY <1>1, <1>2 DEF IInv

\* piperead finds the ring empty and a writer left: it sleeps, or is killed.
LEMMA ReadWaitsInv == ASSUME IInv, NEW p \in Proc, ReadWaits(p) PROVE IInv'
<1>1. (Types /\ LiveInv)'
  BY SMTT(30) DEF ReadWaits, IInv, Types, PCs, Goto, Return, LiveInv, ends
<1>2. LockInv'
  BY PipeAssumption, SMTT(30)
  DEF ReadWaits, IInv, Types, LockInv, Goto, Return
<1>3. InsideInv'
  BY SMTT(30) DEF ReadWaits, IInv, Types, InsideInv, Goto, Return, ends
<1>4. EndsInv'
  BY SMTT(30) DEF ReadWaits, IInv, Types, EndsInv, Goto, Return, ends
<1>5. SleepersInv'
  BY SMTT(30)
  DEF ReadWaits, IInv, LockInv, SleepersInv, Empty, ring, ends, Full
<1> QED BY <1>1, <1>2, <1>3, <1>4, <1>5 DEF IInv

\* piperead takes p->lock again at the end of sleep().
LEMMA ReadWakesInv == ASSUME IInv, NEW p \in Proc, ReadWakes(p) PROVE IInv'
<1>1. (Types /\ InsideInv /\ EndsInv /\ LiveInv /\ SleepersInv)'
  BY PipeAssumption, SMTT(30)
  DEF ReadWakes, IInv, Types, PCs, Goto, InsideInv, ends, queues, EndsInv,
     LiveInv, SleepersInv, ring, Full, Empty
<1>2. LockInv'
  BY PipeAssumption, SMTT(30) DEF ReadWakes, IInv, Types, LockInv, Goto
<1> QED BY <1>1, <1>2 DEF IInv

\* piperead goes on to copy bytes.
LEMMA ReadStartsInv == ASSUME IInv, NEW p \in Proc, ReadStarts(p) PROVE IInv'
<1>1. (Types /\ LockInv /\ InsideInv /\ EndsInv /\ LiveInv)'
  BY SMTT(30)
  DEF ReadStarts, IInv, Types, PCs, Goto, LockInv, InsideInv, ends, queues,
     EndsInv, LiveInv
<1>2. SleepersInv'
  BY SMTT(30)
  DEF ReadStarts, IInv, LockInv, SleepersInv, ring, ends, queues, Full
<1> QED BY <1>1, <1>2 DEF IInv

\* piperead takes a byte: no reader sleeps for it, and a writer will be told.
LEMMA ReadByteInv == ASSUME IInv, NEW p \in Proc, ReadByte(p) PROVE IInv'
<1>1. (Types /\ LockInv /\ InsideInv /\ EndsInv /\ LiveInv)'
  BY SMTT(30)
  DEF ReadByte, IInv, Types, LockInv, InsideInv, ends, queues, EndsInv,
     LiveInv
<1>2. SleepersInv'
  BY SMTT(30) DEF ReadByte, IInv, LockInv, SleepersInv, queues
<1> QED BY <1>1, <1>2 DEF IInv

\* piperead wakes the writers for all it has taken.
LEMMA ReadEndsInv == ASSUME IInv, NEW p \in Proc, ReadEnds(p) PROVE IInv'
<1>1. (Types /\ InsideInv /\ EndsInv /\ LiveInv)'
  BY SMTT(30)
  DEF ReadEnds, IInv, Types, PCs, Return, Goto, InsideInv, ends, EndsInv,
     LiveInv
<1>2. LockInv'
  BY PipeAssumption, SMTT(30) DEF ReadEnds, IInv, Types, LockInv, Return, Goto
<1>3. SleepersInv'
  BY SMTT(30) DEF ReadEnds, IInv, LockInv, SleepersInv, Empty, ring, ends
<1> QED BY <1>1, <1>2, <1>3 DEF IInv

\* fork duplicates the files of a process that is in no function of pipe.c.
LEMMA ForkInv ==
  ASSUME IInv, NEW p \in Proc, NEW q \in Proc, Fork(p, q) PROVE IInv'
<1>1. (Types /\ LockInv /\ InsideInv /\ EndsInv /\ LiveInv /\ SleepersInv)'
  BY SMTT(30)
  DEF Fork, IInv, Types, procs, LockInv, InsideInv, queues, EndsInv, LiveInv,
     SleepersInv, ring, Full, Empty
<1> QED BY <1>1 DEF IInv

\* fileclose drops a reference; the last one leaves the end open until
\* pipeclose.
LEMMA CloseInv == ASSUME IInv, NEW p \in Proc, Close(p) PROVE IInv'
<1>1. (Types /\ LiveInv)'
  BY SMTT(30) DEF Close, IInv, Types, PCs, Goto, LiveInv
<1>2. LockInv'
  BY SMTT(30) DEF Close, IInv, Types, LockInv, Goto
<1>3. InsideInv'
  BY SMTT(30) DEF Close, IInv, Types, InsideInv, Goto, queues
<1>4. EndsInv'
  BY SMTT(30) DEF Close, IInv, Types, EndsInv, Goto
<1>5. SleepersInv'
  BY SMTT(30)
  DEF Close, IInv, Types, SleepersInv, Goto, ring, queues, Full, Empty
<1> QED BY <1>1, <1>2, <1>3, <1>4, <1>5 DEF IInv

\* pipeclose: the end that is closed had no files any more, and the page goes
\* with the other one.
LEMMA PipeCloseInv == ASSUME IInv, NEW p \in Proc, PipeClose(p) PROVE IInv'
<1>1. (Types /\ LockInv /\ InsideInv)'
  BY SMTT(30) DEF PipeClose, IInv, Types, PCs, Goto, LockInv, InsideInv
<1>2. EndsInv'
  <2>1. /\ readers' = readers /\ writers' = writers
        /\ pc[p] = "closeR" \/ readopen' = readopen
        /\ pc[p] = "closeW" \/ writeopen' = writeopen
    BY Zenon DEF PipeClose
  <2>2. pc' = [pc EXCEPT ![p] = "out"] /\ pc[p] \in {"closeR", "closeW"}
    BY Zenon DEF PipeClose, Goto
  <2> QED BY <2>1, <2>2, SMTT(30) DEF IInv, Types, EndsInv
<1>3. LiveInv'
  BY Zenon DEF IInv, EndsInv, LiveInv, PipeClose, BothClosed
<1>4. SleepersInv'
  BY SMTT(30) DEF PipeClose, IInv, InsideInv, EndsInv, SleepersInv
<1> QED BY <1>1, <1>2, <1>3, <1>4 DEF IInv

\* pipealloc makes a pipe where there is none.
LEMMA AllocInv == ASSUME IInv, NEW p \in Proc, Alloc(p) PROVE IInv'
<1>1. (Types /\ LockInv /\ EndsInv /\ LiveInv)'
  BY SMTT(30) DEF Alloc, IInv, Types, procs, LockInv, EndsInv, LiveInv
<1>2. InsideInv'
  BY SMTT(30) DEF Alloc, IInv, InsideInv, EndsInv, LiveInv, queues, procs
<1>3. SleepersInv'
  <2>1. onR = {} /\ onW = {}
    BY SMTT(30) DEF Alloc, IInv, InsideInv, EndsInv, LiveInv
  <2> QED BY <2>1, Zenon DEF Alloc, SleepersInv, queues
<1> QED BY <1>1, <1>2, <1>3 DEF IInv

\* kill takes a process off the channel it sleeps on.
LEMMA KillInv == ASSUME IInv, NEW p \in Proc, Kill(p) PROVE IInv'
<1>1. (Types /\ LockInv /\ InsideInv /\ EndsInv /\ LiveInv /\ SleepersInv)'
  BY SMTT(30)
  DEF Kill, IInv, Types, procs, LockInv, InsideInv, ends, EndsInv, LiveInv,
     SleepersInv, ring, Full, Empty
<1> QED BY <1>1 DEF IInv

-----------------------------------------------------------------------------
\* A new pipe satisfies the invariant.
LEMMA InitInv == Init => IInv
<1> SUFFICES ASSUME Init PROVE IInv
  OBVIOUS
<1>1. Types /\ LockInv /\ InsideInv
  BY PipeAssumption, SMTT(30) DEF Init, Types, LockInv, InsideInv, PCs
<1>2. EndsInv /\ LiveInv
  BY PipeAssumption, Zenon DEF Init, EndsInv, LiveInv
<1>3. SleepersInv
  BY SMTT(30) DEF Init, SleepersInv
<1> QED BY <1>1, <1>2, <1>3 DEF IInv

\* The invariant is inductive.
LEMMA NextInv == IInv /\ [Next]_vars => IInv'
<1> SUFFICES ASSUME IInv, [Next]_vars PROVE IInv'
  OBVIOUS
<1>1. ASSUME NEW p \in Proc, Write(p) PROVE IInv'
  BY <1>1, WriteEnterInv, WriteByteInv, WriteSleepInv, WriteFailsInv, WriteWakesInv,
     WriteEndsInv DEF Write
<1>2. ASSUME NEW p \in Proc, Read(p) PROVE IInv'
  BY <1>2, ReadEnterInv, ReadWaitsInv, ReadWakesInv, ReadStartsInv, ReadByteInv, ReadEndsInv
  DEF Read
<1>3. CASE Next
  BY <1>1, <1>2, <1>3, CloseInv, PipeCloseInv, AllocInv, KillInv, ForkInv DEF Next
<1>4. CASE UNCHANGED vars
  BY <1>4 DEF vars, ring, ends, queues, procs, IInv, Types, LockInv, InsideInv, EndsInv,
     LiveInv, SleepersInv, Empty, Full
<1> QED BY <1>3, <1>4

\* Every reachable state satisfies the invariant.
THEOREM Invariance == Spec => []IInv
BY InitInv, NextInv, PTL DEF Spec

\* With p->lock free, nobody sleeps for bytes, for room or for an end that is
\* there already: pipewrite, piperead and pipeclose wake the other side before
\* they let the lock go.  Only a writer that is killed leaves bytes that it
\* has not announced.
THEOREM PipeWakeups == Spec => []NoLostWakeup
<1>1. IInv => NoLostWakeup
  BY PipeAssumption, SMTT(30) DEF IInv, LockInv, SleepersInv, NoLostWakeup
<1> QED BY <1>1, Invariance, PTL

\* pipeclose frees the page when the second end is closed, and then no process
\* has a file of the pipe or is in a function that uses it.
THEOREM PageIsFreedLast == Spec => []NoUseAfterFree
<1>1. IInv => NoUseAfterFree
  BY SMTT(30) DEF IInv, Types, LiveInv, EndsInv, InsideInv, NoUseAfterFree, PCs
<1> QED BY <1>1, Invariance, PTL

-----------------------------------------------------------------------------
(* The ring as a byte stream.  nread and nwrite are taken modulo Width when *)
(* they are counted on, and modulo PIPESIZE when they index p->data.        *)

\* The bytes between the two counters, in the arithmetic of uint.
Count == (nwrite - nread) % Width

\* The counters stay below Width and the ring is never more than full.
RingInv ==
  /\ data \in [0..PIPESIZE - 1 -> Byte]
  /\ nread \in 0..Width - 1 /\ nwrite \in 0..Width - 1
  /\ Count <= PIPESIZE

\* Division with a remainder.
LEMMA DivMod ==
  ASSUME NEW x \in Int, NEW n \in Nat \ {0}
  PROVE /\ x % n \in 0..n - 1 /\ x \div n \in Int
        /\ x = (n * (x \div n)) + (x % n)
OBVIOUS

\* The remainder is unique.
LEMMA ModUnique ==
  ASSUME NEW q \in Int, NEW n \in Nat \ {0}, NEW r \in 0..n - 1
  PROVE (n * q + r) % n = r
OBVIOUS

\* A remainder after one more or one less turn.
LEMMA ModTurn ==
  ASSUME NEW n \in Nat \ {0}, NEW r \in 0..n - 1
  PROVE r % n = r /\ (r + n) % n = r /\ (r - n) % n = r
<1>1. r % n = r
  OBVIOUS
<1>2. r + n = n * 1 + r /\ r - n = n * (-1) + r
  OBVIOUS
<1>3. (n * 1 + r) % n = r /\ (n * (-1) + r) % n = r
  BY ModUnique
<1> QED BY <1>1, <1>2, <1>3, Zenon

\* Whole turns do not change a remainder.
LEMMA ModTurns ==
  ASSUME NEW n \in Nat \ {0}, NEW x \in Int, NEW q \in Int
  PROVE (x - q * n) % n = x % n
<1> DEFINE r == x % n  d == x \div n
<1>1. r \in 0..n - 1 /\ d \in Int /\ x = (n * d) + r
  BY DivMod
<1>2. x - q * n = n * (d - q) + r /\ d - q \in Int
  BY <1>1
<1>3. (n * (d - q) + r) % n = r
  <2> HIDE DEF r, d
  <2> QED BY <1>1, <1>2, ModUnique
<1> QED BY <1>2, <1>3, Zenon

\* Less than a turn does.
LEMMA ModDistinct ==
  ASSUME NEW n \in Nat \ {0}, NEW x \in Int, NEW d \in 1..n - 1
  PROVE (x + d) % n # x % n
<1> SUFFICES ASSUME (x + d) % n = x % n PROVE FALSE
  OBVIOUS
<1> DEFINE a == (x + d) \div n  b == x \div n
<1>1. a \in Int /\ b \in Int /\ d = n * (a - b)
  BY DivMod
<1>2. CASE a - b <= 0
  BY <1>1, <1>2
<1>3. CASE a - b >= 1
  BY <1>1, <1>3
<1> QED BY <1>1, <1>2, <1>3

\* The wrap of uint is a whole number of turns of the ring, so that it does
\* not move a slot.
LEMMA SlotOfWrapped ==
  ASSUME NEW x \in 0..2 * Width - 1 PROVE Slot(x % Width) = x % PIPESIZE
<1>1. PICK k \in 2..Width : Width = k * PIPESIZE
  BY PipeAssumption
<1>2. PIPESIZE \in Nat \ {0} /\ Width \in Nat \ {0}
  BY <1>1, PipeAssumption
<1>3. CASE x < Width
  BY <1>2, <1>3, ModTurn DEF Slot
<1>4. CASE x >= Width
  <2>1. x % Width = x - Width
    <3>1. x - Width \in 0..Width - 1 /\ x = (x - Width) + Width
      BY <1>2, <1>4
    <3>2. ((x - Width) + Width) % Width = x - Width
      BY <1>2, <3>1, ModTurn
    <3> QED BY <3>1, <3>2, Zenon
  <2>2. (x - k * PIPESIZE) % PIPESIZE = x % PIPESIZE
    <3>1. k \in Int /\ x \in Int
      BY <1>2
    <3> QED BY <1>2, <3>1, ModTurns, Zenon
  <2> QED BY <1>1, <2>1, <2>2 DEF Slot
<1> QED BY <1>2, <1>3, <1>4

\* nwrite is nread with the bytes under way on top.
LEMMA Counted ==
  ASSUME RingInv
  PROVE /\ Count \in 0..PIPESIZE /\ PIPESIZE < Width /\ Width \in Nat
        /\ nwrite = (nread + Count) % Width
        /\ nwrite - nread = Count \/ nwrite - nread = Count - Width
<1>1. PICK k \in 2..Width : Width = k * PIPESIZE
  BY PipeAssumption
<1>2. PIPESIZE \in Nat \ {0} /\ Width \in Nat \ {0} /\ PIPESIZE < Width
  BY <1>1, PipeAssumption
<1>3. nwrite - nread = Count \/ nwrite - nread = Count - Width
  <2>1. CASE nwrite >= nread
    <3>1. nwrite - nread \in 0..Width - 1
      BY <1>2, <2>1 DEF RingInv
    <3> QED BY <1>2, <3>1, ModTurn, Zenon DEF Count
  <2>2. CASE nwrite < nread
    <3>1. nwrite - nread + Width \in 0..Width - 1
      BY <1>2, <2>2 DEF RingInv
    <3>2. ((nwrite - nread + Width) - Width) % Width = nwrite - nread + Width
      BY <1>2, <3>1, ModTurn
    <3>3. (nwrite - nread + Width) - Width = nwrite - nread
      BY <1>2 DEF RingInv
    <3>4. Count = nwrite - nread + Width
      BY <3>2, <3>3, Zenon DEF Count
    <3> QED BY <1>2, <3>4 DEF RingInv
  <2> QED BY <2>1, <2>2 DEF RingInv
<1>4. Count \in 0..PIPESIZE
  BY <1>2, DivMod DEF RingInv, Count
<1>5. nwrite = (nread + Count) % Width
  <2>1. nread + Count = nwrite \/ nread + Count = nwrite + Width
    BY <1>2, <1>3, <1>4 DEF RingInv
  <2>2. nwrite % Width = nwrite /\ (nwrite + Width) % Width = nwrite
    BY <1>2, ModTurn DEF RingInv
  <2> QED BY <2>1, <2>2, Zenon
<1> QED BY <1>2, <1>3, <1>4, <1>5

\* The bytes under way are a sequence of Count bytes, slot after slot.
QueueIsRing ==
  /\ Queue \in Seq(Byte) /\ Len(Queue) = Count
  /\ \A i \in 1..Count : Queue[i] = data[(nread + i - 1) % PIPESIZE]

\* It is one when the ring is in order.
LEMMA QueueIs == RingInv => QueueIsRing
<1> SUFFICES ASSUME RingInv PROVE QueueIsRing
  OBVIOUS
<1>1. \A i \in 1..Count : Slot((nread + i - 1) % Width) = (nread + i - 1) % PIPESIZE
  <2> SUFFICES ASSUME NEW i \in 1..Count
               PROVE Slot((nread + i - 1) % Width) = (nread + i - 1) % PIPESIZE
    OBVIOUS
  <2>1. nread + i - 1 \in 0..2 * Width - 1
    BY Counted, SMTT(60) DEF RingInv
  <2> QED BY <2>1, SlotOfWrapped, Zenon
<1>2. Queue = [i \in 1..Count |-> data[(nread + i - 1) % PIPESIZE]]
  BY <1>1, Zenon DEF Queue, Count
<1>3. \A i \in 1..Count : data[(nread + i - 1) % PIPESIZE] \in Byte
  <2> SUFFICES ASSUME NEW i \in 1..Count
               PROVE data[(nread + i - 1) % PIPESIZE] \in Byte
    OBVIOUS
  <2>1. nread + i - 1 \in Int /\ PIPESIZE \in Nat \ {0}
    BY Counted, PipeAssumption DEF RingInv
  <2>2. (nread + i - 1) % PIPESIZE \in 0..PIPESIZE - 1
    BY <2>1, DivMod, Zenon
  <2> QED BY <2>2 DEF RingInv
<1>4. Count \in Nat
  BY Counted, PipeAssumption
<1>5. Queue \in [1..Count -> Byte]
  BY <1>2, <1>3, Zenon
<1>6. Queue \in Seq(Byte)
  BY <1>4, <1>5, SMTT(30)
<1>7. Len(Queue) = Count
  <2>1. DOMAIN Queue = 1..Count
    BY <1>2, Zenon
  <2> QED BY <1>4, <1>6, <2>1, LenProperties
<1> QED BY <1>2, <1>6, <1>7, Zenon DEF QueueIsRing

\* The same after a step.
LEMMA QueueIsAfter == RingInv' => QueueIsRing'
BY QueueIs, PTL

\* pipewrite puts its byte in a slot that holds none of the bytes under way,
\* and they stay where they are.
LEMMA PutsAByte ==
  ASSUME IInv, RingInv, NEW p \in Proc, NEW b \in Byte, WriteByte(p, b)
  PROVE RingInv' /\ Stream!Put(b)
<1>1. /\ Count \in 0..PIPESIZE /\ PIPESIZE \in Nat \ {0} /\ PIPESIZE < Width
      /\ Width \in Nat \ {0}
      /\ nwrite = (nread + Count) % Width
      /\ nread \in 0..Width - 1 /\ nwrite \in 0..Width - 1
  BY Counted, PipeAssumption DEF RingInv
<1>2. Count < PIPESIZE
  BY <1>1 DEF WriteByte, Full
<1>3. /\ nread' = nread /\ nwrite' = (nwrite + 1) % Width
      /\ data' = [data EXCEPT ![Slot(nwrite)] = b]
  BY Zenon DEF WriteByte
<1>4. Slot(nwrite) = (nread + Count) % PIPESIZE
  <2>1. nread + Count \in 0..2 * Width - 1
    BY <1>1
  <2> QED BY <1>1, <2>1, SlotOfWrapped, Zenon
<1>5. nwrite' \in 0..Width - 1
  <2>1. nwrite + 1 \in Int
    BY <1>1
  <2> QED BY <1>1, <1>3, <2>1, DivMod, Zenon
<1>6. Count' = Count + 1
  <2>1. nwrite' = nwrite + 1 \/ (nwrite + 1 = Width /\ nwrite' = 0)
    <3>1. CASE nwrite + 1 < Width
      <4>1. nwrite + 1 \in 0..Width - 1
        BY <1>1, <3>1
      <4>2. (nwrite + 1) % Width = nwrite + 1
        BY <1>1, <4>1, ModTurn
      <4> QED BY <1>3, <4>2
    <3>2. CASE nwrite + 1 = Width
      <4>1. 0 \in 0..Width - 1 /\ 0 + Width = nwrite + 1
        BY <1>1, <3>2
      <4>2. (0 + Width) % Width = 0
        BY <1>1, <4>1, ModTurn, Zenon
      <4> QED BY <1>3, <3>2, <4>1, <4>2, Zenon
    <3> QED BY <1>1, <3>1, <3>2
  <2>2. nwrite - nread = Count \/ nwrite - nread = Count - Width
    BY Counted
  <2>3. nwrite' - nread' = Count + 1 \/ nwrite' - nread' = (Count + 1) - Width
    BY <1>1, <1>2, <1>3, <2>1, <2>2
  <2>4. Count + 1 \in 0..Width - 1
    BY <1>1, <1>2
  <2>5. (Count + 1) % Width = Count + 1 /\ ((Count + 1) - Width) % Width = Count + 1
    BY <1>1, <2>4, ModTurn
  <2> QED BY <2>3, <2>5, Zenon DEF Count
<1>7. RingInv'
  <2>1. data' \in [0..PIPESIZE - 1 -> Byte]
    BY <1>3, Zenon DEF RingInv
  <2> QED BY <1>1, <1>2, <1>3, <1>5, <1>6, <2>1 DEF RingInv
<1>8. /\ Queue \in Seq(Byte) /\ Len(Queue) = Count
      /\ \A i \in 1..Count : Queue[i] = data[(nread + i - 1) % PIPESIZE]
  BY QueueIs, Zenon DEF QueueIsRing
<1>9. /\ Queue' \in Seq(Byte) /\ Len(Queue') = Count + 1
      /\ \A i \in 1..Count + 1 : Queue'[i] = data'[(nread + i - 1) % PIPESIZE]
  BY <1>3, <1>6, <1>7, QueueIsAfter, Zenon DEF QueueIsRing
<1>10. Queue' = Append(Queue, b)
  <2>1. /\ Append(Queue, b) \in Seq(Byte) /\ Len(Append(Queue, b)) = Count + 1
        /\ \A i \in 1..Count : Append(Queue, b)[i] = Queue[i]
        /\ Append(Queue, b)[Count + 1] = b
    BY <1>8, AppendProperties
  <2>2. Queue'[Count + 1] = b
    <3>1. Count + 1 \in 1..Count + 1 /\ nread + (Count + 1) - 1 = nread + Count
      BY <1>1
    <3>2. (nread + Count) % PIPESIZE \in 0..PIPESIZE - 1
      <4>1. nread + Count \in Int
        BY <1>1
      <4> QED BY <1>1, <4>1, DivMod, Zenon
    <3>3. Queue'[Count + 1] = data'[(nread + Count) % PIPESIZE]
      BY <1>9, <3>1, Zenon
    <3> QED BY <1>3, <1>4, <3>2, <3>3, Zenon DEF RingInv
  <2>3. ASSUME NEW i \in 1..Count PROVE Queue'[i] = Queue[i]
    <3>1. /\ nread + i - 1 \in Int /\ Count - i + 1 \in 1..PIPESIZE - 1
          /\ (nread + i - 1) + (Count - i + 1) = nread + Count
          /\ i \in 1..Count + 1
      BY <1>1, <1>2
    <3>2. (nread + Count) % PIPESIZE # (nread + i - 1) % PIPESIZE
      BY <1>1, <3>1, ModDistinct, Zenon
    <3>3. (nread + i - 1) % PIPESIZE \in 0..PIPESIZE - 1
      BY <1>1, <3>1, DivMod, Zenon
    <3>4. data'[(nread + i - 1) % PIPESIZE] = data[(nread + i - 1) % PIPESIZE]
      BY <1>3, <1>4, <3>2, <3>3, Zenon DEF RingInv
    <3> QED BY <1>8, <1>9, <3>1, <3>4, Zenon
  <2>4. \A i \in 1..Len(Queue') : Queue'[i] = Append(Queue, b)[i]
    <3> SUFFICES ASSUME NEW i \in 1..Count + 1 PROVE Queue'[i] = Append(Queue, b)[i]
      BY <1>9, Zenon
    <3>1. i \in 1..Count \/ i = Count + 1
      BY <1>1
    <3> QED BY <2>1, <2>2, <2>3, <3>1, Zenon
  <2> QED BY <1>9, <2>1, <2>4, SeqEqual, Zenon
<1>11. writeopen /\ writeopen' = writeopen /\ taken' = taken
  BY SMTT(30) DEF WriteByte, IInv, InsideInv, EndsInv, ends
<1> QED BY <1>2, <1>7, <1>8, <1>10, <1>11, Zenon DEF Stream!Put

\* piperead takes the first of the bytes under way.
LEMMA TakesAByte ==
  ASSUME IInv, RingInv, NEW p \in Proc, ReadByte(p)
  PROVE RingInv' /\ Stream!Take
<1>1. /\ Count \in 0..PIPESIZE /\ PIPESIZE \in Nat \ {0} /\ PIPESIZE < Width
      /\ Width \in Nat \ {0}
      /\ nread \in 0..Width - 1 /\ nwrite \in 0..Width - 1
      /\ nwrite - nread = Count \/ nwrite - nread = Count - Width
  BY Counted, PipeAssumption DEF RingInv
<1>2. Count > 0
  BY <1>1 DEF ReadByte, Empty
<1>3. /\ nread' = (nread + 1) % Width /\ nwrite' = nwrite /\ data' = data
      /\ taken' = data[Slot(nread)] /\ writeopen' = writeopen
  BY Zenon DEF ReadByte, ends
<1>4. nread' = nread + 1 \/ (nread + 1 = Width /\ nread' = 0)
  <2>1. CASE nread + 1 < Width
    <3>1. nread + 1 \in 0..Width - 1
      BY <1>1, <2>1
    <3>2. (nread + 1) % Width = nread + 1
      BY <1>1, <3>1, ModTurn
    <3> QED BY <1>3, <3>2
  <2>2. CASE nread + 1 = Width
    <3>1. 0 \in 0..Width - 1 /\ 0 + Width = nread + 1
      BY <1>1, <2>2
    <3>2. (0 + Width) % Width = 0
      BY <1>1, <3>1, ModTurn, Zenon
    <3> QED BY <1>3, <2>2, <3>1, <3>2, Zenon
  <2> QED BY <1>1, <2>1, <2>2
<1>5. nread' \in 0..Width - 1
  <2>1. nread + 1 \in Int
    BY <1>1
  <2> QED BY <1>1, <1>3, <2>1, DivMod, Zenon
<1>6. Count' = Count - 1
  <2>1. nwrite' - nread' = Count - 1 \/ nwrite' - nread' = (Count - 1) - Width
    BY <1>1, <1>2, <1>3, <1>4
  <2>2. Count - 1 \in 0..Width - 1
    BY <1>1, <1>2
  <2>3. (Count - 1) % Width = Count - 1 /\ ((Count - 1) - Width) % Width = Count - 1
    BY <1>1, <2>2, ModTurn
  <2> QED BY <2>1, <2>3, Zenon DEF Count
<1>7. RingInv'
  BY <1>1, <1>3, <1>5, <1>6 DEF RingInv
<1>8. /\ Queue \in Seq(Byte) /\ Len(Queue) = Count
      /\ \A i \in 1..Count : Queue[i] = data[(nread + i - 1) % PIPESIZE]
  BY QueueIs, Zenon DEF QueueIsRing
<1>9. /\ Queue' \in Seq(Byte) /\ Len(Queue') = Count - 1
      /\ \A i \in 1..Count - 1 : Queue'[i] = data[(nread' + i - 1) % PIPESIZE]
  BY <1>3, <1>6, <1>7, QueueIsAfter, Zenon DEF QueueIsRing
<1>10. Queue # <<>> /\ taken' = Head(Queue)
  <2>1. Queue # <<>> /\ Head(Queue) = Queue[1]
    BY <1>1, <1>2, <1>8
  <2>2. 1 \in 1..Count /\ nread + 1 - 1 = nread /\ nread \in 0..2 * Width - 1
    BY <1>1, <1>2
  <2>3. nread % Width = nread
    BY <1>1, ModTurn
  <2>4. Slot(nread) = nread % PIPESIZE
    BY <2>2, <2>3, SlotOfWrapped, Zenon
  <2> QED BY <1>3, <1>8, <2>1, <2>2, <2>4, Zenon
<1>11. Queue' = Tail(Queue)
  <2>1. /\ Tail(Queue) \in Seq(Byte) /\ Len(Tail(Queue)) = Count - 1
        /\ \A i \in 1..Count - 1 : Tail(Queue)[i] = Queue[i + 1]
    BY <1>8, <1>10, HeadTailProperties
  <2>2. ASSUME NEW i \in 1..Count - 1 PROVE Queue'[i] = Queue[i + 1]
    <3>1. /\ nread + i \in 0..2 * Width - 1 /\ i + 1 \in 1..Count
          /\ nread + (i + 1) - 1 = nread + i
      BY <1>1
    <3>2. (nread' + i - 1) % PIPESIZE = (nread + i) % PIPESIZE
      <4>1. CASE nread' = nread + 1
        <5>1. nread' + i - 1 = nread + i
          BY <1>1, <4>1
        <5> QED BY <5>1, Zenon
      <4>2. CASE nread + 1 = Width /\ nread' = 0
        <5>1. PICK k \in 2..Width : Width = k * PIPESIZE
          BY PipeAssumption
        <5>2. k \in Int /\ nread + i \in Int /\ nread' + i - 1 = (nread + i) - Width
          BY <1>1, <4>2
        <5> QED BY <1>1, <5>1, <5>2, ModTurns, Zenon
      <4> QED BY <1>4, <4>1, <4>2
    <3> QED BY <1>8, <1>9, <3>1, <3>2, SMTT(60)
  <2>3. \A i \in 1..Len(Queue') : Queue'[i] = Tail(Queue)[i]
    BY <1>9, <2>1, <2>2, Zenon
  <2> QED BY <1>9, <2>1, <2>3, SeqEqual, Zenon
<1> QED BY <1>3, <1>7, <1>10, <1>11, Zenon DEF Stream!Take

\* Whatever leaves the counters and the bytes alone leaves the stream alone.
LEMMA KeepsTheRing ==
  ASSUME RingInv, UNCHANGED ring PROVE RingInv' /\ UNCHANGED Queue
BY Zenon DEF ring, RingInv, Count, Queue

\* pipealloc starts with no bytes.
LEMMA NoBytes == nread = 0 /\ nwrite = 0 => Count = 0 /\ Queue = <<>>
<1> SUFFICES ASSUME nread = 0, nwrite = 0 PROVE Count = 0 /\ Queue = <<>>
  OBVIOUS
<1>1. 0 \in 0..Width - 1 /\ Width \in Nat \ {0}
  <2>1. PICK k \in 2..Width : Width = k * PIPESIZE
    BY PipeAssumption
  <2> QED BY <2>1, PipeAssumption
<1>2. Count = 0
  <2>1. 0 - 0 = 0 /\ 0 % Width = 0
    BY <1>1, ModTurn
  <2> QED BY <2>1, Zenon DEF Count
<1>3. Queue = [i \in {} |-> data[Slot((nread + i - 1) % Width)]]
  <2>1. 1..0 = {}
    OBVIOUS
  <2> QED BY <1>2, <2>1, Zenon DEF Queue, Count
<1> QED BY <1>2, <1>3

\* The same after a step.
LEMMA NoBytesAfter == (nread = 0 /\ nwrite = 0)' => (Count = 0 /\ Queue = <<>>)'
BY NoBytes, PTL

\* Every step of the pipe puts a byte, takes one, closes or renews the stream,
\* or leaves it alone.
LEMMA StreamNext ==
  IInv /\ RingInv /\ [Next]_vars => RingInv' /\ [Stream!Next]_(Stream!vars)
<1> SUFFICES ASSUME IInv, RingInv, [Next]_vars
             PROVE RingInv' /\ [Stream!Next]_(Stream!vars)
  OBVIOUS
<1> USE DEF Stream!vars
<1>1. ASSUME UNCHANGED ring, UNCHANGED <<writeopen, taken>>
      PROVE RingInv' /\ [Stream!Next]_(Stream!vars)
  BY <1>1, KeepsTheRing, Zenon
<1>2. ASSUME NEW p \in Proc, Write(p) PROVE RingInv' /\ [Stream!Next]_(Stream!vars)
  <2>1. ASSUME NEW b \in Byte, WriteByte(p, b) PROVE RingInv' /\ [Stream!Next]_(Stream!vars)
    BY <2>1, PutsAByte, Zenon DEF Stream!Next
  <2>2. ASSUME ~\E b \in Byte : WriteByte(p, b)
        PROVE UNCHANGED ring /\ UNCHANGED <<writeopen, taken>>
    BY <1>2, <2>2, Zenon
    DEF Write, WriteEnter, WriteSleep, WriteFails, WriteWakes, WriteEnds, ends, ring
  <2> QED BY <1>1, <2>1, <2>2, Zenon
<1>3. ASSUME NEW p \in Proc, Read(p) PROVE RingInv' /\ [Stream!Next]_(Stream!vars)
  <2>1. ASSUME ReadByte(p) PROVE RingInv' /\ [Stream!Next]_(Stream!vars)
    BY <2>1, TakesAByte, Zenon DEF Stream!Next
  <2>2. ASSUME ~ReadByte(p) PROVE UNCHANGED ring /\ UNCHANGED <<writeopen, taken>>
    BY <1>3, <2>2, Zenon
    DEF Read, ReadEnter, ReadWaits, ReadWakes, ReadStarts, ReadEnds, ends, ring
  <2> QED BY <1>1, <2>1, <2>2, Zenon
<1>4. ASSUME NEW p \in Proc, PipeClose(p) PROVE RingInv' /\ [Stream!Next]_(Stream!vars)
  <2>1. UNCHANGED ring /\ taken' = taken /\ (writeopen' = writeopen \/ writeopen' = FALSE)
    BY <1>4, Zenon DEF PipeClose
  <2>2. RingInv' /\ UNCHANGED Queue
    BY <2>1, KeepsTheRing
  <2> QED BY <2>1, <2>2, Zenon DEF Stream!Next, Stream!Close
<1>5. ASSUME NEW p \in Proc, Alloc(p) PROVE RingInv' /\ [Stream!Next]_(Stream!vars)
  <2>1. /\ ~writeopen /\ writeopen' = TRUE /\ taken' = taken
        /\ nread' = 0 /\ nwrite' = 0 /\ data' = data
    BY <1>5, Zenon DEF Alloc, IInv, LiveInv
  <2>2. Count' = 0 /\ Queue' = <<>>
    BY <2>1, NoBytesAfter
  <2>3. RingInv'
    BY <2>1, <2>2, Counted, PipeAssumption DEF RingInv
  <2> QED BY <2>1, <2>2, <2>3, Zenon DEF Stream!Next, Stream!Renew
<1>6. ASSUME NEW p \in Proc, Close(p) \/ Kill(p) \/ \E q \in Proc : Fork(p, q)
      PROVE RingInv' /\ [Stream!Next]_(Stream!vars)
  BY <1>1, <1>6, Zenon DEF Close, Kill, Fork, ends
<1>7. CASE UNCHANGED vars
  BY <1>1, <1>7, Zenon DEF vars, ends
<1> QED BY <1>2, <1>3, <1>4, <1>5, <1>6, <1>7, Zenon DEF Next

\* A pipe is a byte stream: every byte that a writer puts comes out once and in
\* order, never more than PIPESIZE are under way, nothing goes in after the
\* last writer is gone; also when nread and nwrite have wrapped around.
THEOREM ImplementsByteStream == Spec => IsByteStream
<1>1. Init => RingInv /\ Stream!Init
  <2> SUFFICES ASSUME Init PROVE RingInv /\ Stream!Init
    OBVIOUS
  <2>1. /\ nread = 0 /\ nwrite = 0 /\ writeopen = TRUE /\ taken \in Byte
        /\ data \in [0..PIPESIZE - 1 -> Byte]
    BY Zenon DEF Init
  <2>2. Count = 0 /\ Queue = <<>>
    BY <2>1, NoBytes, Zenon
  <2>3. RingInv
    <3>1. PICK k \in 2..Width : Width = k * PIPESIZE
      BY PipeAssumption
    <3> QED BY <2>1, <2>2, <3>1, PipeAssumption DEF RingInv
  <2> QED BY <2>1, <2>2, <2>3, Zenon DEF Stream!Init
<1> QED BY <1>1, StreamNext, Invariance, PTL DEF Spec, IsByteStream, Stream!Spec
=============================================================================
