------------------------- MODULE BufferCacheProofs -------------------------
(***************************************************************************)
(* Theorems about BufferCache, for any number of processes, buffers and    *)
(* sectors, and whatever sectors the processes ask for: a buffer has one   *)
(* owner and a sector one buffer; no wakeup of the two kinds of sleepers   *)
(* is lost; nobody waits in a circle; and the cache with its disk is a     *)
(* store of sectors that one process at a time owns.                       *)
(***************************************************************************)
EXTENDS BufferCache, SequenceTheorems, TLAPS

\* The types the proofs need.
Types ==
  /\ idequeue \in Seq(Buf)
  /\ sector \in [Buf -> Sector \cup {NoSector}]
  /\ busy \subseteq Buf /\ valid \subseteq Buf /\ dirty \subseteq Buf
  /\ asleep \in [Proc -> Buf \cup {NoBuf}] /\ waits \subseteq Proc
  /\ held \in [Proc -> SUBSET Buf]
  /\ DOMAIN todo = Proc

\* A buffer that is B_BUSY has one owner, and a sector has one buffer.
OwnersInv ==
  /\ \A p \in Proc : held[p] \subseteq busy
  /\ \A p, q \in Proc : held[p] \cap held[q] # {} => p = q
  /\ \A b, c \in Buf : sector[b] = sector[c] /\ sector[b] # NoSector => b = c
  /\ \A p \in Proc : \A b \in held[p] : sector[b] # NoSector

\* Who is in the while of iderw() sleeps on its buffer, which the disk has to
\* do, or has been woken, and the buffer is done.
IderwInv ==
  \A p \in waits :
    /\ todo[p] # <<>>
    /\ \E b \in held[p] :
         /\ sector[b] = Head(todo[p]).s
         /\ \/ asleep[p] = b /\ b \in Range(idequeue)
            \/ asleep[p] = NoBuf /\ b \in valid \ dirty

\* NoLostWakeup is inductive with what it says of the owners.
IInv == Types /\ OwnersInv /\ IderwInv /\ NoLostWakeup
-----------------------------------------------------------------------------
\* Append adds one element to the range of a queue.
LEMMA RangeAppend ==
  ASSUME NEW S, NEW q \in Seq(S), NEW x \in S
  PROVE  Append(q, x) \in Seq(S) /\ Range(Append(q, x)) = Range(q) \cup {x}
<1>1. Append(q, x) \in Seq(S)
  OBVIOUS
<1>2. ASSUME NEW y \in Range(q) \cup {x} PROVE y \in Range(Append(q, x))
  <2>1. CASE y = x
    BY <2>1, SMTT(30) DEF Range
  <2>2. CASE y \in Range(q)
    BY <2>2, SMTT(30) DEF Range
  <2> QED BY <1>2, <2>1, <2>2
<1>3. ASSUME NEW y \in Range(Append(q, x)) PROVE y \in Range(q) \cup {x}
  BY <1>3, SMTT(30) DEF Range
<1> QED BY <1>1, <1>2, <1>3

\* Every element of a queue but its head is in its tail.
LEMMA RangeTail ==
  ASSUME NEW S, NEW q \in Seq(S), q # <<>>
  PROVE  /\ Head(q) \in S /\ Tail(q) \in Seq(S)
         /\ \A y \in Range(q) : y = Head(q) \/ y \in Range(Tail(q))
<1>1. Head(q) \in S /\ Tail(q) \in Seq(S)
  OBVIOUS
<1>2. ASSUME NEW y \in Range(q), y # Head(q) PROVE y \in Range(Tail(q))
  <2>1. PICK i \in 1..Len(q) : y = q[i]
    BY DEF Range
  <2>2. i - 1 \in DOMAIN Tail(q) /\ Tail(q)[i - 1] = y
    BY <1>2, <2>1, SMTT(30)
  <2> QED BY <2>2, Zenon DEF Range
<1> QED BY <1>1, <1>2

\* A process that starts a sequence of calls is in none.
LEMMA StartInv == ASSUME IInv, NEW p \in Proc, NEW calls, Start(p, calls) PROVE IInv'
<1>1. Types'
  BY SMTT(30) DEF Start, IInv, Types, cache, ide, flags
<1>2. OwnersInv'
  BY SMTT(30) DEF Start, IInv, OwnersInv, cache, ide, flags
<1>3. IderwInv'
  BY SMTT(30) DEF Start, IInv, Types, IderwInv, cache, ide, flags
<1>4. NoLostWakeup'
  BY SMTT(30) DEF Start, IInv, NoLostWakeup, cache, ide, flags
<1> QED BY <1>1, <1>2, <1>3, <1>4 DEF IInv

\* What a buffer appended to the queue of the disk does to it.
LEMMA QueueAppend ==
  ASSUME IInv, NEW b \in Buf
  PROVE  /\ Append(idequeue, b) \in Seq(Buf)
         /\ Range(Append(idequeue, b)) = Range(idequeue) \cup {b}
<1>1. idequeue \in Seq(Buf)
  BY DEF IInv, Types
<1> QED BY <1>1, RangeAppend

\* The interrupt wakes who sleeps on the buffer that is done.
LEMMA IdeintrInv == ASSUME IInv, Ideintr PROVE IInv'
<1>1. (Types /\ OwnersInv)'
  BY SMTT(30) DEF Ideintr, IInv, Types, WakeUp, OwnersInv
<1>2. (IderwInv /\ NoLostWakeup)'
  <2> DEFINE b == Head(idequeue)
  <2>1. /\ b \in Buf
        /\ \A c \in Range(idequeue) : c = b \/ c \in Range(idequeue')
    BY RangeTail, Zenon DEF Ideintr, IInv, Types
  <2>2. /\ \A p \in Proc : asleep'[p] = IF asleep[p] = b THEN NoBuf ELSE asleep[p]
        /\ valid' = valid \cup {b} /\ dirty' = dirty \ {b}
        /\ waits' = waits /\ todo' = todo /\ held' = held /\ sector' = sector /\ busy' = busy
    BY Zenon DEF Ideintr, WakeUp
  <2> HIDE DEF b
  <2>3. IderwInv'
    BY <2>1, <2>2, CacheAssumption, SMTT(30) DEF IInv, Types, IderwInv
  <2>4. NoLostWakeup'
    BY <2>1, <2>2, CacheAssumption, SMTT(30) DEF IInv, Types, NoLostWakeup
  <2> QED BY <2>3, <2>4
<1> QED BY <1>1, <1>2 DEF IInv

\* bget() finds the buffer of the sector and takes it; bread() may append it
\* to the queue.
LEMMA BgetFoundInv ==
  ASSUME IInv, NEW p \in Proc, NEW s \in Sector, BgetFound(p, s) PROVE IInv'
<1>1. OwnersInv'
  BY CacheAssumption, SMTT(30)
  DEF BgetFound, IInv, OwnersInv, Sector, Cached, Got
<1>2. NoLostWakeup'
  BY SMTT(30)
  DEF BgetFound, IInv, Types, NoLostWakeup, Sector, Got, log, Range
<1>3. (Types /\ IderwInv)'
  <2>1. PICK b \in Cached(s) \ busy : busy' = busy \cup {b} /\ Got(p, b, b \in valid)
    BY DEF BgetFound
  <2>2. b \in Buf /\ b \notin busy /\ sector[b] = s /\ p \notin waits /\ todo[p] # <<>> /\ Head(todo[p]).s = s
    BY DEF Cached, BgetFound, Calls
  <2>3. held' = [held EXCEPT ![p] = @ \cup {b}] /\ valid' = valid /\ dirty' = dirty /\ sector' = sector
    BY <2>1 DEF Got, BgetFound
  <2>4. CASE b \in valid
    <3>1. Returns(p) /\ waits' = waits /\ asleep' = asleep /\ idequeue' = idequeue
      BY <2>1, <2>4, Zenon DEF Got
    <3>2. Types'
      BY <2>1, <2>2, <2>3, <3>1, SMTT(30) DEF IInv, Types, Returns
    <3>3. IderwInv'
      <4>1. ASSUME NEW q \in waits
            PROVE  q # p /\ held'[q] = held[q] /\ todo'[q] = todo[q]
        BY <2>2, <2>3, <3>1, SMTT(30) DEF IInv, Types, Returns
      <4> QED BY <2>3, <3>1, <4>1, SMTT(30) DEF IInv, Types, IderwInv
    <3> QED BY <3>2, <3>3
  <2>5. CASE b \notin valid
    <3>1. /\ idequeue' = Append(idequeue, b) /\ waits' = waits \cup {p}
          /\ asleep' = [asleep EXCEPT ![p] = b] /\ todo' = todo
      BY <2>1, <2>5, Zenon DEF Got
    <3>2. idequeue' \in Seq(Buf) /\ Range(idequeue') = Range(idequeue) \cup {b}
      BY <2>2, <3>1, QueueAppend, Zenon
    <3>3. Types'
      BY <2>1, <2>2, <2>3, <3>1, <3>2, SMTT(30) DEF IInv, Types
    <3>4. IderwInv'
      BY <2>2, <2>3, <3>1, <3>2, SMTT(30) DEF IInv, Types, IderwInv
    <3> QED BY <3>3, <3>4
  <2> QED BY <2>4, <2>5
<1> QED BY <1>1, <1>2, <1>3 DEF IInv

\* bget() sleeps on a buffer that is B_BUSY.
LEMMA BgetSleepsInv ==
  ASSUME IInv, NEW p \in Proc, NEW s \in Sector, BgetSleeps(p, s) PROVE IInv'
<1>1. (Types /\ OwnersInv /\ IderwInv /\ NoLostWakeup)'
  BY SMTT(30)
  DEF BgetSleeps, IInv, Types, cache, ide, flags, OwnersInv, IderwInv, Calls,
     NoLostWakeup
<1> QED BY <1>1 DEF IInv

\* bget() recycles a buffer that nobody has; it goes to the disk.
LEMMA BgetRecyclesInv ==
  ASSUME IInv, NEW p \in Proc, NEW s \in Sector, BgetRecycles(p, s) PROVE IInv'
<1>1. OwnersInv'
  BY CacheAssumption, SMTT(30)
  DEF BgetRecycles, IInv, Types, OwnersInv, Sector, Cached, Recyclable, Got
<1>2. (Types /\ IderwInv /\ NoLostWakeup)'
  <2>1. PICK b \in Recyclable :
         /\ sector' = [sector EXCEPT ![b] = s]
         /\ busy' = busy \cup {b} /\ valid' = valid \ {b} /\ dirty' = dirty \ {b}
         /\ Got(p, b, FALSE)
    BY DEF BgetRecycles
  <2>2. b \in Buf /\ b \notin busy /\ p \notin waits /\ todo[p] # <<>> /\ Head(todo[p]).s = s
    BY DEF Recyclable, BgetRecycles, Calls
  <2>3. /\ held' = [held EXCEPT ![p] = @ \cup {b}]
        /\ idequeue' = Append(idequeue, b) /\ waits' = waits \cup {p}
        /\ asleep' = [asleep EXCEPT ![p] = b] /\ todo' = todo
      BY <2>1, Zenon DEF Got
  <2>4. idequeue' \in Seq(Buf) /\ Range(idequeue') = Range(idequeue) \cup {b}
      BY <2>2, <2>3, QueueAppend, Zenon
  <2>5. Types'
      BY <2>1, <2>2, <2>3, <2>4, SMTT(30) DEF IInv, Types
  <2>6. IderwInv'
      BY <2>1, <2>2, <2>3, <2>4, SMTT(30) DEF IInv, Types, OwnersInv, IderwInv
  <2>7. NoLostWakeup'
      BY <2>1, <2>2, <2>3, <2>4, SMTT(30) DEF IInv, Types, NoLostWakeup
  <2> QED BY <2>5, <2>6, <2>7
<1> QED BY <1>1, <1>2 DEF IInv

\* brelse() wakes who sleeps on the buffer; nobody in iderw() does, it is not
\* theirs.
LEMMA BrelseInv ==
  ASSUME IInv, NEW p \in Proc, NEW s \in Sector, Brelse(p, s) PROVE IInv'
<1>1. (Types /\ NoLostWakeup)'
  BY SMTT(30) DEF Brelse, IInv, Types, Returns, WakeUp, ide, NoLostWakeup
<1>2. OwnersInv'
  BY SMTT(30) DEF Brelse, IInv, Types, OwnersInv, Mine
<1>3. IderwInv'
  <2>1. PICK b \in held[p] : held' = [held EXCEPT ![p] = @ \ {b}] /\ WakeUp(b)
    BY DEF Brelse, Mine
  <2>2. p \notin waits /\ todo' = [todo EXCEPT ![p] = Tail(@)] /\ waits' = waits
        /\ sector' = sector /\ valid' = valid /\ dirty' = dirty /\ idequeue' = idequeue
    BY DEF Brelse, Calls, Returns, ide
  <2>3. ASSUME NEW q \in waits PROVE q # p /\ asleep'[q] = asleep[q] /\ held'[q] = held[q] /\ todo'[q] = todo[q]
    <3>1. asleep[q] # b
      BY <2>1, <2>2, CacheAssumption, SMTT(30) DEF IInv, Types, OwnersInv, IderwInv
    <3> QED BY <2>1, <2>2, <3>1, SMTT(30) DEF IInv, Types, WakeUp
  <2> QED BY <2>2, <2>3, SMTT(30) DEF IInv, Types, IderwInv
<1> QED BY <1>1, <1>2, <1>3 DEF IInv

\* bwrite() appends its own buffer to the queue and sleeps on it.
LEMMA BwriteInv ==
  ASSUME IInv, NEW p \in Proc, NEW s \in Sector, Bwrite(p, s) PROVE IInv'
<1>1. (Types /\ OwnersInv)'
  BY SMTT(30) DEF Bwrite, IInv, Types, Mine, OwnersInv
<1>2. IderwInv'
  BY SMTT(30)
  DEF Bwrite, IInv, Types, OwnersInv, IderwInv, Sector, Calls, Mine, Range
<1>3. NoLostWakeup'
  <2>1. PICK b \in Mine(p, s) : idequeue' = Append(idequeue, b) /\ asleep' = [asleep EXCEPT ![p] = b]
    BY DEF Bwrite
  <2>2. b \in Buf
    BY SMTT(30) DEF IInv, Types, Mine
  <2>3. Range(idequeue') = Range(idequeue) \cup {b}
    BY <2>1, <2>2, QueueAppend, Zenon
  <2> QED BY <2>1, <2>3, SMTT(30) DEF Bwrite, IInv, Types, NoLostWakeup
<1> QED BY <1>1, <1>2, <1>3 DEF IInv

\* The while of iderw() ends: nobody else could change the flags of the
\* buffer.
LEMMA IderwGoesOnInv ==
  ASSUME IInv, NEW p \in Proc, IderwGoesOn(p) PROVE IInv'
<1>1. (Types /\ OwnersInv)'
  BY SMTT(30)
  DEF IderwGoesOn, IInv, Types, Returns, Mine, cache, ide, flags, OwnersInv
<1>2. IderwInv'
  BY SMTT(30)
  DEF IderwGoesOn, IInv, Types, OwnersInv, IderwInv, Returns, Mine, cache,
     ide, flags
<1>3. NoLostWakeup'
  BY SMTT(30)
  DEF IderwGoesOn, IInv, Types, OwnersInv, IderwInv, NoLostWakeup, Mine,
     cache, ide, flags
<1> QED BY <1>1, <1>2, <1>3 DEF IInv

\* log_write() goes on with its calls.
LEMMA LogWriteInv ==
  ASSUME IInv, NEW p \in Proc, NEW s \in Sector, LogWrite(p, s) PROVE IInv'
<1>1. Types'
  BY SMTT(30) DEF LogWrite, IInv, Types, cache, ide, flags
<1>2. OwnersInv'
  BY SMTT(30) DEF LogWrite, IInv, OwnersInv, cache, flags
<1>3. IderwInv'
  BY SMTT(30) DEF LogWrite, IInv, IderwInv, Calls, cache, ide, flags
<1>4. NoLostWakeup'
  BY SMTT(30) DEF LogWrite, IInv, NoLostWakeup, cache, ide, flags
<1> QED BY <1>1, <1>2, <1>3, <1>4 DEF IInv

\* install_trans() goes on with its next block.
LEMMA InstallTransInv ==
  ASSUME IInv, NEW p \in Proc, InstallTrans(p) PROVE IInv'
<1>1. PICK q : todo' = [todo EXCEPT ![p] = q]
  BY DEF InstallTrans
<1>2. p \notin waits /\ UNCHANGED <<cache, ide, asleep, waits, held>>
  BY DEF InstallTrans
<1>3. Types'
  BY <1>1, <1>2 DEF IInv, Types, cache, ide, flags
<1>4. OwnersInv'
  BY <1>2 DEF IInv, OwnersInv, cache, flags
<1>5. IderwInv'
  <2>1. \A r \in waits : todo'[r] = todo[r]
    BY <1>1, <1>2 DEF IInv, Types
  <2> QED BY <1>2, <2>1 DEF IInv, IderwInv, cache, ide, flags
<1>6. NoLostWakeup'
  BY <1>2 DEF IInv, NoLostWakeup, cache, ide, flags
<1> QED BY <1>3, <1>4, <1>5, <1>6 DEF IInv

\* The data of an own buffer are changed.
LEMMA ModifyInv ==
  ASSUME IInv, NEW p \in Proc, NEW s \in Sector, Modify(p, s) PROVE IInv'
<1>1. (Types /\ OwnersInv /\ NoLostWakeup)'
  BY SMTT(30)
  DEF Modify, IInv, Types, Returns, flags, ide, OwnersInv, NoLostWakeup
<1>2. IderwInv'
  BY SMTT(30) DEF Modify, Calls, Returns, IInv, Types, IderwInv, flags, ide
<1> QED BY <1>1, <1>2 DEF IInv

\* The data of an own buffer are copied into another.
LEMMA MemmoveInv ==
  ASSUME IInv, NEW p \in Proc, NEW s \in Sector, Memmove(p, s) PROVE IInv'
<1>1. (Types /\ OwnersInv /\ IderwInv /\ NoLostWakeup)'
  BY SMTT(30)
  DEF Memmove, IInv, Types, Returns, flags, ide, OwnersInv, IderwInv, Calls,
     NoLostWakeup
<1> QED BY <1>1 DEF IInv

\* log_write() pins its own buffer with B_DIRTY.
LEMMA PinInv ==
  ASSUME IInv, NEW p \in Proc, NEW s \in Sector, Pin(p, s) PROVE IInv'
<1>1. Types'
  BY SMTT(30) DEF Pin, IInv, Types, Returns, Mine, ide
<1>2. OwnersInv'
  BY SMTT(30) DEF Pin, IInv, OwnersInv
<1>3. IderwInv'
  BY SMTT(30)
  DEF Pin, IInv, Types, OwnersInv, IderwInv, Calls, Returns, Mine, ide
<1>4. NoLostWakeup'
  BY SMTT(30) DEF Pin, IInv, NoLostWakeup, ide
<1> QED BY <1>1, <1>2, <1>3, <1>4 DEF IInv

\* The log is emptied.
LEMMA ClearInv ==
  ASSUME IInv, NEW p \in Proc, NEW s \in Sector, Clear(p, s) PROVE IInv'
<1>1. (Types /\ OwnersInv /\ IderwInv /\ NoLostWakeup)'
  BY SMTT(30)
  DEF Clear, IInv, Types, Returns, cache, ide, flags, OwnersInv, IderwInv,
     Calls, NoLostWakeup
<1> QED BY <1>1 DEF IInv

\* commit_trans() ends.
LEMMA FreeInv ==
  ASSUME IInv, NEW p \in Proc, NEW s \in Sector, Free(p, s) PROVE IInv'
<1>1. (Types /\ OwnersInv /\ IderwInv /\ NoLostWakeup)'
  BY SMTT(30)
  DEF Free, IInv, Types, Returns, cache, ide, flags, OwnersInv, IderwInv,
     Calls, NoLostWakeup
<1> QED BY <1>1 DEF IInv

-----------------------------------------------------------------------------
\* An empty cache satisfies the invariant.
LEMMA InitInv == Init => IInv
<1> SUFFICES ASSUME Init PROVE IInv
  OBVIOUS
<1>1. Types
  BY SMTT(30) DEF Init, Types
<1>2. OwnersInv /\ IderwInv /\ NoLostWakeup
  BY SMTT(30) DEF Init, OwnersInv, IderwInv, NoLostWakeup
<1> QED BY <1>1, <1>2 DEF IInv

\* The calls of a process preserve the invariant, in whatever order.
LEMMA ContinueInv == ASSUME IInv, NEW p \in Proc, Continue(p) PROVE IInv'
BY IderwGoesOnInv, InstallTransInv, BgetFoundInv, BgetSleepsInv, BgetRecyclesInv, BrelseInv, BwriteInv,
   LogWriteInv, ModifyInv, MemmoveInv, PinInv, ClearInv, FreeInv DEF Continue

\* The invariant is inductive.
LEMMA NextInv == IInv /\ [Next]_vars => IInv'
<1> SUFFICES ASSUME IInv, [Next]_vars PROVE IInv'
  OBVIOUS
<1>1. CASE Ideintr
  BY <1>1, IdeintrInv
<1>2. ASSUME NEW p \in Proc,
             StartRead(p) \/ BeginTrans(p) \/ StartUpdate(p) \/ CommitTrans(p)
      PROVE  IInv'
  BY <1>2, StartInv DEF StartRead, BeginTrans, StartUpdate, CommitTrans
<1>3. ASSUME NEW p \in Proc, Continue(p) PROVE IInv'
  BY <1>3, ContinueInv
<1>4. CASE UNCHANGED vars
  BY <1>4 DEF vars, cache, flags, ide, IInv, Types, OwnersInv, IderwInv, NoLostWakeup
<1> QED BY <1>1, <1>2, <1>3, <1>4 DEF Next

\* Every reachable state satisfies the invariant.
THEOREM Invariance == Spec => []IInv
BY InitInv, NextInv, PTL DEF Spec

\* From bread() to brelse() a buffer belongs to one process, and no sector is
\* ever in two buffers, although bget() gives bcache.lock back while it sleeps
\* and recycles buffers of other sectors.
THEOREM BuffersHaveOneOwner == Spec => []OwnersInv
BY Invariance, PTL DEF IInv

\* Who sleeps for a buffer will be woken by its owner's brelse(), who sleeps
\* for the disk by the interrupt, although both sleep on the same channel
\* under two locks.
THEOREM CacheWakeups == Spec => []NoLostWakeup
BY Invariance, PTL DEF IInv

-----------------------------------------------------------------------------
(* What a process is still going to do, and what it has in its hands.       *)

Call == [f : {"bread", "modify", "log_write", "brelse", "bwrite", "pin", "clear", "free"},
         s : Sector]
        \cup [f : {"memmove"}, s : Sector, from : Sector]
        \cup [f : {"install"}, tail : Nat]

\* Before each call of an update of s, and then of the calls Q.
AtBrelse(s, Q)   == Cons(Op("brelse", s), Q)
AtLogWrite(s, Q) == Cons(Op("log_write", s), AtBrelse(s, Q))
AtModify(s, Q)   == Cons(Op("modify", s), AtLogWrite(s, Q))
AtBread(s, Q)    == Cons(Op("bread", s), AtModify(s, Q))

\* Before each call of log_write(), for s and its sector t in the log.
AtPin(s, Q)           == Cons(Op("pin", s), AtBrelse(s, Q))
AtSlotBrelse(t, s, Q) == Cons(Op("brelse", t), AtPin(s, Q))
AtSlotBwrite(t, s, Q) == Cons(Op("bwrite", t), AtSlotBrelse(t, s, Q))
AtSlotCopy(t, s, Q)   == Cons(Copy(t, s), AtSlotBwrite(t, s, Q))
AtSlotBread(t, s, Q)  == Cons(Op("bread", t), AtSlotCopy(t, s, Q))

\* Before each call of write_head().
AtHeadBrelse(Q) == Cons(Op("brelse", Header), Q)
AtHeadBwrite(Q) == Cons(Op("bwrite", Header), AtHeadBrelse(Q))
AtHeadBread(Q)  == Cons(Op("bread", Header), AtHeadBwrite(Q))

\* The rest of commit_trans(), and the calls of one turn of install_trans().
AtFree       == Cons(Op("free", Header), <<>>)
AtClear      == Cons(Op("clear", Header), AtHeadBread(AtFree))
AtInstall(i) == Cons(Install(i), AtClear)
AtHomeBrelse(s, i)    == Cons(Op("brelse", s), AtInstall(i))
AtBlockBrelse(t, s, i) == Cons(Op("brelse", t), AtHomeBrelse(s, i))
AtHomeBwrite(t, s, i) == Cons(Op("bwrite", s), AtBlockBrelse(t, s, i))
AtHomeCopy(t, s, i)   == Cons(Copy(s, t), AtHomeBwrite(t, s, i))
AtHomeBread(t, s, i)  == Cons(Op("bread", s), AtHomeCopy(t, s, i))
AtBlockBread(t, s, i) == Cons(Op("bread", t), AtHomeBread(t, s, i))

\* A log of n sectors has room for k more.
Fits(n, k) == n + k <= Len(Slot)

\* An update of s is made alone, or inside the update of another sector,
\* which the process has and which needs its own place in the log.
Inside(s, Q, G, m) ==
  \/ Q = <<>> /\ G = {} /\ m = 0
  \/ \E r \in Home \ {s} : Q = AtModify(r, <<>>) /\ G = {r} /\ m = 1

\* With the calls q still to make, a process has the sectors H and has to save
\* the sectors U before it releases them.
UpdateStage(q, H, U, n, s, Q, G, m) ==
  \/ q = AtBread(s, Q)    /\ H = G          /\ U = {}  /\ Fits(n, 1 + m)
  \/ q = AtModify(s, Q)   /\ H = G \cup {s} /\ U = {}  /\ Fits(n, 1 + m)
  \/ q = AtLogWrite(s, Q) /\ H = G \cup {s} /\ U = {s} /\ Fits(n, 1 + m)
  \/ q = AtBrelse(s, Q)   /\ H = G \cup {s} /\ U = {}  /\ Fits(n, m)

LogStage(q, H, U, n, t, s, Q, G, m) ==
  /\ Fits(n, 1 + m)
  /\ \/ q = AtSlotBread(t, s, Q)  /\ H = G \cup {s}    /\ U = {s}
     \/ q = AtSlotCopy(t, s, Q)   /\ H = G \cup {s, t} /\ U = {s}
     \/ q = AtSlotBwrite(t, s, Q) /\ H = G \cup {s, t} /\ U = {s, t}
     \/ q = AtSlotBrelse(t, s, Q) /\ H = G \cup {s, t} /\ U = {s}
     \/ q = AtPin(s, Q)           /\ H = G \cup {s}    /\ U = {s}

InstallStage(q, H, U, t, s, i) ==
  \/ q = AtBlockBread(t, s, i)  /\ H = {}     /\ U = {}
  \/ q = AtHomeBread(t, s, i)   /\ H = {t}    /\ U = {}
  \/ q = AtHomeCopy(t, s, i)    /\ H = {s, t} /\ U = {}
  \/ q = AtHomeBwrite(t, s, i)  /\ H = {s, t} /\ U = {s}
  \/ q = AtBlockBrelse(t, s, i) /\ H = {s, t} /\ U = {}
  \/ q = AtHomeBrelse(s, i)     /\ H = {s}    /\ U = {}

HeadStage(q, H, U, Q) ==
  \/ q = AtHeadBread(Q)  /\ H = {}       /\ U = {}
  \/ q = AtHeadBwrite(Q) /\ H = {Header} /\ U = {}
  \/ q = AtHeadBrelse(Q) /\ H = {Header} /\ U = {}

WriterStage(q, H, U, n) ==
  \/ q = <<>> /\ H = {} /\ U = {}
  \/ \E s \in Home, Q \in Seq(Call), G \in SUBSET Home, m \in {0, 1} :
       /\ Inside(s, Q, G, m)
       /\ \/ UpdateStage(q, H, U, n, s, Q, G, m)
          \/ \E t \in LogSlots : LogStage(q, H, U, n, t, s, Q, G, m)
  \/ \E s, r \in Home :
       s # r /\ q = Cons(Op("bread", r), AtBread(s, AtModify(r, <<>>))) /\ H = {} /\ U = {} /\ Fits(n, 2)
  \/ \E t \in LogSlots, s \in Home, i \in Nat \ {0} : InstallStage(q, H, U, t, s, i)
  \/ \E i \in Nat \ {0} : HeadStage(q, H, U, AtInstall(i)) \/ (q = AtInstall(i) /\ H = {} /\ U = {})
  \/ HeadStage(q, H, U, AtFree)
  \/ q \in {AtClear, AtFree} /\ H = {} /\ U = {}

ReaderStage(q, H, U) ==
  /\ U = {}
  /\ \/ q = <<>> /\ H = {}
     \/ \E s \in Home : q = Read(s) /\ H = {}
     \/ \E s \in Home : q = AtBrelse(s, <<>>) /\ H = {s}

Stage(w, q, H, U, n) == IF w THEN WriterStage(q, H, U, n) ELSE ReaderStage(q, H, U)

\* What the call c does to the sectors a process has and to those it has to
\* save.
Move(c, H, U, H2, U2) ==
  \/ c.f = "bread" /\ c.s \in Sector \ H /\ H2 = H \cup {c.s} /\ U2 = U
  \/ c.f = "brelse" /\ c.s \in H \ U /\ H2 = H \ {c.s} /\ U2 = U
  \/ c.f = "modify" /\ c.s \in H /\ H2 = H /\ U2 = U \cup {c.s}
  \/ c.f = "memmove" /\ c.s \in H /\ c.from \in H /\ H2 = H /\ U2 = U \cup {c.s}
  \/ c.f = "bwrite" /\ c.s \in H /\ H2 = H /\ U2 = U \ {c.s}

-----------------------------------------------------------------------------
\* A call in front of others.
LEMMA ConsIs ==
  ASSUME NEW c \in Call, NEW q \in Seq(Call)
  PROVE  /\ Cons(c, q) \in Seq(Call) /\ Cons(c, q) # <<>>
         /\ Head(Cons(c, q)) = c /\ Tail(Cons(c, q)) = q
<1>1. ASSUME NEW S, c \in S, q \in Seq(S)
      PROVE  /\ <<c>> \o q \in Seq(S) /\ <<c>> \o q # <<>>
             /\ Head(<<c>> \o q) = c /\ Tail(<<c>> \o q) = q
  BY <1>1
<1> QED BY <1>1 DEF Cons

\* The records are calls.
LEMMA Calling ==
  ASSUME NEW s \in Sector
  PROVE  /\ Op("bread", s) \in Call /\ Op("modify", s) \in Call /\ Op("log_write", s) \in Call
         /\ Op("brelse", s) \in Call /\ Op("bwrite", s) \in Call /\ Op("pin", s) \in Call
         /\ Op("clear", s) \in Call /\ Op("free", s) \in Call
BY DEF Op, Call

\* Those of memmove() and install_trans() as well.
LEMMA Copying ==
  /\ \A t, s \in Sector : Copy(t, s) \in Call
  /\ \A i \in Nat : Install(i) \in Call
BY DEF Copy, Install, Call

\* Three pieces in a row.
LEMMA Concat3 == \A a, b, c \in Seq(Call) : (a \o b) \o c = a \o (b \o c)
BY ConcatAssociative

\* The calls of an update, one after the other.
LEMMA UpdateForms ==
  ASSUME NEW s \in Sector, NEW Q \in Seq(Call)
  PROVE  /\ AtBrelse(s, Q) \in Seq(Call) /\ AtBrelse(s, Q) # <<>>
         /\ Head(AtBrelse(s, Q)) = Op("brelse", s) /\ Tail(AtBrelse(s, Q)) = Q
         /\ AtLogWrite(s, Q) \in Seq(Call) /\ AtLogWrite(s, Q) # <<>>
         /\ Head(AtLogWrite(s, Q)) = Op("log_write", s)
         /\ Tail(AtLogWrite(s, Q)) = AtBrelse(s, Q)
         /\ AtModify(s, Q) \in Seq(Call) /\ AtModify(s, Q) # <<>>
         /\ Head(AtModify(s, Q)) = Op("modify", s) /\ Tail(AtModify(s, Q)) = AtLogWrite(s, Q)
         /\ AtBread(s, Q) \in Seq(Call) /\ AtBread(s, Q) # <<>>
         /\ Head(AtBread(s, Q)) = Op("bread", s) /\ Tail(AtBread(s, Q)) = AtModify(s, Q)
BY Calling, ConsIs, Zenon DEF AtBrelse, AtLogWrite, AtModify, AtBread

\* The calls of log_write().
LEMMA LogForms ==
  ASSUME NEW s \in Sector, NEW t \in Sector, NEW Q \in Seq(Call)
  PROVE  /\ AtPin(s, Q) \in Seq(Call) /\ AtPin(s, Q) # <<>>
         /\ Head(AtPin(s, Q)) = Op("pin", s) /\ Tail(AtPin(s, Q)) = AtBrelse(s, Q)
         /\ AtSlotBrelse(t, s, Q) \in Seq(Call) /\ AtSlotBrelse(t, s, Q) # <<>>
         /\ Head(AtSlotBrelse(t, s, Q)) = Op("brelse", t)
         /\ Tail(AtSlotBrelse(t, s, Q)) = AtPin(s, Q)
         /\ AtSlotBwrite(t, s, Q) \in Seq(Call) /\ AtSlotBwrite(t, s, Q) # <<>>
         /\ Head(AtSlotBwrite(t, s, Q)) = Op("bwrite", t)
         /\ Tail(AtSlotBwrite(t, s, Q)) = AtSlotBrelse(t, s, Q)
         /\ AtSlotCopy(t, s, Q) \in Seq(Call) /\ AtSlotCopy(t, s, Q) # <<>>
         /\ Head(AtSlotCopy(t, s, Q)) = Copy(t, s)
         /\ Tail(AtSlotCopy(t, s, Q)) = AtSlotBwrite(t, s, Q)
         /\ AtSlotBread(t, s, Q) \in Seq(Call) /\ AtSlotBread(t, s, Q) # <<>>
         /\ Head(AtSlotBread(t, s, Q)) = Op("bread", t)
         /\ Tail(AtSlotBread(t, s, Q)) = AtSlotCopy(t, s, Q)
<1>1. /\ AtPin(s, Q) \in Seq(Call) /\ AtPin(s, Q) # <<>>
      /\ Head(AtPin(s, Q)) = Op("pin", s) /\ Tail(AtPin(s, Q)) = AtBrelse(s, Q)
  BY UpdateForms, Calling, ConsIs, ZenonT(60) DEF AtPin
<1>2. /\ AtSlotBrelse(t, s, Q) \in Seq(Call) /\ AtSlotBrelse(t, s, Q) # <<>>
      /\ Head(AtSlotBrelse(t, s, Q)) = Op("brelse", t) /\ Tail(AtSlotBrelse(t, s, Q)) = AtPin(s, Q)
  BY <1>1, Calling, ConsIs, ZenonT(60) DEF AtSlotBrelse
<1>3. /\ AtSlotBwrite(t, s, Q) \in Seq(Call) /\ AtSlotBwrite(t, s, Q) # <<>>
      /\ Head(AtSlotBwrite(t, s, Q)) = Op("bwrite", t) /\ Tail(AtSlotBwrite(t, s, Q)) = AtSlotBrelse(t, s, Q)
  BY <1>2, Calling, ConsIs, ZenonT(60) DEF AtSlotBwrite
<1>4. /\ AtSlotCopy(t, s, Q) \in Seq(Call) /\ AtSlotCopy(t, s, Q) # <<>>
      /\ Head(AtSlotCopy(t, s, Q)) = Copy(t, s) /\ Tail(AtSlotCopy(t, s, Q)) = AtSlotBwrite(t, s, Q)
  BY <1>3, Copying, ConsIs, ZenonT(60) DEF AtSlotCopy
<1>5. /\ AtSlotBread(t, s, Q) \in Seq(Call) /\ AtSlotBread(t, s, Q) # <<>>
      /\ Head(AtSlotBread(t, s, Q)) = Op("bread", t) /\ Tail(AtSlotBread(t, s, Q)) = AtSlotCopy(t, s, Q)
  BY <1>4, Calling, ConsIs, ZenonT(60) DEF AtSlotBread
<1> QED BY <1>1, <1>2, <1>3, <1>4, <1>5

\* The calls of write_head().
LEMMA HeadForms ==
  ASSUME NEW Q \in Seq(Call)
  PROVE  /\ AtHeadBrelse(Q) \in Seq(Call) /\ AtHeadBrelse(Q) # <<>>
         /\ Head(AtHeadBrelse(Q)) = Op("brelse", Header) /\ Tail(AtHeadBrelse(Q)) = Q
         /\ AtHeadBwrite(Q) \in Seq(Call) /\ AtHeadBwrite(Q) # <<>>
         /\ Head(AtHeadBwrite(Q)) = Op("bwrite", Header)
         /\ Tail(AtHeadBwrite(Q)) = AtHeadBrelse(Q)
         /\ AtHeadBread(Q) \in Seq(Call) /\ AtHeadBread(Q) # <<>>
         /\ Head(AtHeadBread(Q)) = Op("bread", Header) /\ Tail(AtHeadBread(Q)) = AtHeadBwrite(Q)
<1>1. Header \in Sector
  BY DEF Sector
<1> QED BY <1>1, Calling, ConsIs, Zenon DEF AtHeadBrelse, AtHeadBwrite, AtHeadBread

\* The end of commit_trans().
LEMMA CommitForms ==
  ASSUME NEW i \in Nat
  PROVE  /\ AtFree \in Seq(Call) /\ AtFree # <<>>
         /\ Head(AtFree) = Op("free", Header) /\ Tail(AtFree) = <<>>
         /\ AtClear \in Seq(Call) /\ AtClear # <<>>
         /\ Head(AtClear) = Op("clear", Header) /\ Tail(AtClear) = AtHeadBread(AtFree)
         /\ AtInstall(i) \in Seq(Call) /\ AtInstall(i) # <<>>
         /\ Head(AtInstall(i)) = Install(i) /\ Tail(AtInstall(i)) = AtClear
<1>1. Header \in Sector /\ <<>> \in Seq(Call)
  BY DEF Sector
<1>2. /\ AtFree \in Seq(Call) /\ AtFree # <<>>
      /\ Head(AtFree) = Op("free", Header)
      /\ Tail(AtFree) = <<>>
  BY <1>1, HeadForms, Calling, ConsIs, Zenon DEF AtFree
<1>3. /\ AtClear \in Seq(Call) /\ AtClear # <<>>
      /\ Head(AtClear) = Op("clear", Header)
      /\ Tail(AtClear) = AtHeadBread(AtFree)
  BY <1>2, <1>1, HeadForms, Calling, ConsIs, Zenon DEF AtClear
<1>4. /\ AtInstall(i) \in Seq(Call) /\ AtInstall(i) # <<>>
      /\ Head(AtInstall(i)) = Install(i)
      /\ Tail(AtInstall(i)) = AtClear
  BY <1>3, <1>1, HeadForms, Copying, ConsIs, Zenon DEF AtInstall
<1> QED BY <1>2, <1>3, <1>4, Zenon

\* The calls of one turn of install_trans().
LEMMA InstallForms ==
  ASSUME NEW t \in Sector, NEW s \in Sector, NEW i \in Nat
  PROVE  /\ AtHomeBrelse(s, i) \in Seq(Call) /\ AtHomeBrelse(s, i) # <<>>
         /\ Head(AtHomeBrelse(s, i)) = Op("brelse", s) /\ Tail(AtHomeBrelse(s, i)) = AtInstall(i)
         /\ AtBlockBrelse(t, s, i) \in Seq(Call) /\ AtBlockBrelse(t, s, i) # <<>>
         /\ Head(AtBlockBrelse(t, s, i)) = Op("brelse", t)
         /\ Tail(AtBlockBrelse(t, s, i)) = AtHomeBrelse(s, i)
         /\ AtHomeBwrite(t, s, i) \in Seq(Call) /\ AtHomeBwrite(t, s, i) # <<>>
         /\ Head(AtHomeBwrite(t, s, i)) = Op("bwrite", s)
         /\ Tail(AtHomeBwrite(t, s, i)) = AtBlockBrelse(t, s, i)
         /\ AtHomeCopy(t, s, i) \in Seq(Call) /\ AtHomeCopy(t, s, i) # <<>>
         /\ Head(AtHomeCopy(t, s, i)) = Copy(s, t)
         /\ Tail(AtHomeCopy(t, s, i)) = AtHomeBwrite(t, s, i)
         /\ AtHomeBread(t, s, i) \in Seq(Call) /\ AtHomeBread(t, s, i) # <<>>
         /\ Head(AtHomeBread(t, s, i)) = Op("bread", s)
         /\ Tail(AtHomeBread(t, s, i)) = AtHomeCopy(t, s, i)
         /\ AtBlockBread(t, s, i) \in Seq(Call) /\ AtBlockBread(t, s, i) # <<>>
         /\ Head(AtBlockBread(t, s, i)) = Op("bread", t)
         /\ Tail(AtBlockBread(t, s, i)) = AtHomeBread(t, s, i)
<1>1. /\ AtHomeBrelse(s, i) \in Seq(Call) /\ AtHomeBrelse(s, i) # <<>>
      /\ Head(AtHomeBrelse(s, i)) = Op("brelse", s) /\ Tail(AtHomeBrelse(s, i)) = AtInstall(i)
  BY CommitForms, Calling, ConsIs, ZenonT(60) DEF AtHomeBrelse
<1>2. /\ AtBlockBrelse(t, s, i) \in Seq(Call) /\ AtBlockBrelse(t, s, i) # <<>>
      /\ Head(AtBlockBrelse(t, s, i)) = Op("brelse", t) /\ Tail(AtBlockBrelse(t, s, i)) = AtHomeBrelse(s, i)
  BY <1>1, Calling, ConsIs, ZenonT(60) DEF AtBlockBrelse
<1>3. /\ AtHomeBwrite(t, s, i) \in Seq(Call) /\ AtHomeBwrite(t, s, i) # <<>>
      /\ Head(AtHomeBwrite(t, s, i)) = Op("bwrite", s) /\ Tail(AtHomeBwrite(t, s, i)) = AtBlockBrelse(t, s, i)
  BY <1>2, Calling, ConsIs, ZenonT(60) DEF AtHomeBwrite
<1>4. /\ AtHomeCopy(t, s, i) \in Seq(Call) /\ AtHomeCopy(t, s, i) # <<>>
      /\ Head(AtHomeCopy(t, s, i)) = Copy(s, t) /\ Tail(AtHomeCopy(t, s, i)) = AtHomeBwrite(t, s, i)
  BY <1>3, Copying, ConsIs, ZenonT(60) DEF AtHomeCopy
<1>5. /\ AtHomeBread(t, s, i) \in Seq(Call) /\ AtHomeBread(t, s, i) # <<>>
      /\ Head(AtHomeBread(t, s, i)) = Op("bread", s) /\ Tail(AtHomeBread(t, s, i)) = AtHomeCopy(t, s, i)
  BY <1>4, Calling, ConsIs, ZenonT(60) DEF AtHomeBread
<1>6. /\ AtBlockBread(t, s, i) \in Seq(Call) /\ AtBlockBread(t, s, i) # <<>>
      /\ Head(AtBlockBread(t, s, i)) = Op("bread", t) /\ Tail(AtBlockBread(t, s, i)) = AtHomeBread(t, s, i)
  BY <1>5, Calling, ConsIs, ZenonT(60) DEF AtBlockBread
<1> QED BY <1>1, <1>2, <1>3, <1>4, <1>5, <1>6

\* A few calls in front of others.
LEMMA Tuple1 == ASSUME NEW a \in Call, NEW q \in Seq(Call) PROVE <<a>> \o q = Cons(a, q)
BY Zenon DEF Cons

\* Two calls.
LEMMA Tuple2 ==
  ASSUME NEW a \in Call, NEW b \in Call, NEW q \in Seq(Call)
  PROVE  <<a, b>> \o q = Cons(a, Cons(b, q))
<1>1. <<a, b>> \o q \in Seq(Call) /\ <<a>> \o (<<b>> \o q) \in Seq(Call)
  OBVIOUS
<1>2. Len(<<a, b>> \o q) = Len(<<a>> \o (<<b>> \o q))
  OBVIOUS
<1>3. ASSUME NEW i \in 1..Len(<<a, b>> \o q)
      PROVE  (<<a, b>> \o q)[i] = (<<a>> \o (<<b>> \o q))[i]
  OBVIOUS
<1>4. <<a, b>> \o q = <<a>> \o (<<b>> \o q)
  BY <1>1, <1>2, <1>3, SeqEqual
<1>5. <<b>> \o q = Cons(b, q)
  BY Tuple1
<1> QED BY <1>4, <1>5, Zenon DEF Cons

\* Three calls.
LEMMA Tuple3 ==
  ASSUME NEW a \in Call, NEW b \in Call, NEW c \in Call, NEW q \in Seq(Call)
  PROVE  <<a, b, c>> \o q = Cons(a, Cons(b, Cons(c, q)))
<1>1. <<a, b, c>> \o q \in Seq(Call) /\ <<a>> \o (<<b, c>> \o q) \in Seq(Call)
  OBVIOUS
<1>2. Len(<<a, b, c>> \o q) = Len(<<a>> \o (<<b, c>> \o q))
  OBVIOUS
<1>3. ASSUME NEW i \in 1..Len(<<a, b, c>> \o q)
      PROVE  (<<a, b, c>> \o q)[i] = (<<a>> \o (<<b, c>> \o q))[i]
  OBVIOUS
<1>4. <<a, b, c>> \o q = <<a>> \o (<<b, c>> \o q)
  BY <1>1, <1>2, <1>3, SeqEqual
<1>5. <<b, c>> \o q = Cons(b, Cons(c, q))
  BY Tuple2
<1> QED BY <1>4, <1>5, Zenon DEF Cons

\* Four calls.
LEMMA Tuple4 ==
  ASSUME NEW a \in Call, NEW b \in Call, NEW c \in Call, NEW d \in Call, NEW q \in Seq(Call)
  PROVE  <<a, b, c, d>> \o q = Cons(a, Cons(b, Cons(c, Cons(d, q))))
<1>1. <<a, b, c, d>> \o q \in Seq(Call) /\ <<a>> \o (<<b, c, d>> \o q) \in Seq(Call)
  OBVIOUS
<1>2. Len(<<a, b, c, d>> \o q) = Len(<<a>> \o (<<b, c, d>> \o q))
  OBVIOUS
<1>3. ASSUME NEW i \in 1..Len(<<a, b, c, d>> \o q)
      PROVE  (<<a, b, c, d>> \o q)[i] = (<<a>> \o (<<b, c, d>> \o q))[i]
  OBVIOUS
<1>4. <<a, b, c, d>> \o q = <<a>> \o (<<b, c, d>> \o q)
  BY <1>1, <1>2, <1>3, SeqEqual
<1>5. <<b, c, d>> \o q = Cons(b, Cons(c, Cons(d, q)))
  BY Tuple3
<1> QED BY <1>4, <1>5, Zenon DEF Cons

\* The sequences of BufferCache are these.
LEMMA ReadIs ==
  ASSUME NEW s \in Sector
  PROVE  Read(s) = Cons(Op("bread", s), AtBrelse(s, <<>>))
<1>1. Op("bread", s) \in Call /\ Op("brelse", s) \in Call /\ <<>> \in Seq(Call)
  BY Calling
<1>2. <<Op("bread", s), Op("brelse", s)>> \o <<>> = Cons(Op("bread", s), Cons(Op("brelse", s), <<>>))
  BY <1>1, Tuple2, Zenon
<1>3. Read(s) \in Seq(Call)
  BY <1>1 DEF Read
<1>4. Read(s) \o <<>> = Read(s)
  BY <1>3, ConcatEmptySeq
<1> QED BY <1>2, <1>4, Zenon DEF Read, AtBrelse

\* An update, in front of the calls Q.
LEMMA UpdateIs ==
  ASSUME NEW s \in Sector, NEW Q \in Seq(Call)
  PROVE  /\ Update(s) \in Seq(Call) /\ Update(s) \o Q = AtBread(s, Q)
         /\ Update(s) = AtBread(s, <<>>) /\ Tail(Update(s)) = AtModify(s, <<>>)
<1>1. /\ Op("bread", s) \in Call /\ Op("modify", s) \in Call /\ Op("log_write", s) \in Call
      /\ Op("brelse", s) \in Call /\ <<>> \in Seq(Call)
  BY Calling
<1>2. Update(s) \in Seq(Call)
  BY <1>1 DEF Update
<1>3. ASSUME NEW q \in Seq(Call) PROVE Update(s) \o q = AtBread(s, q)
  <2>1. <<Op("bread", s), Op("modify", s), Op("log_write", s), Op("brelse", s)>> \o q
          = Cons(Op("bread", s), Cons(Op("modify", s), Cons(Op("log_write", s), Cons(Op("brelse", s), q))))
    BY <1>1, <1>3, Tuple4, SMTT(60)
  <2> QED BY <2>1, Zenon DEF Update, AtBread, AtModify, AtLogWrite, AtBrelse
<1>4. Update(s) \o <<>> = Update(s)
  BY <1>2, ConcatEmptySeq
<1>5. Tail(AtBread(s, <<>>)) = AtModify(s, <<>>)
  BY <1>1, UpdateForms, Zenon
<1> QED BY <1>1, <1>2, <1>3, <1>4, <1>5, Zenon

\* The update of another sector inside it.
LEMMA UpdateBothIs ==
  ASSUME NEW r \in Sector, NEW s \in Sector
  PROVE  UpdateBoth(r, s) = Cons(Op("bread", r), AtBread(s, AtModify(r, <<>>)))
<1>1. <<Op("bread", r)>> \in Seq(Call) /\ <<>> \in Seq(Call)
  BY Calling
<1>2. AtModify(r, <<>>) \in Seq(Call)
  BY <1>1, UpdateForms, Zenon
<1>3. /\ Update(s) \in Seq(Call) /\ Update(s) \o AtModify(r, <<>>) = AtBread(s, AtModify(r, <<>>))
      /\ Tail(Update(r)) = AtModify(r, <<>>)
  BY <1>1, <1>2, UpdateIs, Zenon
<1>4. (<<Op("bread", r)>> \o Update(s)) \o AtModify(r, <<>>)
        = <<Op("bread", r)>> \o (Update(s) \o AtModify(r, <<>>))
  BY <1>1, <1>2, <1>3, Concat3, Zenon
<1> QED BY <1>3, <1>4, Zenon DEF UpdateBoth, Cons

\* The calls of log_write(), before the release of its sector.
LEMMA LogWriteIs ==
  ASSUME NEW s \in Sector, NEW Q \in Seq(Call), SlotOf(s) \in Sector
  PROVE  LogWriteCalls(s) \o AtBrelse(s, Q) = AtSlotBread(SlotOf(s), s, Q)
<1> DEFINE t  == SlotOf(s)
           c1 == <<Op("bread", t), Copy(t, s)>>
           c2 == Write(t)
           c3 == <<Op("pin", s)>>
<1>1. /\ Op("bread", t) \in Call /\ Copy(t, s) \in Call /\ Op("bwrite", t) \in Call
      /\ Op("brelse", t) \in Call /\ Op("pin", s) \in Call
  BY Calling, Copying
<1>2. c1 \in Seq(Call) /\ c2 \in Seq(Call) /\ c3 \in Seq(Call)
  BY <1>1 DEF Write
<1>3. AtBrelse(s, Q) \in Seq(Call) /\ AtPin(s, Q) \in Seq(Call) /\ AtSlotBwrite(t, s, Q) \in Seq(Call)
  BY UpdateForms, LogForms, Zenon
<1>4. c3 \o AtBrelse(s, Q) = AtPin(s, Q)
  BY <1>1, <1>3, Tuple1, Zenon DEF AtPin
<1>5. c2 \o AtPin(s, Q) = AtSlotBwrite(t, s, Q)
  BY <1>1, <1>3, Tuple2, SMTT(60) DEF AtSlotBwrite, AtSlotBrelse, Write
<1>6. c1 \o AtSlotBwrite(t, s, Q) = AtSlotBread(t, s, Q)
  BY <1>1, <1>3, Tuple2, SMTT(60) DEF AtSlotBread, AtSlotCopy
<1>7. ((c1 \o c2) \o c3) \o AtBrelse(s, Q) = AtSlotBread(t, s, Q)
  <2>1. c1 \o c2 \in Seq(Call)
    BY <1>2, <1>3
  <2>2. ((c1 \o c2) \o c3) \o AtBrelse(s, Q) = (c1 \o c2) \o (c3 \o AtBrelse(s, Q))
    BY <1>2, <1>3, <2>1, Concat3, SMTT(60)
  <2>3. (c1 \o c2) \o AtPin(s, Q) = c1 \o (c2 \o AtPin(s, Q))
    BY <1>2, <1>3, Concat3, SMTT(60)
  <2> QED BY <1>4, <1>5, <1>6, <2>2, <2>3, Zenon
<1> QED BY <1>7, Zenon DEF LogWriteCalls

\* The calls of one turn of install_trans(), before the next one.
LEMMA InstallIs ==
  ASSUME NEW t \in Sector, NEW s \in Sector, NEW i \in Nat
  PROVE  InstallCalls(t, s) \o <<Install(i)>> \o AtClear = AtBlockBread(t, s, i)
<1> DEFINE c1 == <<Op("bread", t), Op("bread", s), Copy(s, t)>>
           c2 == <<Op("bwrite", s), Op("brelse", t), Op("brelse", s)>>
           c3 == <<Install(i)>>
<1>1. /\ Op("bread", t) \in Call /\ Op("bread", s) \in Call /\ Copy(s, t) \in Call
      /\ Op("bwrite", s) \in Call /\ Op("brelse", t) \in Call /\ Op("brelse", s) \in Call
      /\ Install(i) \in Call
  BY Calling, Copying
<1>2. c1 \in Seq(Call) /\ c2 \in Seq(Call) /\ c3 \in Seq(Call)
  BY <1>1
<1>3. AtClear \in Seq(Call) /\ AtInstall(i) \in Seq(Call) /\ AtHomeBwrite(t, s, i) \in Seq(Call)
  BY CommitForms, InstallForms, Zenon
<1>4. c3 \o AtClear = AtInstall(i)
  BY <1>1, <1>3, Tuple1, Zenon DEF AtInstall
<1>5. c2 \o AtInstall(i) = AtHomeBwrite(t, s, i)
  <2>1. c2 \o AtInstall(i)
          = Cons(Op("bwrite", s), Cons(Op("brelse", t), Cons(Op("brelse", s), AtInstall(i))))
    BY <1>1, <1>3, Tuple3, SMTT(60)
  <2> QED BY <2>1, Zenon DEF AtHomeBwrite, AtBlockBrelse, AtHomeBrelse
<1>6. c1 \o AtHomeBwrite(t, s, i) = AtBlockBread(t, s, i)
  <2>1. c1 \o AtHomeBwrite(t, s, i)
          = Cons(Op("bread", t), Cons(Op("bread", s), Cons(Copy(s, t), AtHomeBwrite(t, s, i))))
    BY <1>1, <1>3, Tuple3, SMTT(60)
  <2> QED BY <2>1, Zenon DEF AtBlockBread, AtHomeBread, AtHomeCopy
<1>7. InstallCalls(t, s) = c1 \o c2
  BY DEF InstallCalls
<1>8. ((c1 \o c2) \o c3) \o AtClear = AtBlockBread(t, s, i)
  <2>1. c1 \o c2 \in Seq(Call)
    BY <1>2, <1>3
  <2>2. ((c1 \o c2) \o c3) \o AtClear = (c1 \o c2) \o (c3 \o AtClear)
    BY <1>2, <1>3, <2>1, Concat3, SMTT(60)
  <2>3. (c1 \o c2) \o AtInstall(i) = c1 \o (c2 \o AtInstall(i))
    BY <1>2, <1>3, Concat3, SMTT(60)
  <2> QED BY <1>4, <1>5, <1>6, <2>2, <2>3, Zenon
<1> QED BY <1>7, <1>8, Zenon

\* The calls of commit_trans().
LEMMA CommitIs ==
  CommitCalls = IF lh = <<>> THEN AtFree ELSE AtHeadBread(AtInstall(1))
<1> DEFINE c1 == <<Op("bread", Header)>>
           c2 == Write(Header)
           c3 == <<Install(1), Op("clear", Header)>>
           c4 == <<Op("free", Header)>>
<1>1. /\ Op("bread", Header) \in Call /\ Op("bwrite", Header) \in Call
      /\ Op("brelse", Header) \in Call /\ Op("clear", Header) \in Call
      /\ Op("free", Header) \in Call /\ Install(1) \in Call /\ <<>> \in Seq(Call)
  <2>1. Header \in Sector /\ 1 \in Nat /\ <<>> \in Seq(Call)
    BY DEF Sector
  <2> QED BY <2>1, Calling, Copying
<1>2. c1 \in Seq(Call) /\ c2 \in Seq(Call) /\ c3 \in Seq(Call) /\ c4 \in Seq(Call)
  BY <1>1 DEF Write
<1>3. AtFree \in Seq(Call) /\ AtInstall(1) \in Seq(Call)
  <2>1. 1 \in Nat
    OBVIOUS
  <2> QED BY <2>1, CommitForms, Zenon
<1>4. c4 = AtFree
  <2>1. c4 \o <<>> = c4
    BY <1>2, ConcatEmptySeq
  <2> QED BY <1>1, <2>1, Tuple1, Zenon DEF AtFree
<1>5. ASSUME NEW Q \in Seq(Call)
      PROVE  (c1 \o c2) \o Q = AtHeadBread(Q) /\ AtHeadBread(Q) \in Seq(Call)
  <2>1. AtHeadBwrite(Q) \in Seq(Call) /\ AtHeadBread(Q) \in Seq(Call)
    BY HeadForms, Zenon
  <2>2. c2 \o Q = AtHeadBwrite(Q)
    BY <1>1, Tuple2, SMTT(60) DEF Write, AtHeadBwrite, AtHeadBrelse
  <2>3. c1 \o AtHeadBwrite(Q) = AtHeadBread(Q)
    BY <1>1, <2>1, Tuple1, Zenon DEF AtHeadBread
  <2>4. (c1 \o c2) \o Q = AtHeadBread(Q)
    <3>1. (c1 \o c2) \o Q = c1 \o (c2 \o Q)
      BY <1>2, <1>5, Concat3, SMTT(60)
    <3> QED BY <2>2, <2>3, <3>1, Zenon
  <2> QED BY <2>1, <2>4, Zenon
<1>6. c3 \o AtHeadBread(AtFree) = AtInstall(1)
  BY <1>1, <1>3, <1>5, Tuple2, ZenonT(120) DEF AtInstall, AtClear
<1>7. (((c1 \o c2) \o c3) \o (c1 \o c2)) \o c4 = AtHeadBread(AtInstall(1))
  <2> DEFINE c == c1 \o c2
  <2>1. c \in Seq(Call) /\ c3 \in Seq(Call) /\ c \o c3 \in Seq(Call)
    BY <1>2
  <2>2. c \o AtFree = AtHeadBread(AtFree) /\ c \o AtInstall(1) = AtHeadBread(AtInstall(1))
    BY <1>3, <1>5, Zenon
  <2>3. AtHeadBread(AtFree) \in Seq(Call)
    BY <1>3, <1>5, Zenon
  <2> HIDE DEF c, c1, c2, c3, c4
  <2>4. ((c \o c3) \o c) \o c4 = (c \o c3) \o (c \o c4)
    BY <1>2, <2>1, Concat3, ZenonT(120)
  <2>5. (c \o c3) \o AtHeadBread(AtFree) = c \o (c3 \o AtHeadBread(AtFree))
    BY <2>1, <2>3, Concat3, Zenon
  <2>6. ((c \o c3) \o c) \o c4 = AtHeadBread(AtInstall(1))
    BY <1>4, <1>6, <2>2, <2>4, <2>5, Zenon
  <2> QED BY <2>6, Zenon DEF c
<1>8. CommitCalls = IF lh = <<>> THEN c4 ELSE (((c1 \o c2) \o c3) \o (c1 \o c2)) \o c4
  BY Zenon DEF CommitCalls, WriteHead
<1> HIDE DEF c1, c2, c3, c4
<1> QED BY <1>4, <1>7, <1>8, Zenon

-----------------------------------------------------------------------------
\* The process w makes the first call of q, and is again at a stage.
Moves(w, q, H, U, n) ==
  \E H2, U2 \in SUBSET Sector : Move(Head(q), H, U, H2, U2) /\ Stage(w, Tail(q), H2, U2, n)

\* A stage of the writer, by name.
LEMMA MovesBy ==
  ASSUME NEW q, NEW H, NEW U, NEW n, NEW c, NEW r,
         NEW H2 \in SUBSET Sector, NEW U2 \in SUBSET Sector,
         Head(q) = c, Tail(q) = r, Move(c, H, U, H2, U2), WriterStage(r, H2, U2, n)
  PROVE  Moves(TRUE, q, H, U, n)
BY Zenon DEF Moves, Stage

\* The parts of an update are stages.
LEMMA InsideIs ==
  ASSUME NEW s \in Home, NEW Q, NEW G, NEW m, Inside(s, Q, G, m)
  PROVE  Q \in Seq(Call) /\ G \in SUBSET Home /\ m \in {0, 1} /\ s \notin G
<1>1. CASE Q = <<>> /\ G = {} /\ m = 0
  BY <1>1
<1>2. ASSUME NEW r \in Home \ {s}, Q = AtModify(r, <<>>) /\ G = {r} /\ m = 1
      PROVE  Q \in Seq(Call) /\ G \in SUBSET Home /\ m \in {0, 1} /\ s \notin G
  <2>1. r \in Sector /\ <<>> \in Seq(Call)
    BY DEF Sector
  <2>2. AtModify(r, <<>>) \in Seq(Call)
    BY <2>1, UpdateForms, Zenon
  <2> QED BY <1>2, <2>2
<1> QED BY <1>1, <1>2, Zenon DEF Inside

\* What is left after an update is a stage.
LEMMA AfterUpdate ==
  ASSUME NEW s \in Home, NEW Q, NEW G, NEW m, NEW n \in Nat, Inside(s, Q, G, m), Fits(n, m)
  PROVE  WriterStage(Q, G, {}, n)
<1>1. CASE Q = <<>> /\ G = {} /\ m = 0
  BY <1>1, Zenon DEF WriterStage
<1>2. ASSUME NEW r \in Home \ {s}, Q = AtModify(r, <<>>) /\ G = {r} /\ m = 1
      PROVE  WriterStage(Q, G, {}, n)
  <2>1. UpdateStage(Q, {r}, {}, n, r, <<>>, {}, 0)
    BY <1>2 DEF UpdateStage, Fits
  <2>2. Inside(r, <<>>, {}, 0) /\ <<>> \in Seq(Call) /\ {} \in SUBSET Home /\ 0 \in {0, 1} /\ r \in Home
    BY DEF Inside
  <2> QED BY <1>2, <2>1, <2>2, Zenon DEF WriterStage
<1> QED BY <1>1, <1>2, Zenon DEF Inside

\* The calls of an update, but log_write().
LEMMA UpdateMoves ==
  ASSUME NEW q, NEW H, NEW U, NEW n \in Nat, NEW s \in Home, NEW Q, NEW G, NEW m,
         Inside(s, Q, G, m), UpdateStage(q, H, U, n, s, Q, G, m)
  PROVE  \/ Moves(TRUE, q, H, U, n)
         \/ q = AtLogWrite(s, Q) /\ H = G \cup {s} /\ U = {s} /\ Fits(n, 1 + m)
<1>1. s \in Sector /\ Home \subseteq Sector
  BY DEF Sector
<1>2. Q \in Seq(Call) /\ G \in SUBSET Home /\ m \in {0, 1} /\ s \notin G
  BY InsideIs, Zenon
<1>3. ASSUME NEW r, NEW X, NEW Y, UpdateStage(r, X, Y, n, s, Q, G, m) PROVE WriterStage(r, X, Y, n)
  BY <1>2, <1>3, Zenon DEF WriterStage
<1>4. G \in SUBSET Sector /\ G \cup {s} \in SUBSET Sector /\ {s} \in SUBSET Sector /\ {} \in SUBSET Sector
  BY <1>1, <1>2
<1>5. CASE q = AtBread(s, Q) /\ H = G /\ U = {} /\ Fits(n, 1 + m)
  <2>1. Head(q) = Op("bread", s) /\ Tail(q) = AtModify(s, Q)
    BY <1>1, <1>2, <1>5, UpdateForms, Zenon
  <2>2. Move(Op("bread", s), H, U, G \cup {s}, {})
    BY <1>1, <1>2, <1>5 DEF Move, Op
  <2>3. WriterStage(AtModify(s, Q), G \cup {s}, {}, n)
    BY <1>3, <1>5, Zenon DEF UpdateStage
  <2> QED BY <1>4, <2>1, <2>2, <2>3, MovesBy, Zenon
<1>6. CASE q = AtModify(s, Q) /\ H = G \cup {s} /\ U = {} /\ Fits(n, 1 + m)
  <2>1. Head(q) = Op("modify", s) /\ Tail(q) = AtLogWrite(s, Q)
    BY <1>1, <1>2, <1>6, UpdateForms, Zenon
  <2>2. Move(Op("modify", s), H, U, G \cup {s}, {s})
    BY <1>1, <1>2, <1>6 DEF Move, Op
  <2>3. WriterStage(AtLogWrite(s, Q), G \cup {s}, {s}, n)
    BY <1>3, <1>6, Zenon DEF UpdateStage
  <2> QED BY <1>4, <2>1, <2>2, <2>3, MovesBy, Zenon
<1>7. CASE q = AtBrelse(s, Q) /\ H = G \cup {s} /\ U = {} /\ Fits(n, m)
  <2>1. Head(q) = Op("brelse", s) /\ Tail(q) = Q
    BY <1>1, <1>2, <1>7, UpdateForms, Zenon
  <2>2. Move(Op("brelse", s), H, U, G, {})
    BY <1>1, <1>2, <1>7 DEF Move, Op
  <2>3. WriterStage(Q, G, {}, n)
    BY <1>7, AfterUpdate, Zenon
  <2> QED BY <1>4, <2>1, <2>2, <2>3, MovesBy, Zenon
<1> QED BY <1>5, <1>6, <1>7, Zenon DEF UpdateStage

\* The calls of log_write(), but its last lines.
LEMMA LogMoves ==
  ASSUME NEW q, NEW H, NEW U, NEW n \in Nat, NEW t \in LogSlots, NEW s \in Home, NEW Q, NEW G, NEW m,
         Inside(s, Q, G, m), LogStage(q, H, U, n, t, s, Q, G, m)
  PROVE  \/ Moves(TRUE, q, H, U, n)
         \/ q = AtPin(s, Q) /\ H = G \cup {s} /\ U = {s} /\ Fits(n, 1 + m)
<1>1. s \in Sector /\ t \in Sector /\ Home \subseteq Sector
  BY DEF Sector
<1>2. Q \in Seq(Call) /\ G \in SUBSET Home /\ m \in {0, 1} /\ s \notin G
  BY InsideIs, Zenon
<1>3. ASSUME NEW r, NEW X, NEW Y, LogStage(r, X, Y, n, t, s, Q, G, m) PROVE WriterStage(r, X, Y, n)
  BY <1>2, <1>3, Zenon DEF WriterStage
<1>4. /\ G \cup {s} \in SUBSET Sector /\ G \cup {s, t} \in SUBSET Sector
      /\ {s} \in SUBSET Sector /\ {s, t} \in SUBSET Sector
  BY <1>1, <1>2
<1>5. t \notin G /\ t # s
  BY <1>2, CacheAssumption
<1>6. CASE q = AtSlotBread(t, s, Q) /\ H = G \cup {s} /\ U = {s} /\ Fits(n, 1 + m)
  <2>1. Head(q) = Op("bread", t) /\ Tail(q) = AtSlotCopy(t, s, Q)
    BY <1>1, <1>2, <1>6, LogForms, Zenon
  <2>2. Move(Op("bread", t), H, U, G \cup {s, t}, {s})
    BY <1>1, <1>5, <1>6 DEF Move, Op
  <2>3. WriterStage(AtSlotCopy(t, s, Q), G \cup {s, t}, {s}, n)
    BY <1>3, <1>6, Zenon DEF LogStage
  <2> QED BY <1>4, <2>1, <2>2, <2>3, MovesBy, Zenon
<1>7. CASE q = AtSlotCopy(t, s, Q) /\ H = G \cup {s, t} /\ U = {s} /\ Fits(n, 1 + m)
  <2>1. Head(q) = Copy(t, s) /\ Tail(q) = AtSlotBwrite(t, s, Q)
    BY <1>1, <1>2, <1>7, LogForms, Zenon
  <2>2. Move(Copy(t, s), H, U, G \cup {s, t}, {s, t})
    BY <1>1, <1>5, <1>7 DEF Move, Copy
  <2>3. WriterStage(AtSlotBwrite(t, s, Q), G \cup {s, t}, {s, t}, n)
    BY <1>3, <1>7, Zenon DEF LogStage
  <2> QED BY <1>4, <2>1, <2>2, <2>3, MovesBy, Zenon
<1>8. CASE q = AtSlotBwrite(t, s, Q) /\ H = G \cup {s, t} /\ U = {s, t} /\ Fits(n, 1 + m)
  <2>1. Head(q) = Op("bwrite", t) /\ Tail(q) = AtSlotBrelse(t, s, Q)
    BY <1>1, <1>2, <1>8, LogForms, Zenon
  <2>2. Move(Op("bwrite", t), H, U, G \cup {s, t}, {s})
    BY <1>1, <1>5, <1>8 DEF Move, Op
  <2>3. WriterStage(AtSlotBrelse(t, s, Q), G \cup {s, t}, {s}, n)
    BY <1>3, <1>8, Zenon DEF LogStage
  <2> QED BY <1>4, <2>1, <2>2, <2>3, MovesBy, Zenon
<1>9. CASE q = AtSlotBrelse(t, s, Q) /\ H = G \cup {s, t} /\ U = {s} /\ Fits(n, 1 + m)
  <2>1. Head(q) = Op("brelse", t) /\ Tail(q) = AtPin(s, Q)
    BY <1>1, <1>2, <1>9, LogForms, Zenon
  <2>2. Move(Op("brelse", t), H, U, G \cup {s}, {s})
    BY <1>1, <1>5, <1>9 DEF Move, Op
  <2>3. WriterStage(AtPin(s, Q), G \cup {s}, {s}, n)
    BY <1>3, <1>9, Zenon DEF LogStage
  <2> QED BY <1>4, <2>1, <2>2, <2>3, MovesBy, Zenon
<1> QED BY <1>6, <1>7, <1>8, <1>9, Zenon DEF LogStage

\* The calls of write_head().
LEMMA HeadMoves ==
  ASSUME NEW q, NEW H, NEW U, NEW n, NEW Q \in Seq(Call), HeadStage(q, H, U, Q),
         WriterStage(Q, {}, {}, n),
         \A r, X, Y : HeadStage(r, X, Y, Q) => WriterStage(r, X, Y, n)
  PROVE  Moves(TRUE, q, H, U, n)
<1>1. {Header} \in SUBSET Sector /\ {} \in SUBSET Sector /\ Header \in Sector
  BY DEF Sector
<1>2. CASE q = AtHeadBread(Q) /\ H = {} /\ U = {}
  <2>1. Head(q) = Op("bread", Header) /\ Tail(q) = AtHeadBwrite(Q)
    BY <1>2, HeadForms, Zenon
  <2>2. Move(Op("bread", Header), H, U, {Header}, {})
    BY <1>1, <1>2 DEF Move, Op
  <2>3. WriterStage(AtHeadBwrite(Q), {Header}, {}, n)
    BY Zenon DEF HeadStage
  <2> QED BY <1>1, <2>1, <2>2, <2>3, MovesBy, Zenon
<1>3. CASE q = AtHeadBwrite(Q) /\ H = {Header} /\ U = {}
  <2>1. Head(q) = Op("bwrite", Header) /\ Tail(q) = AtHeadBrelse(Q)
    BY <1>3, HeadForms, Zenon
  <2>2. Move(Op("bwrite", Header), H, U, {Header}, {})
    BY <1>1, <1>3 DEF Move, Op
  <2>3. WriterStage(AtHeadBrelse(Q), {Header}, {}, n)
    BY Zenon DEF HeadStage
  <2> QED BY <1>1, <2>1, <2>2, <2>3, MovesBy, Zenon
<1>4. CASE q = AtHeadBrelse(Q) /\ H = {Header} /\ U = {}
  <2>1. Head(q) = Op("brelse", Header) /\ Tail(q) = Q
    BY <1>4, HeadForms, Zenon
  <2>2. Move(Op("brelse", Header), H, U, {}, {})
    BY <1>1, <1>4 DEF Move, Op
  <2> QED BY <1>1, <2>1, <2>2, MovesBy, Zenon
<1> QED BY <1>2, <1>3, <1>4, Zenon DEF HeadStage

\* The calls of one turn of install_trans().
LEMMA InstallMoves ==
  ASSUME NEW q, NEW H, NEW U, NEW n, NEW t \in LogSlots, NEW s \in Home, NEW i \in Nat \ {0},
         InstallStage(q, H, U, t, s, i)
  PROVE  Moves(TRUE, q, H, U, n)
<1>1. s \in Sector /\ t \in Sector /\ s # t /\ i \in Nat
  BY CacheAssumption DEF Sector
<1>2. /\ {s} \in SUBSET Sector /\ {t} \in SUBSET Sector /\ {s, t} \in SUBSET Sector
      /\ {} \in SUBSET Sector
  BY <1>1
<1>3. ASSUME NEW r, NEW X, NEW Y, InstallStage(r, X, Y, t, s, i) PROVE WriterStage(r, X, Y, n)
  BY <1>3, Zenon DEF WriterStage
<1>4. CASE q = AtBlockBread(t, s, i) /\ H = {} /\ U = {}
  <2>1. Head(q) = Op("bread", t) /\ Tail(q) = AtHomeBread(t, s, i)
    BY <1>1, <1>4, InstallForms, Zenon
  <2>2. Move(Op("bread", t), H, U, {t}, {})
    BY <1>1, <1>4 DEF Move, Op
  <2>3. WriterStage(AtHomeBread(t, s, i), {t}, {}, n)
    BY <1>3, Zenon DEF InstallStage
  <2> QED BY <1>2, <2>1, <2>2, <2>3, MovesBy, Zenon
<1>5. CASE q = AtHomeBread(t, s, i) /\ H = {t} /\ U = {}
  <2>1. Head(q) = Op("bread", s) /\ Tail(q) = AtHomeCopy(t, s, i)
    BY <1>1, <1>5, InstallForms, ZenonT(120)
  <2>2. Move(Op("bread", s), H, U, {s, t}, {})
    BY <1>1, <1>5 DEF Move, Op
  <2>3. WriterStage(AtHomeCopy(t, s, i), {s, t}, {}, n)
    BY <1>3, Zenon DEF InstallStage
  <2> QED BY <1>2, <2>1, <2>2, <2>3, MovesBy, Zenon
<1>6. CASE q = AtHomeCopy(t, s, i) /\ H = {s, t} /\ U = {}
  <2>1. Head(q) = Copy(s, t) /\ Tail(q) = AtHomeBwrite(t, s, i)
    BY <1>1, <1>6, InstallForms, Zenon
  <2>2. Move(Copy(s, t), H, U, {s, t}, {s})
    BY <1>1, <1>6 DEF Move, Copy
  <2>3. WriterStage(AtHomeBwrite(t, s, i), {s, t}, {s}, n)
    BY <1>3, Zenon DEF InstallStage
  <2> QED BY <1>2, <2>1, <2>2, <2>3, MovesBy, Zenon
<1>7. CASE q = AtHomeBwrite(t, s, i) /\ H = {s, t} /\ U = {s}
  <2>1. Head(q) = Op("bwrite", s) /\ Tail(q) = AtBlockBrelse(t, s, i)
    BY <1>1, <1>7, InstallForms, ZenonT(120)
  <2>2. Move(Op("bwrite", s), H, U, {s, t}, {})
    BY <1>1, <1>7 DEF Move, Op
  <2>3. WriterStage(AtBlockBrelse(t, s, i), {s, t}, {}, n)
    BY <1>3, Zenon DEF InstallStage
  <2> QED BY <1>2, <2>1, <2>2, <2>3, MovesBy, Zenon
<1>8. CASE q = AtBlockBrelse(t, s, i) /\ H = {s, t} /\ U = {}
  <2>1. Head(q) = Op("brelse", t) /\ Tail(q) = AtHomeBrelse(s, i)
    BY <1>1, <1>8, InstallForms, Zenon
  <2>2. Move(Op("brelse", t), H, U, {s}, {})
    BY <1>1, <1>8 DEF Move, Op
  <2>3. WriterStage(AtHomeBrelse(s, i), {s}, {}, n)
    BY <1>3, Zenon DEF InstallStage
  <2> QED BY <1>2, <2>1, <2>2, <2>3, MovesBy, Zenon
<1>9. CASE q = AtHomeBrelse(s, i) /\ H = {s} /\ U = {}
  <2>1. Head(q) = Op("brelse", s) /\ Tail(q) = AtInstall(i)
    BY <1>1, <1>9, InstallForms, Zenon
  <2>2. Move(Op("brelse", s), H, U, {}, {})
    BY <1>1, <1>9 DEF Move, Op
  <2>3. WriterStage(AtInstall(i), {}, {}, n)
    BY Zenon DEF WriterStage
  <2> QED BY <1>2, <2>1, <2>2, <2>3, MovesBy, Zenon
<1> QED BY <1>4, <1>5, <1>6, <1>7, <1>8, <1>9, Zenon DEF InstallStage

\* The stages that no single call moves on.
AboutToLog(q, H, U, n) ==
  \E s \in Home, Q \in Seq(Call), G \in SUBSET Home, m \in {0, 1} :
    Inside(s, Q, G, m) /\ q = AtLogWrite(s, Q) /\ H = G \cup {s} /\ U = {s} /\ Fits(n, 1 + m)

AboutToPin(q, H, U, n) ==
  \E s \in Home, Q \in Seq(Call), G \in SUBSET Home, m \in {0, 1} :
    Inside(s, Q, G, m) /\ q = AtPin(s, Q) /\ H = G \cup {s} /\ U = {s} /\ Fits(n, 1 + m)

InCommit(q, H, U) ==
  /\ H = {} /\ U = {}
  /\ (\E i \in Nat \ {0} : q = AtInstall(i)) \/ q = AtClear \/ q = AtFree

\* Every call of the writer, but these, moves it to its next stage.
LEMMA WriterMoves ==
  ASSUME NEW q, NEW H, NEW U, NEW n \in Nat, WriterStage(q, H, U, n), q # <<>>
  PROVE  \/ Moves(TRUE, q, H, U, n)
         \/ AboutToLog(q, H, U, n) \/ AboutToPin(q, H, U, n) \/ InCommit(q, H, U)
<1>1. ASSUME NEW s \in Home, NEW Q \in Seq(Call), NEW G \in SUBSET Home, NEW m \in {0, 1},
             Inside(s, Q, G, m), UpdateStage(q, H, U, n, s, Q, G, m)
      PROVE  Moves(TRUE, q, H, U, n) \/ AboutToLog(q, H, U, n)
  <2>1. Moves(TRUE, q, H, U, n) \/ (q = AtLogWrite(s, Q) /\ H = G \cup {s} /\ U = {s} /\ Fits(n, 1 + m))
    BY <1>1, UpdateMoves
  <2> QED BY <1>1, <2>1, Zenon DEF AboutToLog
<1>2. ASSUME NEW s \in Home, NEW Q \in Seq(Call), NEW G \in SUBSET Home, NEW m \in {0, 1},
             NEW t \in LogSlots, Inside(s, Q, G, m), LogStage(q, H, U, n, t, s, Q, G, m)
      PROVE  Moves(TRUE, q, H, U, n) \/ AboutToPin(q, H, U, n)
  <2>1. Moves(TRUE, q, H, U, n) \/ (q = AtPin(s, Q) /\ H = G \cup {s} /\ U = {s} /\ Fits(n, 1 + m))
    BY <1>2, LogMoves
  <2> QED BY <1>2, <2>1, Zenon DEF AboutToPin
<1>3. ASSUME NEW s \in Home, NEW r \in Home, s # r, H = {}, U = {}, Fits(n, 2),
             q = Cons(Op("bread", r), AtBread(s, AtModify(r, <<>>)))
      PROVE  Moves(TRUE, q, H, U, n)
  <2>1. r \in Sector /\ s \in Sector /\ {r} \in SUBSET Sector /\ {} \in SUBSET Sector /\ <<>> \in Seq(Call)
    BY DEF Sector
  <2>2. AtModify(r, <<>>) \in Seq(Call) /\ Op("bread", r) \in Call
    BY <2>1, UpdateForms, Calling, Zenon
  <2>3. AtBread(s, AtModify(r, <<>>)) \in Seq(Call)
    BY <2>1, <2>2, UpdateForms, Zenon
  <2>4. Head(q) = Op("bread", r) /\ Tail(q) = AtBread(s, AtModify(r, <<>>))
    BY <1>3, <2>2, <2>3, ConsIs, Zenon
  <2>5. Move(Op("bread", r), H, U, {r}, {})
    BY <1>3, <2>1 DEF Move, Op
  <2>6. Inside(s, AtModify(r, <<>>), {r}, 1)
    BY <1>3 DEF Inside
  <2>7. UpdateStage(AtBread(s, AtModify(r, <<>>)), {r}, {}, n, s, AtModify(r, <<>>), {r}, 1)
    BY <1>3 DEF UpdateStage, Fits
  <2>8. {r} \in SUBSET Home /\ 1 \in {0, 1}
    OBVIOUS
  <2>9. WriterStage(AtBread(s, AtModify(r, <<>>)), {r}, {}, n)
    BY <2>2, <2>6, <2>7, <2>8, Zenon DEF WriterStage
  <2> QED BY <2>1, <2>4, <2>5, <2>9, MovesBy, Zenon
<1>4. ASSUME NEW t \in LogSlots, NEW s \in Home, NEW i \in Nat \ {0}, InstallStage(q, H, U, t, s, i)
      PROVE  Moves(TRUE, q, H, U, n)
  BY <1>4, InstallMoves, Zenon
<1>5. ASSUME NEW i \in Nat \ {0}, HeadStage(q, H, U, AtInstall(i))
      PROVE  Moves(TRUE, q, H, U, n)
  <2>1. AtInstall(i) \in Seq(Call)
    <3>1. i \in Nat
      OBVIOUS
    <3> QED BY <3>1, CommitForms, Zenon
  <2>2. WriterStage(AtInstall(i), {}, {}, n)
    BY Zenon DEF WriterStage
  <2>3. \A r, X, Y : HeadStage(r, X, Y, AtInstall(i)) => WriterStage(r, X, Y, n)
    BY Zenon DEF WriterStage
  <2> QED BY <1>5, <2>1, <2>2, <2>3, HeadMoves, Zenon
<1>6. CASE HeadStage(q, H, U, AtFree)
  <2>1. AtFree \in Seq(Call)
    <3>1. 0 \in Nat
      OBVIOUS
    <3> QED BY <3>1, CommitForms, Zenon
  <2>2. WriterStage(AtFree, {}, {}, n)
    BY Zenon DEF WriterStage
  <2>3. \A r, X, Y : HeadStage(r, X, Y, AtFree) => WriterStage(r, X, Y, n)
    BY Zenon DEF WriterStage
  <2> QED BY <1>6, <2>1, <2>2, <2>3, HeadMoves, Zenon
<1>7. CASE (\E i \in Nat \ {0} : q = AtInstall(i) /\ H = {} /\ U = {}) \/ (q \in {AtClear, AtFree} /\ H = {} /\ U = {})
  BY <1>7, Zenon DEF InCommit
<1> QED BY <1>1, <1>2, <1>3, <1>4, <1>5, <1>6, <1>7, Zenon DEF WriterStage

\* A reader has one sector at a time.
LEMMA ReaderMoves ==
  ASSUME NEW q, NEW H, NEW U, NEW n, ReaderStage(q, H, U), q # <<>>
  PROVE  Moves(FALSE, q, H, U, n)
<1>1. <<>> \in Seq(Call) /\ {} \in SUBSET Sector
  OBVIOUS
<1>2. ASSUME NEW s \in Home, q = Read(s), H = {}, U = {} PROVE Moves(FALSE, q, H, U, n)
  <2>1. s \in Sector /\ {s} \in SUBSET Sector
    BY DEF Sector
  <2>2. AtBrelse(s, <<>>) \in Seq(Call) /\ Op("bread", s) \in Call
    BY <1>1, <2>1, UpdateForms, Calling, Zenon
  <2>3. Head(q) = Op("bread", s) /\ Tail(q) = AtBrelse(s, <<>>)
    BY <1>2, <2>1, <2>2, ReadIs, ConsIs, ZenonT(120)
  <2>4. Move(Op("bread", s), H, U, {s}, {})
    BY <1>2, <2>1 DEF Move, Op
  <2>5. Stage(FALSE, AtBrelse(s, <<>>), {s}, {}, n)
    BY Zenon DEF Stage, ReaderStage
  <2> QED BY <1>1, <2>1, <2>3, <2>4, <2>5, Zenon DEF Moves
<1>3. ASSUME NEW s \in Home, q = AtBrelse(s, <<>>), H = {s}, U = {} PROVE Moves(FALSE, q, H, U, n)
  <2>1. s \in Sector
    BY DEF Sector
  <2>2. Head(q) = Op("brelse", s) /\ Tail(q) = <<>>
    BY <1>1, <1>3, <2>1, UpdateForms, Zenon
  <2>3. Move(Op("brelse", s), H, U, {}, {})
    BY <1>3, <2>1 DEF Move, Op
  <2>4. Stage(FALSE, <<>>, {}, {}, n)
    BY Zenon DEF Stage, ReaderStage
  <2> QED BY <1>1, <2>2, <2>3, <2>4, Zenon DEF Moves
<1> QED BY <1>2, <1>3, Zenon DEF ReaderStage

\* A process without calls has nothing.
LEMMA IdleStage ==
  ASSUME NEW w \in BOOLEAN, NEW H, NEW U, NEW n \in Nat, Stage(w, <<>>, H, U, n)
  PROVE  H = {} /\ U = {}
<1>1. <<>> \in Seq(Call) /\ Home \subseteq Sector /\ LogSlots \subseteq Sector /\ 0 \in Nat
  BY DEF Sector
<1>2. CASE w
  <2> SUFFICES ASSUME ~(H = {} /\ U = {}) PROVE FALSE
    OBVIOUS
  <2>1. ASSUME NEW s \in Home, NEW Q \in Seq(Call), NEW G, NEW m, UpdateStage(<<>>, H, U, n, s, Q, G, m)
        PROVE  FALSE
    <3>1. s \in Sector
      BY <1>1
    <3> QED BY <2>1, <3>1, UpdateForms, Zenon DEF UpdateStage
  <2>2. ASSUME NEW s \in Home, NEW Q \in Seq(Call), NEW G, NEW m, NEW t \in LogSlots,
               LogStage(<<>>, H, U, n, t, s, Q, G, m)
        PROVE  FALSE
    <3>1. s \in Sector /\ t \in Sector
      BY <1>1
    <3> QED BY <2>2, <3>1, LogForms, Zenon DEF LogStage
  <2>3. ASSUME NEW t \in LogSlots, NEW s \in Home, NEW i \in Nat \ {0}, InstallStage(<<>>, H, U, t, s, i)
        PROVE  FALSE
    <3>1. s \in Sector /\ t \in Sector /\ i \in Nat
      BY <1>1
    <3>2. /\ AtBlockBread(t, s, i) # <<>> /\ AtHomeBread(t, s, i) # <<>> /\ AtHomeCopy(t, s, i) # <<>>
          /\ AtHomeBwrite(t, s, i) # <<>> /\ AtBlockBrelse(t, s, i) # <<>> /\ AtHomeBrelse(s, i) # <<>>
      BY <3>1, InstallForms, ZenonT(120)
    <3> QED BY <2>3, <3>2, Zenon DEF InstallStage
  <2>4. ASSUME NEW Q \in Seq(Call), HeadStage(<<>>, H, U, Q) PROVE FALSE
    BY <2>4, HeadForms, Zenon DEF HeadStage
  <2>5. ASSUME NEW i \in Nat \ {0} PROVE AtInstall(i) \in Seq(Call)
    <3>1. i \in Nat
      OBVIOUS
    <3> QED BY <3>1, CommitForms, Zenon
  <2>6. AtFree \in Seq(Call)
    BY <1>1, CommitForms, Zenon
  <2>7. WriterStage(<<>>, H, U, n)
    BY <1>2, Zenon DEF Stage
  <2>8. \A s, r \in Home : <<>> # Cons(Op("bread", r), AtBread(s, AtModify(r, <<>>)))
    <3> SUFFICES ASSUME NEW s \in Home, NEW r \in Home
                 PROVE  <<>> # Cons(Op("bread", r), AtBread(s, AtModify(r, <<>>)))
      OBVIOUS
    <3>1. s \in Sector /\ r \in Sector
      BY <1>1
    <3>2. AtBread(s, AtModify(r, <<>>)) \in Seq(Call) /\ Op("bread", r) \in Call
      BY <1>1, <3>1, UpdateForms, Calling, Zenon
    <3> QED BY <3>2, ConsIs, Zenon
  <2> QED BY <2>1, <2>2, <2>3, <2>4, <2>5, <2>6, <2>7, <2>8, Zenon DEF WriterStage
<1>3. CASE ~w
  <2>1. ASSUME NEW s \in Home PROVE AtBrelse(s, <<>>) # <<>> /\ Read(s) # <<>>
    <3>1. s \in Sector
      BY <1>1
    <3>2. AtBrelse(s, <<>>) \in Seq(Call) /\ AtBrelse(s, <<>>) # <<>> /\ Op("bread", s) \in Call
      BY <1>1, <3>1, UpdateForms, Calling, Zenon
    <3> QED BY <3>1, <3>2, ReadIs, ConsIs, Zenon
  <2> QED BY <1>3, <2>1, Zenon DEF Stage, ReaderStage
<1> QED BY <1>2, <1>3, Zenon

\* The calls they are about to make.
LEMMA LogName ==
  ASSUME NEW q, NEW H, NEW U, NEW n, AboutToLog(q, H, U, n) PROVE Head(q).f = "log_write"
<1>1. PICK s \in Home, Q \in Seq(Call) : q = AtLogWrite(s, Q)
  BY Zenon DEF AboutToLog
<1>2. s \in Sector
  BY DEF Sector
<1>3. Head(q) = Op("log_write", s)
  BY <1>1, <1>2, UpdateForms, Zenon
<1> QED BY <1>3 DEF Op

\* The last lines of log_write().
LEMMA PinName ==
  ASSUME NEW q, NEW H, NEW U, NEW n, AboutToPin(q, H, U, n) PROVE Head(q).f = "pin"
<1>1. PICK s \in Home, Q \in Seq(Call) : q = AtPin(s, Q)
  BY Zenon DEF AboutToPin
<1>2. s \in Sector
  BY DEF Sector
<1>3. Head(q) = Op("pin", s)
  BY <1>1, <1>2, LogForms, Zenon
<1> QED BY <1>3 DEF Op

\* And those of commit_trans().
LEMMA CommitName ==
  ASSUME NEW q, NEW H, NEW U, InCommit(q, H, U)
  PROVE  Head(q).f \in {"install", "clear", "free"}
<1>1. ASSUME NEW i \in Nat \ {0}, q = AtInstall(i) PROVE Head(q).f = "install"
  <2>1. i \in Nat
    OBVIOUS
  <2>2. Head(q) = Install(i)
    BY <1>1, <2>1, CommitForms, Zenon
  <2> QED BY <2>2 DEF Install
<1>2. ASSUME q = AtClear \/ q = AtFree PROVE Head(q).f \in {"clear", "free"}
  <2>1. 0 \in Nat
    OBVIOUS
  <2>2. Head(q) = Op("clear", Header) \/ Head(q) = Op("free", Header)
    BY <1>2, <2>1, CommitForms, Zenon
  <2> QED BY <2>2 DEF Op
<1> QED BY <1>1, <1>2 DEF InCommit

\* The first call of a stage, by its name.
LEMMA CallMoves ==
  ASSUME NEW w \in BOOLEAN, NEW q, NEW H, NEW U, NEW n \in Nat, Stage(w, q, H, U, n), q # <<>>,
         Head(q).f \in {"bread", "brelse", "modify", "memmove", "bwrite"}
  PROVE  Moves(w, q, H, U, n)
<1>1. CASE ~w
  <2>1. ReaderStage(q, H, U)
    BY <1>1, Zenon DEF Stage
  <2>2. Moves(FALSE, q, H, U, n)
    BY <2>1, ReaderMoves, Zenon
  <2> QED BY <1>1, <2>2
<1>2. CASE w
  <2>1. WriterStage(q, H, U, n)
    BY <1>2, Zenon DEF Stage
  <2>2. \/ Moves(TRUE, q, H, U, n)
        \/ AboutToLog(q, H, U, n) \/ AboutToPin(q, H, U, n) \/ InCommit(q, H, U)
    BY <2>1, WriterMoves, Zenon
  <2>3. ~AboutToLog(q, H, U, n) /\ ~AboutToPin(q, H, U, n) /\ ~InCommit(q, H, U)
    BY LogName, PinName, CommitName
  <2> QED BY <1>2, <2>2, <2>3
<1> QED BY <1>1, <1>2

\* bread() of a sector the process does not have.
LEMMA BreadMoves ==
  ASSUME NEW w \in BOOLEAN, NEW q, NEW H, NEW U, NEW n \in Nat, Stage(w, q, H, U, n), q # <<>>,
         Head(q).f = "bread"
  PROVE  Head(q).s \in Sector \ H /\ Stage(w, Tail(q), H \cup {Head(q).s}, U, n)
<1>1. Moves(w, q, H, U, n)
  BY CallMoves
<1>2. PICK H2 \in SUBSET Sector, U2 \in SUBSET Sector : Move(Head(q), H, U, H2, U2) /\ Stage(w, Tail(q), H2, U2, n)
  BY <1>1, Zenon DEF Moves
<1>3. Head(q).s \in Sector \ H /\ H2 = H \cup {Head(q).s} /\ U2 = U
  BY <1>2 DEF Move
<1> QED BY <1>2, <1>3

\* brelse() of a sector the process has and does not have to save.
LEMMA BrelseMoves ==
  ASSUME NEW w \in BOOLEAN, NEW q, NEW H, NEW U, NEW n \in Nat, Stage(w, q, H, U, n), q # <<>>,
         Head(q).f = "brelse"
  PROVE  Head(q).s \in H \ U /\ Stage(w, Tail(q), H \ {Head(q).s}, U, n)
<1>1. Moves(w, q, H, U, n)
  BY CallMoves
<1>2. PICK H2 \in SUBSET Sector, U2 \in SUBSET Sector : Move(Head(q), H, U, H2, U2) /\ Stage(w, Tail(q), H2, U2, n)
  BY <1>1, Zenon DEF Moves
<1>3. Head(q).s \in H \ U /\ H2 = H \ {Head(q).s} /\ U2 = U
  BY <1>2 DEF Move
<1> QED BY <1>2, <1>3

\* What the process changes it has to save.
LEMMA ChangeMoves ==
  ASSUME NEW w \in BOOLEAN, NEW q, NEW H, NEW U, NEW n \in Nat, Stage(w, q, H, U, n), q # <<>>,
         Head(q).f \in {"modify", "memmove"}
  PROVE  Head(q).s \in H /\ Stage(w, Tail(q), H, U \cup {Head(q).s}, n)
<1>1. Moves(w, q, H, U, n)
  BY CallMoves
<1>2. PICK H2 \in SUBSET Sector, U2 \in SUBSET Sector : Move(Head(q), H, U, H2, U2) /\ Stage(w, Tail(q), H2, U2, n)
  BY <1>1, Zenon DEF Moves
<1>3. Head(q).s \in H /\ H2 = H /\ U2 = U \cup {Head(q).s}
  BY <1>2 DEF Move
<1> QED BY <1>2, <1>3

\* bwrite() saves it.
LEMMA BwriteMoves ==
  ASSUME NEW w \in BOOLEAN, NEW q, NEW H, NEW U, NEW n \in Nat, Stage(w, q, H, U, n), q # <<>>,
         Head(q).f = "bwrite"
  PROVE  Head(q).s \in H /\ Stage(w, Tail(q), H, U \ {Head(q).s}, n)
<1>1. Moves(w, q, H, U, n)
  BY CallMoves
<1>2. PICK H2 \in SUBSET Sector, U2 \in SUBSET Sector : Move(Head(q), H, U, H2, U2) /\ Stage(w, Tail(q), H2, U2, n)
  BY <1>1, Zenon DEF Moves
<1>3. Head(q).s \in H /\ H2 = H /\ U2 = U \ {Head(q).s}
  BY <1>2 DEF Move
<1> QED BY <1>2, <1>3

\* A process that makes one of the other calls is the writer.
LEMMA OtherStage ==
  ASSUME NEW w \in BOOLEAN, NEW q, NEW H, NEW U, NEW n \in Nat, Stage(w, q, H, U, n), q # <<>>,
         Head(q).f \in {"log_write", "pin", "install", "clear", "free"}
  PROVE  w /\ (AboutToLog(q, H, U, n) \/ AboutToPin(q, H, U, n) \/ InCommit(q, H, U))
<1>1. ~Moves(w, q, H, U, n)
  BY DEF Moves, Move
<1>2. w
  BY <1>1, ReaderMoves DEF Stage
<1>3. WriterStage(q, H, U, n)
  BY <1>2, Zenon DEF Stage
<1> QED BY <1>1, <1>2, <1>3, WriterMoves

\* log_write() of a sector the process has, with room in the log.
LEMMA LogWriteMoves ==
  ASSUME NEW w \in BOOLEAN, NEW q, NEW H, NEW U, NEW n \in Nat, Stage(w, q, H, U, n), q # <<>>,
         Head(q).f = "log_write"
  PROVE  /\ w /\ Head(q).s \in Home /\ Fits(n, 1)
         /\ \E Q \in Seq(Call) :
              /\ Tail(q) = AtBrelse(Head(q).s, Q)
              /\ \A t \in LogSlots : Stage(w, AtSlotBread(t, Head(q).s, Q), H, U, n)
<1>1. w /\ (AboutToLog(q, H, U, n) \/ AboutToPin(q, H, U, n) \/ InCommit(q, H, U))
  BY OtherStage
<1>2. ~AboutToPin(q, H, U, n)
  BY PinName
<1>3. ~InCommit(q, H, U)
  BY CommitName
<1>4. PICK s \in Home, Q \in Seq(Call), G \in SUBSET Home, m \in {0, 1} :
        Inside(s, Q, G, m) /\ q = AtLogWrite(s, Q) /\ H = G \cup {s} /\ U = {s} /\ Fits(n, 1 + m)
  BY <1>1, <1>2, <1>3, Zenon DEF AboutToLog
<1>5. s \in Sector
  BY DEF Sector
<1>6. Head(q) = Op("log_write", s) /\ Tail(q) = AtBrelse(s, Q)
  BY <1>4, <1>5, UpdateForms, Zenon
<1>7. Head(q).s = s
  BY <1>6 DEF Op
<1>8. Fits(n, 1)
  <2>1. CacheAssumption /\ n \in Nat /\ m \in {0, 1} /\ Len(Slot) \in Nat
    BY CacheAssumption
  <2> QED BY <1>4, <2>1 DEF Fits
<1>9. ASSUME NEW t \in LogSlots PROVE Stage(w, AtSlotBread(t, s, Q), H, U, n)
  <2>1. LogStage(AtSlotBread(t, s, Q), H, U, n, t, s, Q, G, m)
    BY <1>4, Zenon DEF LogStage
  <2>2. WriterStage(AtSlotBread(t, s, Q), H, U, n)
    BY <1>4, <2>1, Zenon DEF WriterStage
  <2> QED BY <1>1, <2>2, Zenon DEF Stage
<1> QED BY <1>1, <1>6, <1>7, <1>8, <1>9, Zenon

\* The last lines of log_write(), whether the sector was in the log or not.
LEMMA PinMoves ==
  ASSUME NEW w \in BOOLEAN, NEW q, NEW H, NEW U, NEW n \in Nat, Stage(w, q, H, U, n), q # <<>>,
         Head(q).f = "pin"
  PROVE  /\ w /\ Head(q).s \in Home /\ Fits(n, 1) /\ U = {Head(q).s}
         /\ Stage(w, Tail(q), H, {}, n) /\ Stage(w, Tail(q), H, {}, n + 1)
<1>1. w /\ (AboutToLog(q, H, U, n) \/ AboutToPin(q, H, U, n) \/ InCommit(q, H, U))
  BY OtherStage
<1>2. ~AboutToLog(q, H, U, n)
  BY LogName
<1>3. ~InCommit(q, H, U)
  BY CommitName
<1>4. PICK s \in Home, Q \in Seq(Call), G \in SUBSET Home, m \in {0, 1} :
        Inside(s, Q, G, m) /\ q = AtPin(s, Q) /\ H = G \cup {s} /\ U = {s} /\ Fits(n, 1 + m)
  BY <1>1, <1>2, <1>3, Zenon DEF AboutToPin
<1>5. s \in Sector
  BY DEF Sector
<1>6. Head(q) = Op("pin", s) /\ Tail(q) = AtBrelse(s, Q)
  BY <1>4, <1>5, LogForms, Zenon
<1>7. Head(q).s = s
  BY <1>6 DEF Op
<1>8. Fits(n, 1) /\ Fits(n, m) /\ Fits(n + 1, m)
  <2>1. n \in Nat /\ m \in {0, 1} /\ Len(Slot) \in Nat
    BY CacheAssumption
  <2> QED BY <1>4, <2>1 DEF Fits
<1>9. UpdateStage(AtBrelse(s, Q), H, {}, n, s, Q, G, m) /\ UpdateStage(AtBrelse(s, Q), H, {}, n + 1, s, Q, G, m)
  BY <1>4, <1>8, Zenon DEF UpdateStage
<1>10. WriterStage(Tail(q), H, {}, n) /\ WriterStage(Tail(q), H, {}, n + 1)
  BY <1>4, <1>6, <1>9, Zenon DEF WriterStage
<1> QED BY <1>1, <1>4, <1>7, <1>8, <1>10, Zenon DEF Stage

\* The rest of commit_trans().
LEMMA CommitMoves ==
  ASSUME NEW w \in BOOLEAN, NEW q, NEW H, NEW U, NEW n \in Nat, Stage(w, q, H, U, n), q # <<>>,
         Head(q).f \in {"install", "clear", "free"}
  PROVE  /\ w /\ H = {} /\ U = {}
         /\ Head(q).f = "install" => Tail(q) = AtClear /\ Head(q).tail \in Nat \ {0}
         /\ Head(q).f = "clear" => \A k : Stage(w, Tail(q), {}, {}, k)
         /\ Head(q).f = "free" => Tail(q) = <<>>
<1>1. w /\ (AboutToLog(q, H, U, n) \/ AboutToPin(q, H, U, n) \/ InCommit(q, H, U))
  BY OtherStage
<1>2. ~AboutToLog(q, H, U, n)
  BY LogName
<1>3. ~AboutToPin(q, H, U, n)
  BY PinName
<1>4. H = {} /\ U = {} /\ ((\E i \in Nat \ {0} : q = AtInstall(i)) \/ q = AtClear \/ q = AtFree)
  BY <1>1, <1>2, <1>3, Zenon DEF InCommit
<1>5. ASSUME NEW i \in Nat \ {0}, q = AtInstall(i)
      PROVE  Head(q).f = "install" /\ Tail(q) = AtClear /\ Head(q).tail \in Nat \ {0}
  <2>1. i \in Nat
    OBVIOUS
  <2>2. Head(q) = Install(i) /\ Tail(q) = AtClear
    BY <1>5, <2>1, CommitForms, Zenon
  <2> QED BY <2>2 DEF Install
<1>6. 0 \in Nat
  OBVIOUS
<1>7. ASSUME q = AtClear PROVE Head(q).f = "clear" /\ \A k : Stage(w, Tail(q), {}, {}, k)
  <2>1. Head(q) = Op("clear", Header) /\ Tail(q) = AtHeadBread(AtFree)
    BY <1>6, <1>7, CommitForms, Zenon
  <2>2. \A k : WriterStage(AtHeadBread(AtFree), {}, {}, k)
    BY Zenon DEF WriterStage, HeadStage
  <2>3. \A k : Stage(w, Tail(q), {}, {}, k)
    BY <1>1, <2>1, <2>2, Zenon DEF Stage
  <2>4. Head(q).f = "clear"
    BY <2>1 DEF Op
  <2> QED BY <2>3, <2>4
<1>8. ASSUME q = AtFree PROVE Head(q).f = "free" /\ Tail(q) = <<>>
  <2>1. Head(q) = Op("free", Header) /\ Tail(q) = <<>>
    BY <1>6, <1>8, CommitForms, Zenon
  <2> QED BY <2>1 DEF Op
<1>9. "install" # "clear" /\ "install" # "free" /\ "clear" # "free"
  OBVIOUS
<1> QED BY <1>1, <1>4, <1>5, <1>7, <1>8, <1>9, Zenon

-----------------------------------------------------------------------------
(* What the buffers hold.                                                   *)

\* The rest of the types.
DataTypes ==
  /\ data \in [Buf -> Value] /\ disk \in [Sector -> Value]
  /\ writer \in Proc \cup {NoProc}

\* The sectors of the buffers p has, and the one it waits for in bread().
Held(p)  == {sector[b] : b \in held[p]}
Asked(p) == IF p \in waits /\ Head(todo[p]).f = "bread" THEN {Head(todo[p]).s} ELSE {}

\* The disk has what the buffers of p hold, unless they are pinned or p is
\* still going to save them.
Saved(p, U) ==
  \A b \in held[p] : b \in valid \ dirty => data[b] = disk[sector[b]] \/ sector[b] \in U

\* A process is at a stage of its calls.
Plan(p) ==
  \E H, U \in SUBSET Sector :
    /\ Stage(p = writer, todo[p], H, U, Len(lh))
    /\ Held(p) = H \cup Asked(p) /\ H \cap Asked(p) = {}
    /\ Saved(p, U)

PlanInv == \A p \in Proc : Plan(p)

LogInv == lh \in Seq(Home) /\ Len(lh) <= Len(Slot)

\* What the flags of a buffer say: B_DIRTY only with data, B_BUSY only with an
\* owner, and a buffer without them is as on the disk.
FlagsInv ==
  /\ dirty \subseteq valid
  /\ \A b \in valid : sector[b] # NoSector
  /\ \A b \in busy : \E p \in Proc : b \in held[p]
  /\ \A b \in valid \ (dirty \cup busy) : data[b] = disk[sector[b]]
  /\ \A p \in Proc : \A b \in held[p] :
       b \notin valid => p \in waits /\ asleep[p] = b /\ Head(todo[p]).f = "bread"

\* The request of a process in iderw(): it is in the queue, or done.
Request(p, b) ==
  /\ b \in held[p] /\ sector[b] = Head(todo[p]).s
  /\ \/ /\ asleep[p] = b /\ b \in Range(idequeue)
        /\ IF Head(todo[p]).f = "bread" THEN b \notin valid ELSE b \in dirty
     \/ asleep[p] = NoBuf /\ b \in valid \ dirty /\ data[b] = disk[sector[b]]

\* The queue of the disk has the requests of those who sleep for them, once
\* each; who sleeps and has no request is in bget().
WaitsInv ==
  /\ \A p \in waits : Head(todo[p]).f \in {"bread", "bwrite"} /\ \E b \in held[p] : Request(p, b)
  /\ \A b \in Range(idequeue) : \E p \in waits : asleep[p] = b
  /\ \A i, j \in DOMAIN idequeue : idequeue[i] = idequeue[j] => i = j
  /\ \A p \in Proc : asleep[p] # NoBuf /\ p \notin waits =>
       todo[p] # <<>> /\ Head(todo[p]).f = "bread" /\ sector[asleep[p]] = Head(todo[p]).s

DataInv == DataTypes /\ PlanInv /\ LogInv /\ FlagsInv /\ WaitsInv

\* The invariant: who has the buffers, and what is in them.
CInv == IInv /\ DataInv

-----------------------------------------------------------------------------
\* The plan of a process whose buffers and calls are left alone.
LEMMA KeepPlan ==
  ASSUME NEW p \in Proc, Plan(p),
         held'[p] = held[p], todo'[p] = todo[p],
         (p \in waits <=> p \in waits') \/ Head(todo[p]).f # "bread",
         p = writer <=> p = writer', p = writer => lh' = lh,
         \A b \in held[p] :
           /\ sector'[b] = sector[b]
           /\ b \in valid' \ dirty' =>
                \/ data'[b] = disk'[sector[b]]
                \/ b \in valid \ dirty /\ data'[b] = data[b] /\ disk'[sector[b]] = disk[sector[b]]
  PROVE  Plan(p)'
<1>1. PICK H \in SUBSET Sector, U \in SUBSET Sector :
        /\ Stage(p = writer, todo[p], H, U, Len(lh))
        /\ Held(p) = H \cup Asked(p) /\ H \cap Asked(p) = {}
        /\ Saved(p, U)
  BY Zenon DEF Plan
<1>2. Stage(p = writer', todo'[p], H, U, Len(lh'))
  <2>1. CASE p = writer
    BY <1>1, <2>1, Zenon
  <2>2. CASE p # writer
    BY <1>1, <2>2, Zenon DEF Stage
  <2> QED BY <2>1, <2>2
<1>3. Held(p)' = Held(p) /\ Asked(p)' = Asked(p)
  BY DEF Held, Asked
<1>4. Saved(p, U)'
  BY <1>1 DEF Saved
<1>5. (Held(p) = H \cup Asked(p) /\ H \cap Asked(p) = {})'
  BY <1>1, <1>3
<1> QED BY <1>2, <1>4, <1>5, Zenon DEF Plan

\* A step that only changes the calls of a process that is awake.
LEMMA CallsInv ==
  ASSUME CInv, NEW p \in Proc, NEW calls, UNCHANGED <<cache, ide, asleep, waits, held>>,
         todo' = [todo EXCEPT ![p] = calls], p \notin waits, asleep[p] = NoBuf
  PROVE  (FlagsInv /\ WaitsInv)' /\ (DataTypes' <=> writer' \in Proc \cup {NoProc})
<1>1. FlagsInv'
  BY DEF CInv, IInv, Types, DataInv, FlagsInv, cache, ide, flags
<1>2. WaitsInv'
  <2>1. \A q \in waits : q \in Proc /\ q # p /\ todo'[q] = todo[q]
    BY DEF CInv, IInv, Types
  <2>2. \A q \in Proc : asleep[q] # NoBuf => todo'[q] = todo[q]
    BY DEF CInv, IInv, Types
  <2> QED BY <2>1, <2>2, SMTT(30) DEF CInv, DataInv, WaitsInv, Request, cache, ide, flags
<1>3. DataTypes' <=> writer' \in Proc \cup {NoProc}
  BY DEF CInv, DataInv, DataTypes, cache, ide, flags
<1> QED BY <1>1, <1>2, <1>3

\* Where a process is that is not in iderw().
LEMMA PlanOf ==
  ASSUME CInv, NEW p \in Proc, p \notin waits
  PROVE  /\ Held(p) \in SUBSET Sector
         /\ \E U \in SUBSET Sector : Stage(p = writer, todo[p], Held(p), U, Len(lh)) /\ Saved(p, U)
<1>1. PICK H \in SUBSET Sector, U \in SUBSET Sector :
        /\ Stage(p = writer, todo[p], H, U, Len(lh))
        /\ Held(p) = H \cup Asked(p) /\ H \cap Asked(p) = {}
        /\ Saved(p, U)
  BY Zenon DEF Plan, CInv, DataInv, PlanInv
<1>2. Held(p) = H
  BY <1>1 DEF Asked
<1> QED BY <1>1, <1>2, Zenon

\* Where it is after a step.
LEMMA PlanAfter ==
  ASSUME NEW p \in Proc, p \notin waits', NEW H \in SUBSET Sector, NEW U \in SUBSET Sector,
         Held(p)' = H, Stage(p = writer', todo'[p], H, U, Len(lh')), Saved(p, U)'
  PROVE  Plan(p)'
<1>1. Asked(p)' = {}
  BY DEF Asked
<1>2. (Held(p) = H \cup Asked(p) /\ H \cap Asked(p) = {})'
  BY <1>1
<1> QED BY <1>2, Zenon DEF Plan

\* A step that only changes the calls of p, which has what it had.
LEMMA CallsPlan ==
  ASSUME CInv, NEW p \in Proc, NEW calls, UNCHANGED <<cache, ide, asleep, waits, held>>,
         todo' = [todo EXCEPT ![p] = calls], p \notin waits,
         \A q \in Proc \ {p} : (q = writer <=> q = writer') /\ (q = writer => lh' = lh),
         Held(p) \in SUBSET Sector, NEW U \in SUBSET Sector,
         Stage(p = writer', calls, Held(p), U, Len(lh')), Saved(p, U)
  PROVE  PlanInv'
<1>1. Plan(p)'
  <2>1. Held(p)' = Held(p)
    BY DEF Held, cache
  <2>2. Saved(p, U)'
    BY DEF Saved, cache, flags, ide
  <2>3. todo'[p] = calls /\ p \notin waits'
    BY DEF CInv, IInv, Types
  <2> QED BY <2>1, <2>2, <2>3, PlanAfter
<1>2. ASSUME NEW q \in Proc \ {p} PROVE Plan(q)'
  <2>1. Plan(q)
    BY DEF CInv, DataInv, PlanInv
  <2>2. todo'[q] = todo[q]
    BY DEF CInv, IInv, Types
  <2>3. /\ held'[q] = held[q] /\ q \in waits <=> q \in waits'
        /\ \A b \in held[q] : /\ sector'[b] = sector[b] /\ data'[b] = data[b]
                              /\ disk'[sector[b]] = disk[sector[b]]
        /\ valid' = valid /\ dirty' = dirty
    BY DEF cache, flags, ide
  <2> QED BY <2>1, <2>2, <2>3, KeepPlan
<1> QED BY <1>1, <1>2 DEF PlanInv

\* The log has a place for every sector.
LEMMA LogIs == CInv => lh \in Seq(Home) /\ Len(lh) \in Nat /\ Len(Slot) \in Nat /\ Len(lh) <= Len(Slot)
BY CacheAssumption DEF CInv, DataInv, LogInv

\* A process that has no calls left has no buffers, and is awake.
LEMMA IdleHas ==
  ASSUME CInv, NEW p \in Proc, todo[p] = <<>>
  PROVE  p \notin waits /\ asleep[p] = NoBuf /\ Held(p) = {} /\ Saved(p, {})
<1>1. p \notin waits
  BY DEF CInv, IInv, IderwInv
<1>2. asleep[p] = NoBuf
  BY <1>1 DEF CInv, DataInv, WaitsInv
<1>3. PICK U \in SUBSET Sector : Stage(p = writer, todo[p], Held(p), U, Len(lh)) /\ Saved(p, U)
  BY <1>1, PlanOf
<1>4. Held(p) = {} /\ U = {}
  BY <1>3, IdleStage, LogIs
<1> QED BY <1>1, <1>2, <1>3, <1>4

\* A process starts a sequence of calls.
LEMMA StartData ==
  ASSUME CInv, NEW p \in Proc, NEW calls, Start(p, calls), lh' = lh, writer' \in Proc \cup {NoProc},
         \A q \in Proc \ {p} : q = writer <=> q = writer',
         Stage(p = writer', calls, {}, {}, Len(lh))
  PROVE  DataInv'
<1>1. /\ todo[p] = <<>> /\ todo' = [todo EXCEPT ![p] = calls]
      /\ UNCHANGED <<cache, ide, asleep, waits, held>>
  BY DEF Start
<1>2. p \notin waits /\ asleep[p] = NoBuf /\ Held(p) = {} /\ Saved(p, {})
  BY <1>1, IdleHas
<1>3. (DataTypes /\ FlagsInv /\ WaitsInv)'
  BY <1>1, <1>2, CallsInv
<1>4. PlanInv'
  <2>1. {} \in SUBSET Sector
    OBVIOUS
  <2> QED BY <1>1, <1>2, <2>1, CallsPlan
<1>5. LogInv'
  BY DEF CInv, DataInv, LogInv
<1> QED BY <1>3, <1>4, <1>5 DEF DataInv

\* A reader starts.
LEMMA StartReadData == ASSUME CInv, NEW p \in Proc, StartRead(p) PROVE DataInv'
<1>1. PICK s \in Home : Start(p, Read(s))
  BY DEF StartRead
<1>2. p # writer /\ lh' = lh /\ writer' = writer
  BY DEF StartRead, log
<1>3. Stage(p = writer', Read(s), {}, {}, Len(lh))
  BY <1>2, Zenon DEF Stage, ReaderStage
<1>4. writer' \in Proc \cup {NoProc}
  BY <1>2 DEF CInv, DataInv, DataTypes
<1> QED BY <1>1, <1>2, <1>3, <1>4, StartData

\* begin_trans() waits until there is no other writer.
LEMMA BeginTransData == ASSUME CInv, NEW p \in Proc, BeginTrans(p) PROVE DataInv'
<1>1. writer = NoProc /\ writer' = p /\ Start(p, <<>>) /\ lh' = lh
  BY DEF BeginTrans
<1>2. Stage(p = writer', <<>>, {}, {}, Len(lh))
  BY <1>1, Zenon DEF Stage, WriterStage
<1>3. \A q \in Proc \ {p} : q = writer <=> q = writer'
  BY <1>1, CacheAssumption
<1> QED BY <1>1, <1>2, <1>3, StartData

\* The writer starts an update, of one sector or of two.
LEMMA StartUpdateData == ASSUME CInv, NEW p \in Proc, StartUpdate(p) PROVE DataInv'
<1>1. p = writer /\ lh' = lh /\ writer' = writer
  BY DEF StartUpdate, log
<1>2. lh \in Seq(Home) /\ Len(lh) \in Nat /\ Len(Slot) \in Nat
  BY LogIs
<1>3. \A q \in Proc \ {p} : q = writer <=> q = writer'
  BY <1>1
<1>4. ASSUME NEW s \in Home, Len(lh) < Len(Slot), Start(p, Update(s)) PROVE DataInv'
  <2>1. s \in Sector /\ <<>> \in Seq(Call) /\ {} \in SUBSET Home /\ 0 \in {0, 1}
    BY DEF Sector
  <2>2. Update(s) = AtBread(s, <<>>)
    BY <2>1, UpdateIs
  <2>3. Inside(s, <<>>, {}, 0)
    BY DEF Inside
  <2>4. UpdateStage(Update(s), {}, {}, Len(lh), s, <<>>, {}, 0)
    BY <1>2, <1>4, <2>2 DEF UpdateStage, Fits
  <2>5. WriterStage(Update(s), {}, {}, Len(lh))
    BY <2>1, <2>3, <2>4, Zenon DEF WriterStage
  <2>6. Stage(p = writer', Update(s), {}, {}, Len(lh))
    BY <1>1, <2>5, Zenon DEF Stage
  <2> QED BY <1>1, <1>3, <1>4, <2>6, StartData
<1>5. ASSUME NEW r \in Home, NEW s \in Home, Len(lh) + 1 < Len(Slot), r # s, Start(p, UpdateBoth(r, s))
      PROVE  DataInv'
  <2>1. s \in Sector /\ r \in Sector
    BY DEF Sector
  <2>2. UpdateBoth(r, s) = Cons(Op("bread", r), AtBread(s, AtModify(r, <<>>)))
    BY <2>1, UpdateBothIs
  <2>3. Fits(Len(lh), 2)
    BY <1>2, <1>5 DEF Fits
  <2>4. WriterStage(UpdateBoth(r, s), {}, {}, Len(lh))
    BY <1>5, <2>2, <2>3, Zenon DEF WriterStage
  <2>5. Stage(p = writer', UpdateBoth(r, s), {}, {}, Len(lh))
    BY <1>1, <2>4, Zenon DEF Stage
  <2> QED BY <1>1, <1>3, <1>5, <2>5, StartData
<1> QED BY <1>4, <1>5 DEF StartUpdate

\* The writer starts commit_trans().
LEMMA CommitTransData == ASSUME CInv, NEW p \in Proc, CommitTrans(p) PROVE DataInv'
<1>1. p = writer /\ lh' = lh /\ writer' = writer /\ Start(p, CommitCalls)
  BY DEF CommitTrans, log
<1>2. WriterStage(AtFree, {}, {}, Len(lh))
  BY Zenon DEF WriterStage
<1>3. WriterStage(AtHeadBread(AtInstall(1)), {}, {}, Len(lh))
  <2>1. 1 \in Nat \ {0} /\ HeadStage(AtHeadBread(AtInstall(1)), {}, {}, AtInstall(1))
    BY DEF HeadStage
  <2> QED BY <2>1, Zenon DEF WriterStage
<1>4. Stage(p = writer', CommitCalls, {}, {}, Len(lh))
  BY <1>1, <1>2, <1>3, CommitIs, Zenon DEF Stage
<1>5. \A q \in Proc \ {p} : q = writer <=> q = writer'
  BY <1>1
<1> QED BY <1>1, <1>4, <1>5, StartData

-----------------------------------------------------------------------------
\* The process that makes a call is awake, and at a stage.
LEMMA CallStage ==
  ASSUME CInv, NEW p \in Proc, NEW f, NEW s, Calls(p, f, s)
  PROVE  /\ p \notin waits /\ asleep[p] = NoBuf
         /\ todo[p] # <<>> /\ Head(todo[p]).f = f /\ Head(todo[p]).s = s
         /\ Held(p) \in SUBSET Sector /\ Len(lh) \in Nat /\ (p = writer) \in BOOLEAN
         /\ \E U \in SUBSET Sector : Stage(p = writer, todo[p], Held(p), U, Len(lh)) /\ Saved(p, U)
<1>1. p \notin waits
  BY DEF Calls
<1> QED BY <1>1, PlanOf, LogIs, Zenon DEF Calls

\* A buffer of a process, and the process that has it.
LEMMA MineIs ==
  ASSUME CInv, NEW p \in Proc, NEW s, NEW b \in Mine(p, s)
  PROVE  /\ b \in Buf /\ b \in held[p] /\ b \in busy /\ sector[b] = s /\ s \in Sector /\ s \in Held(p)
         /\ \A q \in Proc \ {p} : b \notin held[q]
         /\ \A c \in Buf : sector[c] = s => c = b
         /\ p \notin waits => b \in valid /\ b \notin Range(idequeue)
<1>1. /\ b \in Buf /\ b \in held[p] /\ b \in busy /\ sector[b] = s /\ s \in Sector
      /\ \A q \in Proc \ {p} : b \notin held[q]
      /\ \A c \in Buf : sector[c] = s => c = b
  BY DEF CInv, IInv, Types, OwnersInv, Mine
<1>2. s \in Held(p)
  BY <1>1 DEF Held
<1>3. ASSUME p \notin waits PROVE b \in valid /\ b \notin Range(idequeue)
  <2>1. b \in valid
    BY <1>1, <1>3 DEF CInv, DataInv, FlagsInv
  <2>2. ASSUME b \in Range(idequeue) PROVE FALSE
    <3>1. PICK q \in waits : asleep[q] = b
      BY <2>2 DEF CInv, DataInv, WaitsInv
    <3>2. q \in Proc /\ b # NoBuf
      BY <1>1, CacheAssumption DEF CInv, IInv, Types
    <3>3. b \in held[q]
      BY <3>1, <3>2 DEF CInv, DataInv, WaitsInv, Request
    <3> QED BY <1>1, <1>3, <3>2, <3>3
  <2> QED BY <2>1, <2>2
<1> QED BY <1>1, <1>2, <1>3

\* The sectors of the log.
LEMMA SlotIs ==
  ASSUME CInv, NEW s, Fits(Len(lh), 1)
  PROVE  SlotOf(s) \in LogSlots
<1>1. lh \in Seq(Home) /\ Len(lh) \in Nat /\ Len(Slot) \in Nat /\ Len(lh) + 1 <= Len(Slot)
  BY LogIs DEF Fits
<1>2. \A i \in 1..Len(Slot) : Slot[i] \in LogSlots
  BY CacheAssumption
<1>3. CASE s \in Range(lh)
  <2>1. \E i \in 1..Len(lh) : lh[i] = s
    BY <1>1, <1>3 DEF Range
  <2>2. (CHOOSE i \in 1..Len(lh) : lh[i] = s) \in 1..Len(lh)
    BY <2>1
  <2>3. (CHOOSE i \in 1..Len(lh) : lh[i] = s) \in 1..Len(Slot)
    BY <1>1, <2>2
  <2> QED BY <1>2, <1>3, <2>3, Zenon DEF SlotOf
<1>4. CASE s \notin Range(lh)
  <2>1. Len(lh) + 1 \in 1..Len(Slot)
    BY <1>1
  <2> QED BY <1>2, <1>4, <2>1, Zenon DEF SlotOf
<1> QED BY <1>3, <1>4

\* log_write() goes on with its calls.
LEMMA LogWriteData == ASSUME CInv, NEW p \in Proc, NEW s \in Sector, LogWrite(p, s) PROVE DataInv'
<1> DEFINE calls == LogWriteCalls(s) \o Tail(todo[p])
<1>1. /\ Calls(p, "log_write", s) /\ todo' = [todo EXCEPT ![p] = calls]
      /\ UNCHANGED <<cache, ide, asleep, waits, held>> /\ lh' = lh /\ writer' = writer
  BY DEF LogWrite, log
<1>2. /\ p \notin waits /\ asleep[p] = NoBuf /\ todo[p] # <<>>
      /\ Head(todo[p]).f = "log_write" /\ Head(todo[p]).s = s
      /\ Held(p) \in SUBSET Sector /\ Len(lh) \in Nat /\ (p = writer) \in BOOLEAN
      /\ \E U \in SUBSET Sector : Stage(p = writer, todo[p], Held(p), U, Len(lh)) /\ Saved(p, U)
  BY <1>1, CallStage, Zenon
<1>3. PICK U \in SUBSET Sector : Stage(p = writer, todo[p], Held(p), U, Len(lh)) /\ Saved(p, U)
  BY <1>2
<1>4. /\ Fits(Len(lh), 1)
      /\ \E Q \in Seq(Call) : /\ Tail(todo[p]) = AtBrelse(s, Q)
                              /\ \A t \in LogSlots : Stage(p = writer, AtSlotBread(t, s, Q), Held(p), U, Len(lh))
  BY <1>2, <1>3, LogWriteMoves
<1>5. PICK Q \in Seq(Call) : /\ Tail(todo[p]) = AtBrelse(s, Q)
                             /\ \A t \in LogSlots : Stage(p = writer, AtSlotBread(t, s, Q), Held(p), U, Len(lh))
  BY <1>4
<1>6. SlotOf(s) \in LogSlots /\ SlotOf(s) \in Sector
  BY <1>4, SlotIs DEF Sector
<1>7. calls = AtSlotBread(SlotOf(s), s, Q)
  BY <1>5, <1>6, LogWriteIs, Zenon
<1>8. Stage(p = writer', calls, Held(p), U, Len(lh'))
  BY <1>1, <1>5, <1>6, <1>7, Zenon
<1> HIDE DEF calls
<1>9. PlanInv'
  BY <1>1, <1>2, <1>3, <1>8, CallsPlan
<1>10. (DataTypes /\ FlagsInv /\ WaitsInv)'
  <2>1. writer' \in Proc \cup {NoProc}
    BY <1>1 DEF CInv, DataInv, DataTypes
  <2> QED BY <1>1, <1>2, <2>1, CallsInv
<1> QED BY <1>1, <1>9, <1>10 DEF CInv, DataInv, LogInv

\* install_trans() goes on with its next block, or ends.
LEMMA InstallTransData == ASSUME CInv, NEW p \in Proc, InstallTrans(p) PROVE DataInv'
<1> DEFINE i == Head(todo[p]).tail
           calls == IF i > Len(lh) THEN Tail(todo[p])
                    ELSE InstallCalls(Slot[i], lh[i]) \o <<Install(i + 1)>> \o Tail(todo[p])
<1>1. /\ asleep[p] = NoBuf /\ p \notin waits /\ todo[p] # <<>> /\ Head(todo[p]).f = "install"
      /\ todo' = [todo EXCEPT ![p] = calls]
      /\ UNCHANGED <<cache, ide, asleep, waits, held>> /\ lh' = lh /\ writer' = writer
  BY DEF InstallTrans, log
<1>2. /\ Held(p) \in SUBSET Sector
      /\ \E U \in SUBSET Sector : Stage(p = writer, todo[p], Held(p), U, Len(lh)) /\ Saved(p, U)
  BY <1>1, PlanOf
<1>3. PICK U \in SUBSET Sector : Stage(p = writer, todo[p], Held(p), U, Len(lh)) /\ Saved(p, U)
  BY <1>2
<1>4. lh \in Seq(Home) /\ Len(lh) \in Nat /\ Len(Slot) \in Nat /\ Len(lh) <= Len(Slot)
  BY LogIs
<1>5. p = writer /\ Held(p) = {} /\ U = {} /\ Tail(todo[p]) = AtClear /\ i \in Nat \ {0}
  BY <1>1, <1>3, <1>4, CommitMoves
<1>6. WriterStage(calls, {}, {}, Len(lh))
  <2>1. CASE i > Len(lh)
    <3>1. calls = AtClear
      BY <1>5, <2>1
    <3> QED BY <3>1, Zenon DEF WriterStage
  <2>2. CASE ~(i > Len(lh))
    <3>1. Slot[i] \in LogSlots /\ lh[i] \in Home /\ i + 1 \in Nat /\ i + 1 \in Nat \ {0}
      BY <1>4, <1>5, <2>2, CacheAssumption
    <3>2. Slot[i] \in Sector /\ lh[i] \in Sector
      BY <3>1 DEF Sector
    <3>3. calls = InstallCalls(Slot[i], lh[i]) \o <<Install(i + 1)>> \o AtClear
      BY <1>5, <2>2, Zenon
    <3>4. calls = AtBlockBread(Slot[i], lh[i], i + 1)
      BY <3>1, <3>2, <3>3, InstallIs, Zenon
    <3>5. InstallStage(calls, {}, {}, Slot[i], lh[i], i + 1)
      BY <3>4, Zenon DEF InstallStage
    <3> QED BY <3>1, <3>5, Zenon DEF WriterStage
  <2> QED BY <2>1, <2>2
<1> HIDE DEF i, calls
<1>7. Stage(p = writer', calls, Held(p), U, Len(lh'))
  BY <1>1, <1>5, <1>6, Zenon DEF Stage
<1>8. PlanInv'
  BY <1>1, <1>2, <1>3, <1>7, CallsPlan
<1>9. (DataTypes /\ FlagsInv /\ WaitsInv)'
  <2>1. writer' \in Proc \cup {NoProc}
    BY <1>1 DEF CInv, DataInv, DataTypes
  <2> QED BY <1>1, <2>1, CallsInv
<1> QED BY <1>1, <1>8, <1>9 DEF CInv, DataInv, LogInv

\* The log is emptied: the writer has no buffers.
LEMMA ClearData == ASSUME CInv, NEW p \in Proc, NEW s \in Sector, Clear(p, s) PROVE DataInv'
<1>1. /\ Calls(p, "clear", s) /\ todo' = [todo EXCEPT ![p] = Tail(todo[p])]
      /\ UNCHANGED <<cache, ide, asleep, waits, held>> /\ lh' = <<>> /\ writer' = writer
  BY DEF Clear, Returns
<1>2. /\ p \notin waits /\ asleep[p] = NoBuf /\ todo[p] # <<>> /\ Head(todo[p]).f = "clear"
      /\ Held(p) \in SUBSET Sector /\ Len(lh) \in Nat /\ (p = writer) \in BOOLEAN
      /\ \E U \in SUBSET Sector : Stage(p = writer, todo[p], Held(p), U, Len(lh)) /\ Saved(p, U)
  BY <1>1, CallStage, Zenon
<1>3. PICK U \in SUBSET Sector : Stage(p = writer, todo[p], Held(p), U, Len(lh)) /\ Saved(p, U)
  BY <1>2
<1>4. p = writer /\ Held(p) = {} /\ U = {} /\ \A k : Stage(p = writer, Tail(todo[p]), {}, {}, k)
  BY <1>2, <1>3, CommitMoves
<1>5. PlanInv'
  <2>1. Stage(p = writer', Tail(todo[p]), Held(p), U, Len(lh'))
    BY <1>1, <1>4, Zenon
  <2>2. \A q \in Proc \ {p} : (q = writer <=> q = writer') /\ (q = writer => lh' = lh)
    BY <1>1, <1>4
  <2> QED BY <1>1, <1>2, <1>3, <2>1, <2>2, CallsPlan
<1>6. (DataTypes /\ FlagsInv /\ WaitsInv)'
  <2>1. writer' \in Proc \cup {NoProc}
    BY <1>1 DEF CInv, DataInv, DataTypes
  <2> QED BY <1>1, <1>2, <2>1, CallsInv
<1>7. LogInv'
  BY <1>1, LogIs DEF LogInv
<1> QED BY <1>5, <1>6, <1>7 DEF DataInv

\* commit_trans() ends.
LEMMA FreeData == ASSUME CInv, NEW p \in Proc, NEW s \in Sector, Free(p, s) PROVE DataInv'
<1>1. /\ Calls(p, "free", s) /\ todo' = [todo EXCEPT ![p] = Tail(todo[p])]
      /\ UNCHANGED <<cache, ide, asleep, waits, held>> /\ lh' = lh /\ writer' = NoProc
  BY DEF Free, Returns
<1>2. /\ p \notin waits /\ asleep[p] = NoBuf /\ todo[p] # <<>> /\ Head(todo[p]).f = "free"
      /\ Held(p) \in SUBSET Sector /\ Len(lh) \in Nat /\ (p = writer) \in BOOLEAN
      /\ \E U \in SUBSET Sector : Stage(p = writer, todo[p], Held(p), U, Len(lh)) /\ Saved(p, U)
  BY <1>1, CallStage, Zenon
<1>3. PICK U \in SUBSET Sector : Stage(p = writer, todo[p], Held(p), U, Len(lh)) /\ Saved(p, U)
  BY <1>2
<1>4. p = writer /\ Held(p) = {} /\ U = {} /\ Tail(todo[p]) = <<>>
  BY <1>2, <1>3, CommitMoves
<1>5. PlanInv'
  <2>1. Stage(p = writer', Tail(todo[p]), Held(p), U, Len(lh'))
    BY <1>1, <1>4, CacheAssumption DEF Stage, WriterStage, ReaderStage
  <2>2. \A q \in Proc \ {p} : (q = writer <=> q = writer') /\ (q = writer => lh' = lh)
    BY <1>1, <1>4, CacheAssumption
  <2> QED BY <1>1, <1>2, <1>3, <2>1, <2>2, CallsPlan
<1>6. (DataTypes /\ FlagsInv /\ WaitsInv)'
  BY <1>1, <1>2, CallsInv
<1> QED BY <1>1, <1>5, <1>6 DEF CInv, DataInv, LogInv

-----------------------------------------------------------------------------
\* A value that processes may find is one.
LEMMA ContentIs ==
  /\ \A s \in Sector : Content[s] \subseteq Value
  /\ Blank \in Value
<1>1. \A s \in DOMAIN Content : Content[s] \in Range(Content)
  BY DEF Range
<1>2. \A s \in Sector : Content[s] \subseteq Value
  BY <1>1, CacheAssumption DEF Value
<1>3. Header \in Sector /\ Content[Header] # {}
  BY CacheAssumption DEF Sector
<1>4. Blank \in Content[Header]
  BY <1>3 DEF Blank
<1> QED BY <1>2, <1>3, <1>4

\* A process changes a buffer it has.
LEMMA ChangeData ==
  ASSUME CInv, NEW p \in Proc, NEW f \in {"modify", "memmove"}, NEW s, Calls(p, f, s), Returns(p),
         NEW b \in Mine(p, s), NEW v \in Value, data' = [data EXCEPT ![b] = v],
         UNCHANGED <<mru, sector, flags, ide, asleep, waits, held, log>>
  PROVE  DataInv'
<1>1. /\ p \notin waits /\ asleep[p] = NoBuf /\ todo[p] # <<>>
      /\ Head(todo[p]).f = f /\ Head(todo[p]).s = s
      /\ Held(p) \in SUBSET Sector /\ Len(lh) \in Nat /\ (p = writer) \in BOOLEAN
      /\ \E U \in SUBSET Sector : Stage(p = writer, todo[p], Held(p), U, Len(lh)) /\ Saved(p, U)
  BY CallStage, Zenon
<1>2. PICK U \in SUBSET Sector : Stage(p = writer, todo[p], Held(p), U, Len(lh)) /\ Saved(p, U)
  BY <1>1
<1>3. s \in Held(p) /\ Stage(p = writer, Tail(todo[p]), Held(p), U \cup {s}, Len(lh))
  BY <1>1, <1>2, ChangeMoves
<1>4. /\ b \in Buf /\ b \in held[p] /\ b \in busy /\ sector[b] = s /\ s \in Sector
      /\ \A q \in Proc \ {p} : b \notin held[q]
      /\ \A c \in Buf : sector[c] = s => c = b
  BY MineIs
<1>5. /\ \A c \in Buf \ {b} : data'[c] = data[c]
      /\ \A q \in Proc \ {p} : todo'[q] = todo[q]
      /\ todo'[p] = Tail(todo[p])
      /\ mru' = mru /\ sector' = sector /\ busy' = busy /\ valid' = valid /\ dirty' = dirty
      /\ idequeue' = idequeue /\ disk' = disk /\ asleep' = asleep /\ waits' = waits /\ held' = held
      /\ lh' = lh /\ writer' = writer
  BY <1>4 DEF CInv, IInv, Types, DataInv, DataTypes, Returns, flags, ide, log
<1>6. \A q \in Proc : held[q] \subseteq Buf
  BY DEF CInv, IInv, Types
<1>7. DataTypes'
  BY <1>4, <1>5 DEF CInv, DataInv, DataTypes
<1>8. PlanInv'
  <2>1. Plan(p)'
    <3>1. Held(p)' = Held(p)
      BY <1>5 DEF Held
    <3>2. Saved(p, U \cup {s})'
      BY <1>2, <1>4, <1>5, <1>6 DEF Saved
    <3>3. U \cup {s} \in SUBSET Sector /\ p \notin waits'
      BY <1>1, <1>4, <1>5
    <3>4. Stage(p = writer', todo'[p], Held(p), U \cup {s}, Len(lh'))
      BY <1>3, <1>5, Zenon
    <3> QED BY <1>1, <3>1, <3>2, <3>3, <3>4, PlanAfter
  <2>2. ASSUME NEW q \in Proc \ {p} PROVE Plan(q)'
    <3>1. Plan(q)
      BY DEF CInv, DataInv, PlanInv
    <3>2. \A c \in held[q] : data'[c] = data[c]
      BY <1>4, <1>5, <1>6
    <3> QED BY <1>5, <3>1, <3>2, KeepPlan
  <2> QED BY <2>1, <2>2 DEF PlanInv
<1>9. LogInv'
  BY <1>5 DEF CInv, DataInv, LogInv
<1>10. FlagsInv'
  <2>1. FlagsInv /\ valid \subseteq Buf /\ waits \subseteq Proc
    BY DEF CInv, IInv, Types, DataInv
  <2> QED BY <1>1, <1>4, <1>5, <2>1 DEF FlagsInv
<1>11. WaitsInv'
  <2>1. WaitsInv /\ waits \subseteq Proc \ {p}
    BY <1>1 DEF CInv, IInv, Types, DataInv
  <2>2. ASSUME NEW q \in waits, NEW c \in held[q], Request(q, c) PROVE Request(q, c)'
    <3>1. data'[c] = data[c] /\ todo'[q] = todo[q]
      BY <1>4, <1>5, <1>6, <2>1
    <3> QED BY <1>5, <2>2, <3>1 DEF Request
  <2> QED BY <1>1, <1>5, <2>1, <2>2 DEF WaitsInv
<1> QED BY <1>7, <1>8, <1>9, <1>10, <1>11 DEF DataInv

\* A process changes a block.
LEMMA ModifyData == ASSUME CInv, NEW p \in Proc, NEW s \in Sector, Modify(p, s) PROVE DataInv'
<1>1. PICK b \in Mine(p, s), v \in Content[s] : data' = [data EXCEPT ![b] = v]
  BY DEF Modify
<1>2. v \in Value
  BY <1>1, ContentIs
<1> QED BY <1>1, <1>2, ChangeData DEF Modify

\* memmove() between two blocks of one process.
LEMMA MemmoveData == ASSUME CInv, NEW p \in Proc, NEW s \in Sector, Memmove(p, s) PROVE DataInv'
<1>1. PICK b \in Mine(p, s), c \in Mine(p, Head(todo[p]).from) : data' = [data EXCEPT ![b] = data[c]]
  BY DEF Memmove
<1>2. data[c] \in Value
  BY MineIs DEF CInv, DataInv, DataTypes
<1> QED BY <1>1, <1>2, ChangeData DEF Memmove

\* The requests of those who wait are left alone by a step of p that does not
\* wait.
LEMMA OthersWait ==
  ASSUME CInv, NEW p \in Proc, p \notin waits, NEW b \in Buf, \A q \in Proc \ {p} : b \notin held[q],
         \A q \in Proc \ {p} : held'[q] = held[q] /\ todo'[q] = todo[q],
         \A q \in waits : asleep'[q] = asleep[q],
         Range(idequeue) \subseteq Range(idequeue'), sector' = sector, data' = data, disk' = disk,
         valid' = valid, dirty \ {b} = dirty' \ {b}
  PROVE  \A q \in waits : /\ Head(todo'[q]).f \in {"bread", "bwrite"}
                          /\ \E c \in held'[q] : Request(q, c)'
<1>1. ASSUME NEW q \in waits
      PROVE  Head(todo'[q]).f \in {"bread", "bwrite"} /\ \E c \in held'[q] : Request(q, c)'
  <2>1. q \in Proc \ {p}
    BY DEF CInv, IInv, Types
  <2>2. PICK c \in held[q] : Head(todo[q]).f \in {"bread", "bwrite"} /\ Request(q, c)
    BY DEF CInv, DataInv, WaitsInv
  <2>3. c # b /\ held'[q] = held[q] /\ todo'[q] = todo[q]
    BY <2>1, <2>2
  <2>4. c \in dirty <=> c \in dirty'
    BY <2>3
  <2>5. Request(q, c)'
    BY <2>2, <2>3, <2>4 DEF Request
  <2> QED BY <2>2, <2>3, <2>5
<1> QED BY <1>1

\* log_write() pins its block.
LEMMA PinData == ASSUME CInv, NEW p \in Proc, NEW s \in Sector, Pin(p, s) PROVE DataInv'
<1>1. PICK b \in Mine(p, s) : dirty' = dirty \cup {b}
  BY DEF Pin
<1>2. /\ Calls(p, "pin", s)
      /\ p \notin waits /\ asleep[p] = NoBuf /\ todo[p] # <<>>
      /\ Head(todo[p]).f = "pin" /\ Head(todo[p]).s = s
      /\ Held(p) \in SUBSET Sector /\ Len(lh) \in Nat /\ (p = writer) \in BOOLEAN
      /\ \E U \in SUBSET Sector : Stage(p = writer, todo[p], Held(p), U, Len(lh)) /\ Saved(p, U)
  BY CallStage, Zenon DEF Pin
<1>3. PICK U \in SUBSET Sector : Stage(p = writer, todo[p], Held(p), U, Len(lh)) /\ Saved(p, U)
  BY <1>2
<1>4. /\ p = writer /\ s \in Home /\ Fits(Len(lh), 1) /\ U = {s}
      /\ Stage(p = writer, Tail(todo[p]), Held(p), {}, Len(lh))
      /\ Stage(p = writer, Tail(todo[p]), Held(p), {}, Len(lh) + 1)
  <2> DEFINE w == p = writer
             q == todo[p]
  <2>1. w \in BOOLEAN /\ Stage(w, q, Held(p), U, Len(lh)) /\ q # <<>> /\ Head(q).f = "pin" /\ Head(q).s = s
    BY <1>2, <1>3
  <2> HIDE DEF w, q
  <2>2. /\ w /\ Head(q).s \in Home /\ Fits(Len(lh), 1) /\ U = {Head(q).s}
        /\ Stage(w, Tail(q), Held(p), {}, Len(lh)) /\ Stage(w, Tail(q), Held(p), {}, Len(lh) + 1)
    BY <1>2, <2>1, PinMoves, Zenon
  <2> QED BY <2>1, <2>2, Zenon DEF w, q
<1>5. /\ b \in Buf /\ b \in held[p] /\ b \in busy /\ sector[b] = s /\ b \in valid
      /\ \A q \in Proc \ {p} : b \notin held[q]
      /\ \A c \in Buf : sector[c] = s => c = b
  BY <1>2, MineIs
<1>6. /\ \A q \in Proc \ {p} : todo'[q] = todo[q]
      /\ todo'[p] = Tail(todo[p])
      /\ mru' = mru /\ sector' = sector /\ busy' = busy /\ valid' = valid /\ data' = data
      /\ idequeue' = idequeue /\ disk' = disk /\ asleep' = asleep /\ waits' = waits /\ held' = held
      /\ writer' = writer
  BY DEF Pin, CInv, IInv, Types, Returns, ide
<1>7. lh \in Seq(Home) /\ Len(lh) + 1 <= Len(Slot) /\ Len(Slot) \in Nat
  BY <1>4, LogIs DEF Fits
<1>8. LogInv' /\ Len(lh') \in {Len(lh), Len(lh) + 1}
  <2>1. lh' = lh \/ lh' = Append(lh, s)
    BY DEF Pin
  <2>2. lh' \in Seq(Home) /\ Len(lh') \in {Len(lh), Len(lh) + 1}
    BY <1>4, <1>7, <2>1
  <2>3. Len(lh') <= Len(Slot)
    BY <1>2, <1>7, <2>2
  <2> QED BY <2>2, <2>3 DEF LogInv
<1>9. \A q \in Proc : held[q] \subseteq Buf
  BY DEF CInv, IInv, Types
<1>10. DataTypes'
  BY <1>6 DEF CInv, DataInv, DataTypes
<1>11. PlanInv'
  <2>1. Plan(p)'
    <3>1. Held(p)' = Held(p)
      BY <1>6 DEF Held
    <3>2. Saved(p, {})'
      BY <1>1, <1>3, <1>4, <1>5, <1>6, <1>9 DEF Saved
    <3>3. Stage(p = writer', todo'[p], Held(p), {}, Len(lh'))
      BY <1>4, <1>6, <1>8
    <3>4. p \notin waits' /\ {} \in SUBSET Sector
      BY <1>2, <1>6
    <3> QED BY <1>2, <3>1, <3>2, <3>3, <3>4, PlanAfter
  <2>2. ASSUME NEW q \in Proc \ {p} PROVE Plan(q)'
    <3>1. Plan(q) /\ q # writer
      BY <1>4 DEF CInv, DataInv, PlanInv
    <3>2. \A c \in held[q] : c \in valid' \ dirty' => c \in valid \ dirty
      BY <1>1, <1>6
    <3> QED BY <1>6, <3>1, <3>2, KeepPlan
  <2> QED BY <2>1, <2>2 DEF PlanInv
<1>12. FlagsInv'
  <2>1. FlagsInv /\ waits \subseteq Proc
    BY DEF CInv, IInv, Types, DataInv
  <2>2. dirty' \subseteq valid'
    BY <1>1, <1>5, <1>6, <2>1 DEF FlagsInv
  <2> QED BY <1>1, <1>2, <1>6, <2>1, <2>2 DEF FlagsInv
<1>13. WaitsInv'
  <2>1. WaitsInv
    BY DEF CInv, DataInv
  <2>2. dirty \ {b} = dirty' \ {b}
    BY <1>1
  <2>3. \A q \in waits : /\ Head(todo'[q]).f \in {"bread", "bwrite"}
                         /\ \E c \in held'[q] : Request(q, c)'
    BY <1>2, <1>5, <1>6, <2>2, OthersWait
  <2> QED BY <1>2, <1>6, <2>1, <2>3 DEF WaitsInv
<1> QED BY <1>8, <1>10, <1>11, <1>12, <1>13 DEF DataInv

\* brelse() of a buffer that is as on the disk, or pinned.
LEMMA BrelseData == ASSUME CInv, NEW p \in Proc, NEW s \in Sector, Brelse(p, s) PROVE DataInv'
<1>1. PICK b \in Mine(p, s) : busy' = busy \ {b} /\ held' = [held EXCEPT ![p] = @ \ {b}] /\ WakeUp(b)
  BY DEF Brelse
<1>2. /\ Calls(p, "brelse", s)
      /\ p \notin waits /\ asleep[p] = NoBuf /\ todo[p] # <<>>
      /\ Head(todo[p]).f = "brelse" /\ Head(todo[p]).s = s
      /\ Held(p) \in SUBSET Sector /\ Len(lh) \in Nat /\ (p = writer) \in BOOLEAN
      /\ \E U \in SUBSET Sector : Stage(p = writer, todo[p], Held(p), U, Len(lh)) /\ Saved(p, U)
  BY CallStage, Zenon DEF Brelse
<1>3. PICK U \in SUBSET Sector : Stage(p = writer, todo[p], Held(p), U, Len(lh)) /\ Saved(p, U)
  BY <1>2
<1>4. s \in Held(p) \ U /\ Stage(p = writer, Tail(todo[p]), Held(p) \ {s}, U, Len(lh))
  BY <1>2, <1>3, BrelseMoves
<1>5. /\ b \in Buf /\ b \in held[p] /\ b \in busy /\ sector[b] = s /\ b \in valid
      /\ \A q \in Proc \ {p} : b \notin held[q]
      /\ \A c \in Buf : sector[c] = s => c = b
  BY <1>2, MineIs
<1>6. /\ \A q \in Proc \ {p} : todo'[q] = todo[q] /\ held'[q] = held[q]
      /\ todo'[p] = Tail(todo[p]) /\ held'[p] = held[p] \ {b}
      /\ sector' = sector /\ valid' = valid /\ dirty' = dirty /\ data' = data
      /\ idequeue' = idequeue /\ disk' = disk /\ waits' = waits
      /\ lh' = lh /\ writer' = writer
  BY <1>1 DEF Brelse, CInv, IInv, Types, Returns, ide, log
<1>7. \A q \in Proc : asleep'[q] = IF asleep[q] = b THEN NoBuf ELSE asleep[q]
  BY <1>1 DEF WakeUp
<1>8. \A q \in Proc : held[q] \subseteq Buf
  BY DEF CInv, IInv, Types
<1>9. \A q \in waits : q \in Proc \ {p} /\ asleep[q] # b
  BY <1>2, <1>5, CacheAssumption DEF CInv, IInv, Types, DataInv, WaitsInv, Request
<1>10. DataTypes' /\ LogInv'
  BY <1>6 DEF CInv, DataInv, DataTypes, LogInv
<1>11. PlanInv'
  <2>1. Plan(p)'
    <3>1. Held(p)' = Held(p) \ {s}
      BY <1>5, <1>6, <1>8 DEF Held
    <3>2. Saved(p, U)'
      BY <1>3, <1>6 DEF Saved
    <3>3. Stage(p = writer', todo'[p], Held(p) \ {s}, U, Len(lh'))
      BY <1>4, <1>6, Zenon
    <3>4. p \notin waits' /\ Held(p) \ {s} \in SUBSET Sector
      BY <1>2, <1>6
    <3> QED BY <3>1, <3>2, <3>3, <3>4, PlanAfter
  <2>2. ASSUME NEW q \in Proc \ {p} PROVE Plan(q)'
    <3>1. Plan(q)
      BY DEF CInv, DataInv, PlanInv
    <3> QED BY <1>6, <3>1, KeepPlan
  <2> QED BY <2>1, <2>2 DEF PlanInv
<1>12. FlagsInv'
  <2>1. FlagsInv /\ waits \subseteq Proc /\ valid \subseteq Buf
    BY DEF CInv, IInv, Types, DataInv
  <2>2. \A c \in busy' : \E q \in Proc : c \in held'[q]
    BY <1>1, <1>6, <2>1 DEF FlagsInv
  <2>3. \A c \in valid' \ (dirty' \cup busy') : data'[c] = disk'[sector'[c]]
    <3>1. b \notin dirty => data[b] = disk[sector[b]]
      BY <1>3, <1>4, <1>5 DEF Saved
    <3> QED BY <1>1, <1>6, <2>1, <3>1 DEF FlagsInv
  <2>4. ASSUME NEW q \in Proc, NEW c \in held'[q], c \notin valid'
        PROVE  q \in waits' /\ asleep'[q] = c /\ Head(todo'[q]).f = "bread"
    <3>1. c \in held[q] /\ c \notin valid
      BY <1>6, <2>4
    <3>2. q \in waits /\ asleep[q] = c /\ Head(todo[q]).f = "bread"
      BY <2>1, <3>1 DEF FlagsInv
    <3> QED BY <1>6, <1>7, <1>9, <3>2
  <2> QED BY <1>6, <2>1, <2>2, <2>3, <2>4 DEF FlagsInv
<1>13. WaitsInv'
  <2>1. WaitsInv /\ NoBuf \notin Buf
    BY CacheAssumption DEF CInv, DataInv
  <2>2. \A q \in waits : asleep'[q] = asleep[q]
    BY <1>7, <1>9
  <2>3. \A q \in waits : /\ Head(todo'[q]).f \in {"bread", "bwrite"}
                         /\ \E c \in held'[q] : Request(q, c)'
    BY <1>2, <1>5, <1>6, <2>2, OthersWait
  <2>4. \A q \in Proc : asleep'[q] # NoBuf => asleep'[q] = asleep[q] /\ q # p
    BY <1>2, <1>7
  <2> QED BY <1>6, <2>1, <2>2, <2>3, <2>4 DEF WaitsInv
<1> QED BY <1>10, <1>11, <1>12, <1>13 DEF DataInv

-----------------------------------------------------------------------------
\* A buffer that is not in the queue is there once after Append.
LEMMA AppendOnce ==
  ASSUME NEW q \in Seq(Buf), NEW b \in Buf, b \notin Range(q),
         \A i, j \in DOMAIN q : q[i] = q[j] => i = j
  PROVE  \A i, j \in DOMAIN Append(q, b) : Append(q, b)[i] = Append(q, b)[j] => i = j
<1>1. /\ Len(q) \in Nat /\ DOMAIN q = 1..Len(q) /\ DOMAIN Append(q, b) = 1..(Len(q) + 1)
      /\ \A i \in 1..Len(q) : Append(q, b)[i] = q[i]
      /\ Append(q, b)[Len(q) + 1] = b
  OBVIOUS
<1>2. \A i \in 1..Len(q) : q[i] # b
  BY <1>1 DEF Range
<1>3. \A i \in 1..(Len(q) + 1) : i \in 1..Len(q) \/ i = Len(q) + 1
  BY <1>1
<1> DEFINE r == Append(q, b)
<1> SUFFICES ASSUME NEW i \in DOMAIN r, NEW j \in DOMAIN r, r[i] = r[j] PROVE i = j
  OBVIOUS
<1>4. \A k \in 1..Len(q) : r[k] = q[k] /\ r[k] # b
  BY <1>1, <1>2, Zenon
<1>5. r[Len(q) + 1] = b /\ i \in 1..(Len(q) + 1) /\ j \in 1..(Len(q) + 1)
  BY <1>1, Zenon
<1> HIDE DEF r
<1>6. CASE i \in 1..Len(q) /\ j \in 1..Len(q)
  BY <1>1, <1>4, <1>6
<1>7. CASE i = Len(q) + 1 /\ j = Len(q) + 1
  BY <1>7
<1>8. ~(i \in 1..Len(q) /\ j = Len(q) + 1) /\ ~(j \in 1..Len(q) /\ i = Len(q) + 1)
  BY <1>4, <1>5
<1> QED BY <1>3, <1>5, <1>6, <1>7, <1>8

\* What a process that begins to wait in iderw() does to those who wait.
LEMMA Enqueue ==
  ASSUME CInv, NEW p \in Proc, p \notin waits, asleep[p] = NoBuf, NEW b \in Buf,
         b \notin Range(idequeue), \A q \in Proc \ {p} : b \notin held[q],
         idequeue' = Append(idequeue, b), waits' = waits \cup {p}, asleep' = [asleep EXCEPT ![p] = b],
         todo' = todo, todo[p] # <<>>, b \in held'[p], \A q \in Proc \ {p} : held'[q] = held[q],
         data' = data, disk' = disk, \A c \in Buf \ {b} : sector'[c] = sector[c],
         \A q \in Proc \ waits : asleep[q] = b => sector'[b] = sector[b],
         valid \ {b} = valid' \ {b}, dirty \ {b} = dirty' \ {b},
         sector'[b] = Head(todo[p]).s, Head(todo[p]).f \in {"bread", "bwrite"},
         IF Head(todo[p]).f = "bread" THEN b \notin valid' ELSE b \in dirty'
  PROVE  WaitsInv'
<1>1. /\ WaitsInv /\ idequeue \in Seq(Buf) /\ waits \subseteq Proc /\ b # NoBuf
      /\ asleep \in [Proc -> Buf \cup {NoBuf}] /\ \A q \in Proc : held[q] \subseteq Buf
  BY CacheAssumption DEF CInv, IInv, Types, DataInv
<1>2. Range(idequeue') = Range(idequeue) \cup {b}
  BY <1>1, RangeAppend
<1>3. asleep'[p] = b /\ \A q \in Proc \ {p} : asleep'[q] = asleep[q]
  BY <1>1
<1>4. ASSUME NEW q \in waits'
      PROVE  Head(todo'[q]).f \in {"bread", "bwrite"} /\ \E c \in held'[q] : Request(q, c)'
  <2>1. CASE q = p
    <3>1. Request(p, b)'
      BY <1>2, <1>3 DEF Request
    <3> QED BY <2>1, <3>1
  <2>2. CASE q # p
    <3>1. q \in waits /\ q \in Proc \ {p}
      BY <1>1, <2>2
    <3>2. PICK c \in held[q] : Head(todo[q]).f \in {"bread", "bwrite"} /\ Request(q, c)
      BY <1>1, <3>1 DEF WaitsInv
    <3>3. c \in Buf \ {b} /\ held'[q] = held[q] /\ asleep'[q] = asleep[q]
      BY <1>1, <1>3, <3>1, <3>2
    <3>4. (c \in valid <=> c \in valid') /\ (c \in dirty <=> c \in dirty') /\ sector'[c] = sector[c]
      BY <3>3
    <3>5. Request(q, c)'
      BY <1>2, <3>2, <3>3, <3>4 DEF Request
    <3> QED BY <3>2, <3>3, <3>5
  <2> QED BY <2>1, <2>2
<1>5. ASSUME NEW c \in Range(idequeue') PROVE \E q \in waits' : asleep'[q] = c
  <2>1. CASE c = b
    BY <1>3, <2>1
  <2>2. CASE c \in Range(idequeue)
    <3>1. PICK q \in waits : asleep[q] = c
      BY <1>1, <2>2 DEF WaitsInv
    <3> QED BY <1>1, <1>3, <3>1
  <2> QED BY <1>2, <2>1, <2>2
<1>6. \A i, j \in DOMAIN idequeue' : idequeue'[i] = idequeue'[j] => i = j
  BY <1>1, AppendOnce DEF WaitsInv
<1>7. ASSUME NEW q \in Proc, asleep'[q] # NoBuf, q \notin waits'
      PROVE  todo'[q] # <<>> /\ Head(todo'[q]).f = "bread" /\ sector'[asleep'[q]] = Head(todo'[q]).s
  <2>1. q \notin waits /\ q # p /\ asleep'[q] = asleep[q] /\ asleep[q] \in Buf
    BY <1>1, <1>3, <1>7
  <2>2. sector'[asleep[q]] = sector[asleep[q]]
    BY <2>1
  <2> QED BY <1>1, <1>7, <2>1, <2>2 DEF WaitsInv
<1> QED BY <1>4, <1>5, <1>6, <1>7 DEF WaitsInv

\* bwrite() of a buffer the process has changed.
LEMMA BwriteData == ASSUME CInv, NEW p \in Proc, NEW s \in Sector, Bwrite(p, s) PROVE DataInv'
<1>1. PICK b \in Mine(p, s) : /\ dirty' = dirty \cup {b} /\ idequeue' = Append(idequeue, b)
                              /\ asleep' = [asleep EXCEPT ![p] = b]
  BY DEF Bwrite
<1>2. /\ Calls(p, "bwrite", s)
      /\ p \notin waits /\ asleep[p] = NoBuf /\ todo[p] # <<>>
      /\ Head(todo[p]).f = "bwrite" /\ Head(todo[p]).s = s
  BY CallStage, Zenon DEF Bwrite
<1>3. /\ b \in Buf /\ b \in held[p] /\ b \in busy /\ sector[b] = s /\ b \in valid
      /\ b \notin Range(idequeue)
      /\ \A q \in Proc \ {p} : b \notin held[q]
  BY <1>2, MineIs
<1>4. /\ waits' = waits \cup {p} /\ todo' = todo /\ held' = held
      /\ sector' = sector /\ busy' = busy /\ valid' = valid /\ data' = data /\ disk' = disk
      /\ lh' = lh /\ writer' = writer
  BY DEF Bwrite, log
<1>5. DataTypes' /\ LogInv'
  BY <1>4 DEF CInv, DataInv, DataTypes, LogInv
<1>6. PlanInv'
  <2>1. ASSUME NEW q \in Proc PROVE Plan(q)'
    <3>1. Plan(q)
      BY DEF CInv, DataInv, PlanInv
    <3>2. (q \in waits <=> q \in waits') \/ Head(todo[q]).f # "bread"
      BY <1>2, <1>4
    <3>3. \A c \in held[q] : c \in valid' \ dirty' => c \in valid \ dirty
      BY <1>1, <1>4
    <3> QED BY <1>4, <3>1, <3>2, <3>3, KeepPlan
  <2> QED BY <2>1 DEF PlanInv
<1>7. FlagsInv'
  <2>1. FlagsInv /\ waits \subseteq Proc /\ asleep \in [Proc -> Buf \cup {NoBuf}]
    BY DEF CInv, IInv, Types, DataInv
  <2>2. dirty' \subseteq valid'
    BY <1>1, <1>3, <1>4, <2>1 DEF FlagsInv
  <2>3. \A q \in Proc \ {p} : asleep'[q] = asleep[q]
    BY <1>1, <2>1
  <2>4. \A q \in Proc : \A c \in held'[q] :
          c \notin valid' => q \in waits' /\ asleep'[q] = c /\ Head(todo'[q]).f = "bread"
    BY <1>2, <1>4, <2>1, <2>3 DEF FlagsInv
  <2> QED BY <1>1, <1>4, <2>1, <2>2, <2>4 DEF FlagsInv
<1>8. WaitsInv'
  <2>1. dirty \ {b} = dirty' \ {b} /\ b \in dirty'
    BY <1>1
  <2> QED BY <1>1, <1>2, <1>3, <1>4, <2>1, Enqueue
<1> QED BY <1>5, <1>6, <1>7, <1>8 DEF DataInv

\* Who goes on in iderw() finds its request done.
LEMMA DoneIs ==
  ASSUME CInv, NEW p \in waits, asleep[p] = NoBuf, NEW b \in Mine(p, Head(todo[p]).s)
  PROVE  b \in valid \ dirty /\ data[b] = disk[sector[b]]
<1>1. p \in Proc
  BY DEF CInv, IInv, Types
<1>2. PICK c \in held[p] : Request(p, c)
  BY DEF CInv, DataInv, WaitsInv
<1>3. c \in Buf /\ sector[c] = Head(todo[p]).s
  BY <1>1, <1>2 DEF CInv, IInv, Types, Request
<1>4. c = b
  BY <1>1, <1>3, MineIs
<1>5. c # NoBuf
  BY <1>3, CacheAssumption
<1> QED BY <1>2, <1>4, <1>5 DEF Request

\* The while of iderw() ends.
LEMMA IderwGoesOnData == ASSUME CInv, NEW p \in Proc, IderwGoesOn(p) PROVE DataInv'
<1>0. PICK s : s = Head(todo[p]).s
  OBVIOUS
<1>1. p \in waits /\ asleep[p] = NoBuf
  BY DEF IderwGoesOn
<1>2. PICK b \in Mine(p, s) :
        IF b \in valid \ dirty THEN waits' = waits \ {p} /\ Returns(p) /\ UNCHANGED asleep
        ELSE asleep' = [asleep EXCEPT ![p] = b] /\ UNCHANGED <<waits, todo>>
  BY <1>0 DEF IderwGoesOn
<1>3. b \in valid \ dirty /\ data[b] = disk[sector[b]]
  BY <1>1, <1>0, <1>2, DoneIs
<1>4. /\ waits' = waits \ {p} /\ Returns(p) /\ asleep' = asleep
      /\ sector' = sector /\ busy' = busy /\ valid' = valid /\ dirty' = dirty /\ data' = data
      /\ idequeue' = idequeue /\ disk' = disk /\ held' = held /\ lh' = lh /\ writer' = writer
  BY <1>2, <1>3 DEF IderwGoesOn, cache, flags, ide, log
<1>5. /\ b \in Buf /\ b \in held[p] /\ b \in busy /\ sector[b] = s /\ s \in Sector
      /\ \A c \in Buf : sector[c] = s => c = b
  BY <1>2, MineIs
<1>6. /\ todo'[p] = Tail(todo[p]) /\ \A q \in Proc \ {p} : todo'[q] = todo[q]
      /\ todo[p] # <<>> /\ waits \subseteq Proc /\ \A q \in Proc : held[q] \subseteq Buf
  BY <1>1, <1>4 DEF CInv, IInv, Types, IderwInv, Returns
<1>7. Len(lh) \in Nat /\ (p = writer) \in BOOLEAN
  BY LogIs
<1>8. DataTypes' /\ LogInv'
  BY <1>4 DEF CInv, DataInv, DataTypes, LogInv
<1>9. PlanInv'
  <2>1. PICK H \in SUBSET Sector, U \in SUBSET Sector :
          /\ Stage(p = writer, todo[p], H, U, Len(lh))
          /\ Held(p) = H \cup Asked(p) /\ H \cap Asked(p) = {}
          /\ Saved(p, U)
    BY Zenon DEF Plan, CInv, DataInv, PlanInv
  <2>2. Held(p)' = Held(p) /\ p \notin waits'
    BY <1>4 DEF Held
  <2>3. Saved(p, U \ {s})'
    BY <1>3, <1>4, <1>5, <1>6, <2>1 DEF Saved
  <2>4. Saved(p, U)'
    BY <1>4, <2>1 DEF Saved
  <2>5. ASSUME Head(todo[p]).f = "bread" PROVE Plan(p)'
    <3>1. Stage(p = writer, Tail(todo[p]), H \cup {s}, U, Len(lh))
      BY <1>0, <1>6, <1>7, <2>1, <2>5, BreadMoves
    <3>2. Held(p) = H \cup {s} /\ H \cup {s} \in SUBSET Sector
      BY <1>1, <1>0, <1>5, <2>1, <2>5 DEF Asked
    <3>3. Stage(p = writer', todo'[p], H \cup {s}, U, Len(lh'))
      BY <1>4, <1>6, <3>1, Zenon
    <3>4. Held(p)' = H \cup {s}
      BY <2>2, <3>2
    <3> QED BY <2>1, <2>2, <2>4, <3>2, <3>3, <3>4, PlanAfter
  <2>6. ASSUME Head(todo[p]).f = "bwrite" PROVE Plan(p)'
    <3>1. Stage(p = writer, Tail(todo[p]), H, U \ {s}, Len(lh))
      BY <1>0, <1>6, <1>7, <2>1, <2>6, BwriteMoves
    <3>2. Held(p) = H /\ U \ {s} \in SUBSET Sector
      BY <1>1, <2>1, <2>6 DEF Asked
    <3>3. Stage(p = writer', todo'[p], H, U \ {s}, Len(lh'))
      BY <1>4, <1>6, <3>1, Zenon
    <3>4. Held(p)' = H
      BY <2>2, <3>2
    <3> QED BY <2>1, <2>2, <2>3, <3>2, <3>3, <3>4, PlanAfter
  <2>7. Plan(p)'
    <3>1. Head(todo[p]).f \in {"bread", "bwrite"}
      BY <1>1 DEF CInv, DataInv, WaitsInv
    <3> QED BY <2>5, <2>6, <3>1
  <2>8. ASSUME NEW q \in Proc \ {p} PROVE Plan(q)'
    <3>1. Plan(q)
      BY DEF CInv, DataInv, PlanInv
    <3>2. q \in waits <=> q \in waits'
      BY <1>4
    <3> QED BY <1>4, <1>6, <3>1, <3>2, KeepPlan
  <2> QED BY <2>7, <2>8 DEF PlanInv
<1>10. FlagsInv'
  <2>1. FlagsInv /\ NoBuf \notin Buf
    BY CacheAssumption DEF CInv, DataInv
  <2>2. \A q \in Proc : \A c \in held'[q] :
          c \notin valid' => q \in waits' /\ asleep'[q] = c /\ Head(todo'[q]).f = "bread"
    BY <1>1, <1>4, <1>6, <2>1 DEF FlagsInv
  <2> QED BY <1>4, <2>1, <2>2 DEF FlagsInv
<1>11. WaitsInv'
  <2>1. WaitsInv /\ \A c \in Range(idequeue) : c # NoBuf
    BY CacheAssumption DEF CInv, IInv, Types, DataInv, Range
  <2>2. ASSUME NEW q \in waits'
        PROVE  Head(todo'[q]).f \in {"bread", "bwrite"} /\ \E c \in held'[q] : Request(q, c)'
    <3>1. q \in waits /\ q \in Proc \ {p} /\ todo'[q] = todo[q]
      BY <1>4, <1>6
    <3>2. PICK c \in held[q] : Head(todo[q]).f \in {"bread", "bwrite"} /\ Request(q, c)
      BY <2>1, <3>1 DEF WaitsInv
    <3>3. Request(q, c)'
      BY <1>4, <3>1, <3>2 DEF Request
    <3> QED BY <1>4, <3>1, <3>2, <3>3
  <2>3. \A c \in Range(idequeue') : \E q \in waits' : asleep'[q] = c
    BY <1>1, <1>4, <2>1 DEF WaitsInv
  <2>4. \A q \in Proc : asleep'[q] # NoBuf /\ q \notin waits' => q \notin waits /\ q # p
    BY <1>1, <1>4
  <2> QED BY <1>4, <1>6, <2>1, <2>2, <2>3, <2>4 DEF WaitsInv
<1> QED BY <1>8, <1>9, <1>10, <1>11 DEF DataInv

\* bget() sleeps until the buffer of the sector is free.
LEMMA BgetSleepsData == ASSUME CInv, NEW p \in Proc, NEW s \in Sector, BgetSleeps(p, s) PROVE DataInv'
<1>1. PICK b \in Cached(s) \cap busy : asleep' = [asleep EXCEPT ![p] = b]
  BY DEF BgetSleeps
<1>2. /\ p \notin waits /\ asleep[p] = NoBuf /\ todo[p] # <<>>
      /\ Head(todo[p]).f = "bread" /\ Head(todo[p]).s = s
  BY CallStage, Zenon DEF BgetSleeps
<1>3. /\ waits' = waits /\ todo' = todo /\ held' = held /\ idequeue' = idequeue
      /\ sector' = sector /\ busy' = busy /\ valid' = valid /\ dirty' = dirty /\ data' = data /\ disk' = disk
      /\ lh' = lh /\ writer' = writer
  BY DEF BgetSleeps, cache, flags, ide, log
<1>4. /\ b \in Buf /\ sector[b] = s /\ waits \subseteq Proc
      /\ asleep'[p] = b /\ \A q \in Proc \ {p} : asleep'[q] = asleep[q]
  BY <1>1 DEF Cached, CInv, IInv, Types
<1>5. DataTypes' /\ LogInv'
  BY <1>3 DEF CInv, DataInv, DataTypes, LogInv
<1>6. PlanInv'
  <2>1. ASSUME NEW q \in Proc PROVE Plan(q)'
    <3>1. Plan(q)
      BY DEF CInv, DataInv, PlanInv
    <3> QED BY <1>3, <3>1, KeepPlan
  <2> QED BY <2>1 DEF PlanInv
<1>7. \A q \in waits : asleep'[q] = asleep[q]
  BY <1>2, <1>4
<1>8. FlagsInv'
  BY <1>3, <1>7 DEF CInv, DataInv, FlagsInv
<1>9. WaitsInv'
  <2>1. WaitsInv
    BY DEF CInv, DataInv
  <2>2. ASSUME NEW q \in waits
        PROVE  Head(todo'[q]).f \in {"bread", "bwrite"} /\ \E c \in held'[q] : Request(q, c)'
    <3>1. PICK c \in held[q] : Head(todo[q]).f \in {"bread", "bwrite"} /\ Request(q, c)
      BY <2>1 DEF WaitsInv
    <3>2. Request(q, c)'
      BY <1>3, <1>7, <3>1 DEF Request
    <3> QED BY <1>3, <3>1, <3>2
  <2>3. \A c \in Range(idequeue') : \E q \in waits' : asleep'[q] = c
    BY <1>3, <1>7, <2>1 DEF WaitsInv
  <2>4. ASSUME NEW q \in Proc, asleep'[q] # NoBuf, q \notin waits'
        PROVE  todo'[q] # <<>> /\ Head(todo'[q]).f = "bread" /\ sector'[asleep'[q]] = Head(todo'[q]).s
    <3>1. CASE q = p
      BY <1>2, <1>3, <1>4, <3>1
    <3>2. CASE q # p
      BY <1>3, <1>4, <2>1, <2>4, <3>2 DEF WaitsInv
    <3> QED BY <3>1, <3>2
  <2> QED BY <1>3, <2>1, <2>2, <2>3, <2>4 DEF WaitsInv
<1> QED BY <1>5, <1>6, <1>8, <1>9 DEF DataInv

-----------------------------------------------------------------------------
\* A buffer that is not B_BUSY is in nobody's hands.
LEMMA FreeIs ==
  ASSUME CInv, NEW b \in Buf \ busy
  PROVE  (\A q \in Proc : b \notin held[q]) /\ b \notin Range(idequeue)
<1>1. \A q \in Proc : b \notin held[q]
  BY DEF CInv, IInv, OwnersInv
<1>2. ASSUME b \in Range(idequeue) PROVE FALSE
  <2>1. PICK q \in waits : asleep[q] = b
    BY <1>2 DEF CInv, DataInv, WaitsInv
  <2>2. q \in Proc /\ b # NoBuf
    BY CacheAssumption DEF CInv, IInv, Types
  <2>3. b \in held[q]
    BY <2>1, <2>2 DEF CInv, DataInv, WaitsInv, Request
  <2> QED BY <1>1, <2>2, <2>3
<1> QED BY <1>1, <1>2

\* The plan of a process that takes a buffer for s and begins to wait for it.
LEMMA AskedPlan ==
  ASSUME CInv, NEW p \in Proc, NEW s \in Sector, Calls(p, "bread", s), NEW b \in Buf \ busy,
         held' = [held EXCEPT ![p] = @ \cup {b}], sector'[b] = s, b \notin valid',
         \A c \in Buf \ {b} : /\ sector'[c] = sector[c]
                              /\ c \in valid' \ dirty' => c \in valid \ dirty,
         waits' = waits \cup {p}, todo' = todo, data' = data, disk' = disk, lh' = lh, writer' = writer
  PROVE  PlanInv'
<1>1. /\ p \notin waits /\ asleep[p] = NoBuf /\ todo[p] # <<>>
      /\ Head(todo[p]).f = "bread" /\ Head(todo[p]).s = s
      /\ Held(p) \in SUBSET Sector /\ Len(lh) \in Nat /\ (p = writer) \in BOOLEAN
      /\ \E U \in SUBSET Sector : Stage(p = writer, todo[p], Held(p), U, Len(lh)) /\ Saved(p, U)
  BY CallStage, SMTT(60)
<1>2. PICK U \in SUBSET Sector : Stage(p = writer, todo[p], Held(p), U, Len(lh)) /\ Saved(p, U)
  BY <1>1
<1>3. s \notin Held(p)
  <2>1. Head(todo[p]).s \in Sector \ Held(p)
    BY <1>1, <1>2, BreadMoves, Zenon
  <2> QED BY <1>1, <2>1
<1>4. /\ held'[p] = held[p] \cup {b} /\ \A q \in Proc \ {p} : held'[q] = held[q]
      /\ \A q \in Proc : held[q] \subseteq Buf \ {b}
  BY FreeIs DEF CInv, IInv, Types
<1>5. Plan(p)'
  <2>0. PICK H \in SUBSET Sector : H = Held(p)
    BY <1>1
  <2>1. Held(p)' = H \cup {s}
    BY <1>4, <2>0 DEF Held
  <2>2. Asked(p)' = {s}
    BY <1>1 DEF Asked
  <2>3. Saved(p, U)'
    BY <1>2, <1>4 DEF Saved
  <2>4. Stage(p = writer', todo'[p], H, U, Len(lh'))
    BY <1>2, <2>0, Zenon
  <2>5. (Held(p) = H \cup Asked(p) /\ H \cap Asked(p) = {})'
    BY <1>3, <2>0, <2>1, <2>2
  <2> QED BY <2>3, <2>4, <2>5, Zenon DEF Plan
<1>6. ASSUME NEW q \in Proc \ {p} PROVE Plan(q)'
  <2>1. Plan(q)
    BY DEF CInv, DataInv, PlanInv
  <2>2. q \in waits <=> q \in waits'
    OBVIOUS
  <2>3. \A c \in held[q] : sector'[c] = sector[c] /\ (c \in valid' \ dirty' => c \in valid \ dirty)
    BY <1>4
  <2> QED BY <1>4, <2>1, <2>2, <2>3, KeepPlan
<1> QED BY <1>5, <1>6 DEF PlanInv

\* The flags, when a process takes a buffer and waits for its data.
LEMMA AskedFlags ==
  ASSUME CInv, NEW p \in Proc, NEW s \in Sector, Calls(p, "bread", s), NEW b \in Buf \ busy,
         held' = [held EXCEPT ![p] = @ \cup {b}], busy' = busy \cup {b}, asleep' = [asleep EXCEPT ![p] = b],
         valid' = valid \ {b}, dirty' = dirty \ {b}, \A c \in Buf \ {b} : sector'[c] = sector[c],
         waits' = waits \cup {p}, todo' = todo, data' = data, disk' = disk
  PROVE  FlagsInv'
<1>1. /\ p \notin waits /\ Head(todo[p]).f = "bread"
      /\ asleep'[p] = b /\ \A q \in Proc \ {p} : asleep'[q] = asleep[q]
  BY DEF Calls, CInv, IInv, Types
<1>2. /\ held'[p] = held[p] \cup {b} /\ \A q \in Proc \ {p} : held'[q] = held[q]
      /\ \A q \in Proc : held[q] \subseteq Buf \ {b}
  BY FreeIs DEF CInv, IInv, Types
<1>3. FlagsInv /\ valid \subseteq Buf
  BY DEF CInv, IInv, Types, DataInv
<1>4. dirty' \subseteq valid' /\ \A c \in valid' : sector'[c] # NoSector
  BY <1>3 DEF FlagsInv
<1>5. \A c \in busy' : \E q \in Proc : c \in held'[q]
  BY <1>2, <1>3 DEF FlagsInv
<1>6. \A c \in valid' \ (dirty' \cup busy') : data'[c] = disk'[sector'[c]]
  BY <1>3 DEF FlagsInv
<1>7. ASSUME NEW q \in Proc, NEW c \in held'[q], c \notin valid'
      PROVE  q \in waits' /\ asleep'[q] = c /\ Head(todo'[q]).f = "bread"
  <2>1. CASE c = b
    BY <1>1, <1>2, <1>7, <2>1
  <2>2. CASE c # b
    <3>1. c \in held[q] /\ c \notin valid
      BY <1>2, <1>7, <2>2
    <3>2. q \in waits /\ asleep[q] = c /\ Head(todo[q]).f = "bread"
      BY <1>3, <3>1 DEF FlagsInv
    <3> QED BY <1>1, <3>2
  <2> QED BY <2>1, <2>2
<1> QED BY <1>4, <1>5, <1>6, <1>7 DEF FlagsInv

\* bget() finds the sector in the cache.
LEMMA BgetFoundData == ASSUME CInv, NEW p \in Proc, NEW s \in Sector, BgetFound(p, s) PROVE DataInv'
<1>1. PICK b \in Cached(s) \ busy : busy' = busy \cup {b} /\ Got(p, b, b \in valid)
  BY DEF BgetFound
<1>2. /\ Calls(p, "bread", s)
      /\ p \notin waits /\ asleep[p] = NoBuf /\ todo[p] # <<>>
      /\ Head(todo[p]).f = "bread" /\ Head(todo[p]).s = s
      /\ Held(p) \in SUBSET Sector /\ Len(lh) \in Nat /\ (p = writer) \in BOOLEAN
      /\ \E U \in SUBSET Sector : Stage(p = writer, todo[p], Held(p), U, Len(lh)) /\ Saved(p, U)
  BY CallStage, Zenon DEF BgetFound
<1>3. /\ b \in Buf \ busy /\ sector[b] = s /\ b \notin Range(idequeue)
      /\ \A q \in Proc : b \notin held[q] /\ held[q] \subseteq Buf \ {b}
  BY <1>1, FreeIs DEF Cached, CInv, IInv, Types
<1>4. /\ held' = [held EXCEPT ![p] = @ \cup {b}]
      /\ sector' = sector /\ valid' = valid /\ dirty' = dirty /\ data' = data /\ disk' = disk
      /\ lh' = lh /\ writer' = writer
  BY <1>1 DEF BgetFound, Got, log
<1>5. held'[p] = held[p] \cup {b} /\ \A q \in Proc \ {p} : held'[q] = held[q]
  BY <1>4 DEF CInv, IInv, Types
<1>6. DataTypes' /\ LogInv'
  BY <1>4 DEF CInv, DataInv, DataTypes, LogInv
<1>7. ASSUME b \in valid PROVE DataInv'
  <2>1. /\ waits' = waits /\ asleep' = asleep /\ idequeue' = idequeue
        /\ todo'[p] = Tail(todo[p]) /\ \A q \in Proc \ {p} : todo'[q] = todo[q]
    BY <1>1, <1>7 DEF Got, Returns, CInv, IInv, Types
  <2>2. PICK U \in SUBSET Sector : Stage(p = writer, todo[p], Held(p), U, Len(lh)) /\ Saved(p, U)
    BY <1>2
  <2>3. b \notin dirty => data[b] = disk[sector[b]]
    BY <1>3, <1>7 DEF CInv, DataInv, FlagsInv
  <2>4. PlanInv'
    <3>0. PICK H \in SUBSET Sector : H = Held(p)
      BY <1>2
    <3>1. Plan(p)'
      <4>1. Held(p)' = H \cup {s}
        BY <1>3, <1>4, <1>5, <3>0 DEF Held
      <4>2. Saved(p, U)'
        BY <1>4, <1>5, <2>2, <2>3 DEF Saved
      <4>3. Stage(p = writer, Tail(todo[p]), H \cup {s}, U, Len(lh))
        BY <1>2, <2>2, <3>0, BreadMoves
      <4>4. Stage(p = writer', todo'[p], H \cup {s}, U, Len(lh'))
        BY <1>4, <2>1, <4>3, Zenon
      <4>5. p \notin waits' /\ H \cup {s} \in SUBSET Sector
        BY <1>2, <2>1
      <4> QED BY <4>1, <4>2, <4>4, <4>5, PlanAfter
    <3>2. ASSUME NEW q \in Proc \ {p} PROVE Plan(q)'
      <4>1. Plan(q)
        BY DEF CInv, DataInv, PlanInv
      <4> QED BY <1>4, <1>5, <2>1, <4>1, KeepPlan
    <3> QED BY <3>1, <3>2 DEF PlanInv
  <2>5. FlagsInv'
    <3>1. FlagsInv /\ waits \subseteq Proc
      BY DEF CInv, IInv, Types, DataInv
    <3>2. \A c \in busy' : \E q \in Proc : c \in held'[q]
      BY <1>1, <1>5, <3>1 DEF FlagsInv
    <3>3. ASSUME NEW q \in Proc, NEW c \in held'[q], c \notin valid'
          PROVE  q \in waits' /\ asleep'[q] = c /\ Head(todo'[q]).f = "bread"
      <4>1. c \in held[q] /\ c \notin valid
        BY <1>4, <1>5, <1>7, <3>3
      <4>2. q \in waits /\ asleep[q] = c /\ Head(todo[q]).f = "bread"
        BY <3>1, <4>1 DEF FlagsInv
      <4> QED BY <1>2, <2>1, <4>2
    <3>4. \A c \in valid' \ (dirty' \cup busy') : data'[c] = disk'[sector'[c]]
      BY <1>1, <1>4, <3>1 DEF FlagsInv
    <3> QED BY <1>4, <3>1, <3>2, <3>3, <3>4 DEF FlagsInv
  <2>6. WaitsInv'
    <3>1. WaitsInv
      BY DEF CInv, DataInv
    <3>2. \A q \in waits : /\ Head(todo'[q]).f \in {"bread", "bwrite"}
                           /\ \E c \in held'[q] : Request(q, c)'
      BY <1>2, <1>3, <1>4, <1>5, <2>1, OthersWait
    <3> QED BY <1>2, <1>4, <2>1, <3>1, <3>2 DEF WaitsInv
  <2> QED BY <1>6, <2>4, <2>5, <2>6 DEF DataInv
<1>8. ASSUME b \notin valid PROVE DataInv'
  <2>1. /\ idequeue' = Append(idequeue, b) /\ waits' = waits \cup {p}
        /\ asleep' = [asleep EXCEPT ![p] = b] /\ todo' = todo
    BY <1>1, <1>8 DEF Got
  <2>2. b \notin dirty /\ valid' = valid \ {b} /\ dirty' = dirty \ {b}
    BY <1>4, <1>8 DEF CInv, DataInv, FlagsInv
  <2>3. PlanInv'
    BY <1>2, <1>3, <1>4, <1>8, <2>1, AskedPlan
  <2>4. FlagsInv'
    BY <1>1, <1>2, <1>3, <1>4, <2>1, <2>2, AskedFlags
  <2>5. WaitsInv'
    BY <1>2, <1>3, <1>4, <1>5, <1>8, <2>1, Enqueue
  <2> QED BY <1>6, <2>3, <2>4, <2>5 DEF DataInv
<1> QED BY <1>7, <1>8

\* bget() recycles a buffer that is as on the disk.
LEMMA BgetRecyclesData == ASSUME CInv, NEW p \in Proc, NEW s \in Sector, BgetRecycles(p, s) PROVE DataInv'
<1>1. PICK b \in Recyclable :
        /\ sector' = [sector EXCEPT ![b] = s]
        /\ busy' = busy \cup {b} /\ valid' = valid \ {b} /\ dirty' = dirty \ {b}
        /\ Got(p, b, FALSE)
  BY DEF BgetRecycles
<1>2. /\ Calls(p, "bread", s)
      /\ p \notin waits /\ asleep[p] = NoBuf /\ todo[p] # <<>>
      /\ Head(todo[p]).f = "bread" /\ Head(todo[p]).s = s
  BY CallStage, Zenon DEF BgetRecycles
<1>3. /\ b \in Buf \ busy /\ b \notin Range(idequeue)
      /\ \A q \in Proc : b \notin held[q]
  BY <1>1, FreeIs DEF Recyclable
<1>4. /\ held' = [held EXCEPT ![p] = @ \cup {b}]
      /\ idequeue' = Append(idequeue, b) /\ waits' = waits \cup {p}
      /\ asleep' = [asleep EXCEPT ![p] = b] /\ todo' = todo
      /\ data' = data /\ disk' = disk /\ lh' = lh /\ writer' = writer
  BY <1>1 DEF BgetRecycles, Got, log
<1>5. /\ sector'[b] = s /\ \A c \in Buf \ {b} : sector'[c] = sector[c]
      /\ held'[p] = held[p] \cup {b} /\ \A q \in Proc \ {p} : held'[q] = held[q]
  BY <1>1, <1>3, <1>4 DEF CInv, IInv, Types
<1>6. DataTypes' /\ LogInv'
  BY <1>4 DEF CInv, DataInv, DataTypes, LogInv
<1>7. PlanInv'
  <2>1. b \notin valid' /\ \A c \in Buf \ {b} : c \in valid' \ dirty' => c \in valid \ dirty
    BY <1>1
  <2> QED BY <1>2, <1>3, <1>4, <1>5, <2>1, AskedPlan
<1>8. FlagsInv'
  BY <1>1, <1>2, <1>3, <1>4, <1>5, AskedFlags
<1>9. WaitsInv'
  <2>1. valid \ {b} = valid' \ {b} /\ dirty \ {b} = dirty' \ {b} /\ b \notin valid'
    BY <1>1
  <2>2. \A q \in Proc \ waits : asleep[q] # b
    BY <1>3, CacheAssumption DEF CInv, IInv, NoLostWakeup
  <2> QED BY <1>2, <1>3, <1>4, <1>5, <2>1, <2>2, Enqueue
<1> QED BY <1>6, <1>7, <1>8, <1>9 DEF DataInv


\* The first request of the disk is of a process that sleeps for it.
LEMMA HeadIs ==
  ASSUME CInv, Ideintr, NEW b, b = Head(idequeue)
  PROVE  /\ b \in Buf /\ b \in Range(idequeue) /\ sector[b] \in Sector /\ b \in busy
         /\ \A c \in Buf : sector[c] = sector[b] => c = b
         /\ \E p \in waits : /\ asleep[p] = b /\ Request(p, b) /\ Head(todo[p]).f \in {"bread", "bwrite"}
                             /\ b \in held[p] /\ \A q \in Proc \ {p} : b \notin held[q]
<1>1. idequeue # <<>> /\ idequeue \in Seq(Buf) /\ b \in Buf /\ b \in Range(idequeue)
  BY DEF Ideintr, CInv, IInv, Types, Range
<1>2. PICK p \in waits : asleep[p] = b
  BY <1>1 DEF CInv, DataInv, WaitsInv
<1>3. p \in Proc /\ b # NoBuf
  BY <1>1, <1>2, CacheAssumption DEF CInv, IInv, Types
<1>4. Request(p, b) /\ Head(todo[p]).f \in {"bread", "bwrite"}
  <2>1. PICK c \in held[p] : Request(p, c) /\ Head(todo[p]).f \in {"bread", "bwrite"}
    BY <1>2 DEF CInv, DataInv, WaitsInv
  <2>2. c = b
    BY <1>2, <1>3, <2>1 DEF Request
  <2> QED BY <2>1, <2>2
<1>5. b \in held[p]
  BY <1>4 DEF Request
<1>6. /\ sector[b] \in Sector /\ b \in busy /\ \A q \in Proc \ {p} : b \notin held[q]
      /\ \A c \in Buf : sector[c] = sector[b] => c = b
  BY <1>1, <1>3, <1>5 DEF CInv, IInv, Types, OwnersInv
<1> QED BY <1>1, <1>2, <1>4, <1>5, <1>6

\* The disk writes the first buffer of the queue, or reads it.
LEMMA IdeintrData == ASSUME CInv, Ideintr PROVE DataInv'
<1>0. PICK b : b = Head(idequeue)
  OBVIOUS
<1>1. /\ idequeue # <<>> /\ idequeue \in Seq(Buf) /\ b \in Buf /\ idequeue' = Tail(idequeue)
      /\ b \in Range(idequeue)
  BY <1>0, HeadIs DEF Ideintr, CInv, IInv, Types
<1>2. /\ valid' = valid \cup {b} /\ dirty' = dirty \ {b} /\ WakeUp(b)
      /\ sector' = sector /\ busy' = busy /\ waits' = waits /\ held' = held /\ todo' = todo
      /\ lh' = lh /\ writer' = writer
  BY <1>0 DEF Ideintr, log
<1>3. PICK p \in waits : /\ asleep[p] = b /\ Request(p, b) /\ Head(todo[p]).f \in {"bread", "bwrite"}
                         /\ b \in held[p] /\ \A q \in Proc \ {p} : b \notin held[q]
  BY <1>0, HeadIs
<1>4. p \in Proc /\ NoBuf \notin Buf /\ asleep \in [Proc -> Buf \cup {NoBuf}] /\ waits \subseteq Proc
  BY CacheAssumption DEF CInv, IInv, Types
<1>5. Request(p, b) /\ Head(todo[p]).f \in {"bread", "bwrite"}
  BY <1>3
<1>6. /\ b \in held[p] /\ sector[b] \in Sector /\ \A q \in Proc \ {p} : b \notin held[q]
      /\ \A c \in Buf : sector[c] = sector[b] => c = b
      /\ \A q \in Proc : held[q] \subseteq Buf
      /\ b \in busy
  BY <1>0, <1>3, HeadIs DEF CInv, IInv, Types
<1>7. /\ b \in dirty => disk' = [disk EXCEPT ![sector[b]] = data[b]] /\ data' = data
      /\ b \notin dirty => data' = [data EXCEPT ![b] = disk[sector[b]]] /\ disk' = disk
  BY <1>0 DEF Ideintr
<1>8. /\ data'[b] = disk'[sector[b]]
      /\ \A c \in Buf \ {b} : data'[c] = data[c]
      /\ \A s \in Sector \ {sector[b]} : disk'[s] = disk[s]
  BY <1>1, <1>6, <1>7 DEF CInv, DataInv, DataTypes
<1>9. \A c \in Buf \ {b} : sector[c] # NoSector => disk'[sector[c]] = disk[sector[c]]
  BY <1>6, <1>8 DEF CInv, IInv, Types
<1>10. \A q \in Proc : \A c \in held[q] : sector[c] # NoSector
  BY DEF CInv, IInv, OwnersInv
<1>11. DataTypes' /\ LogInv'
  <2>1. data \in [Buf -> Value] /\ disk \in [Sector -> Value]
    BY DEF CInv, DataInv, DataTypes
  <2>2. data' \in [Buf -> Value] /\ disk' \in [Sector -> Value]
    BY <1>1, <1>6, <1>7, <2>1
  <2> QED BY <1>2, <2>2 DEF CInv, DataInv, DataTypes, LogInv
<1>12. PlanInv'
  <2>1. ASSUME NEW q \in Proc PROVE Plan(q)'
    <3>1. Plan(q)
      BY DEF CInv, DataInv, PlanInv
    <3>2. ASSUME NEW c \in held[q], c \in valid' \ dirty'
          PROVE  \/ data'[c] = disk'[sector[c]]
                 \/ c \in valid \ dirty /\ data'[c] = data[c] /\ disk'[sector[c]] = disk[sector[c]]
      <4>1. CASE c = b
        BY <1>8, <4>1
      <4>2. CASE c # b
        BY <1>2, <1>6, <1>8, <1>9, <1>10, <3>2, <4>2
      <4> QED BY <4>1, <4>2
    <3> QED BY <1>2, <3>1, <3>2, KeepPlan
  <2> QED BY <2>1 DEF PlanInv
<1>13. \A q \in Proc : asleep'[q] = IF asleep[q] = b THEN NoBuf ELSE asleep[q]
  BY <1>2 DEF WakeUp
<1>14. FlagsInv'
  <2>1. FlagsInv /\ valid \subseteq Buf
    BY DEF CInv, IInv, Types, DataInv
  <2>2. dirty' \subseteq valid' /\ \A c \in valid' : sector'[c] # NoSector
    BY <1>2, <1>6, <1>10, <1>4, <2>1 DEF FlagsInv
  <2>3. \A c \in valid' \ (dirty' \cup busy') : data'[c] = disk'[sector'[c]]
    BY <1>2, <1>6, <1>8, <1>9, <2>1 DEF FlagsInv
  <2>4. ASSUME NEW q \in Proc, NEW c \in held'[q], c \notin valid'
        PROVE  q \in waits' /\ asleep'[q] = c /\ Head(todo'[q]).f = "bread"
    <3>1. c # b /\ q \in waits /\ asleep[q] = c /\ Head(todo[q]).f = "bread"
      BY <1>2, <2>1, <2>4 DEF FlagsInv
    <3> QED BY <1>2, <1>13, <3>1
  <2> QED BY <1>2, <2>1, <2>2, <2>3, <2>4 DEF FlagsInv
<1>15. WaitsInv'
  <2>1. WaitsInv
    BY DEF CInv, DataInv
  <2>2. /\ Range(idequeue') \subseteq Range(idequeue) \ {b}
        /\ \A c \in Range(idequeue) : c = b \/ c \in Range(idequeue')
        /\ \A i, j \in DOMAIN idequeue' : idequeue'[i] = idequeue'[j] => i = j
    <3>1. \A c \in Range(idequeue) : c = b \/ c \in Range(idequeue')
      BY <1>0, <1>1, RangeTail
    <3>2. /\ Len(idequeue) \in Nat \ {0} /\ b = idequeue[1]
          /\ DOMAIN idequeue = 1..Len(idequeue) /\ DOMAIN idequeue' = 1..(Len(idequeue) - 1)
          /\ \A i \in 1..(Len(idequeue) - 1) : idequeue'[i] = idequeue[i + 1]
      BY <1>0, <1>1
    <3>3. \A i \in 1..(Len(idequeue) - 1) : i + 1 \in 1..Len(idequeue) /\ i + 1 # 1 /\ 1 \in 1..Len(idequeue)
      BY <3>2
    <3>4. \A i \in 1..(Len(idequeue) - 1) : idequeue'[i] \in Range(idequeue) \ {b}
      BY <2>1, <3>2, <3>3 DEF WaitsInv, Range
    <3>5. Range(idequeue') \subseteq Range(idequeue) \ {b}
      BY <3>2, <3>4 DEF Range
    <3>6. \A i, j \in 1..(Len(idequeue) - 1) : idequeue'[i] = idequeue'[j] => i + 1 = j + 1
      BY <2>1, <3>2, <3>3, SMTT(60) DEF WaitsInv
    <3>7. \A i, j \in 1..(Len(idequeue) - 1) : i + 1 = j + 1 => i = j
      BY <3>2
    <3> QED BY <3>1, <3>2, <3>5, <3>6, <3>7
  <2>3. ASSUME NEW q \in waits'
        PROVE  Head(todo'[q]).f \in {"bread", "bwrite"} /\ \E c \in held'[q] : Request(q, c)'
    <3>1. CASE q = p
      <4>1. Request(p, b)'
        BY <1>2, <1>3, <1>4, <1>5, <1>8, <1>13 DEF Request
      <4> QED BY <1>2, <1>5, <1>6, <3>1, <4>1
    <3>2. CASE q # p
      <4>1. PICK c \in held[q] : Head(todo[q]).f \in {"bread", "bwrite"} /\ Request(q, c)
        BY <1>2, <2>1, <2>3 DEF WaitsInv
      <4>2. q \in Proc /\ c \in Buf \ {b} /\ sector[c] # NoSector
        BY <1>2, <1>4, <1>6, <1>10, <2>3, <3>2, <4>1
      <4>3. asleep'[q] = asleep[q]
        BY <1>4, <1>13, <4>1, <4>2, <1>1 DEF Request
      <4>4. (c \in valid <=> c \in valid') /\ (c \in dirty <=> c \in dirty')
            /\ data'[c] = data[c] /\ disk'[sector[c]] = disk[sector[c]]
            /\ (c \in Range(idequeue) => c \in Range(idequeue'))
        BY <1>2, <1>8, <1>9, <2>2, <4>2
      <4>5. Request(q, c)'
        BY <1>2, <4>1, <4>3, <4>4 DEF Request
      <4> QED BY <1>2, <4>1, <4>5
    <3> QED BY <3>1, <3>2
  <2>4. ASSUME NEW c \in Range(idequeue') PROVE \E q \in waits' : asleep'[q] = c
    <3>1. c \in Range(idequeue) /\ c # b
      BY <2>2
    <3>2. PICK q \in waits : asleep[q] = c
      BY <2>1, <3>1 DEF WaitsInv
    <3> QED BY <1>2, <1>4, <1>13, <3>1, <3>2
  <2>5. \A q \in Proc : asleep'[q] # NoBuf => asleep'[q] = asleep[q]
    BY <1>13
  <2> QED BY <1>2, <2>1, <2>2, <2>3, <2>4, <2>5 DEF WaitsInv
<1> QED BY <1>11, <1>12, <1>14, <1>15 DEF DataInv

-----------------------------------------------------------------------------
\* An empty cache.
LEMMA InitData == ASSUME Init PROVE DataInv
<1>1. DataTypes
  BY ContentIs DEF Init, DataTypes
<1>2. PlanInv
  <2>1. ASSUME NEW p \in Proc PROVE Plan(p)
    <3>1. Stage(p = writer, todo[p], {}, {}, Len(lh))
      BY DEF Init, Stage, WriterStage, ReaderStage
    <3>2. Held(p) = {} /\ Asked(p) = {} /\ Saved(p, {}) /\ {} \in SUBSET Sector
      BY DEF Init, Held, Asked, Saved
    <3>3. Held(p) = {} \cup Asked(p) /\ {} \cap Asked(p) = {}
      BY <3>2
    <3> QED BY <3>1, <3>2, <3>3, Zenon DEF Plan
  <2> QED BY <2>1 DEF PlanInv
<1>3. LogInv
  BY CacheAssumption DEF Init, LogInv
<1>4. FlagsInv
  BY DEF Init, FlagsInv
<1>5. WaitsInv
  BY DEF Init, WaitsInv, Range
<1> QED BY <1>1, <1>2, <1>3, <1>4, <1>5 DEF DataInv

\* Every call of a process preserves what the buffers hold.
LEMMA ContinueData == ASSUME CInv, NEW p \in Proc, Continue(p) PROVE DataInv'
BY IderwGoesOnData, InstallTransData, BgetFoundData, BgetSleepsData, BgetRecyclesData, BrelseData,
   BwriteData, LogWriteData, ModifyData, MemmoveData, PinData, ClearData, FreeData DEF Continue

\* The whole invariant is inductive.
LEMMA NextData == CInv /\ [Next]_vars => CInv'
<1> SUFFICES ASSUME CInv, [Next]_vars PROVE CInv'
  OBVIOUS
<1>1. IInv'
  BY NextInv DEF CInv
<1>2. ASSUME Ideintr PROVE DataInv'
  BY <1>2, IdeintrData
<1>3. ASSUME NEW p \in Proc,
             StartRead(p) \/ BeginTrans(p) \/ StartUpdate(p) \/ CommitTrans(p) \/ Continue(p)
      PROVE  DataInv'
  BY <1>3, StartReadData, BeginTransData, StartUpdateData, CommitTransData, ContinueData
<1>4. ASSUME UNCHANGED vars PROVE DataInv'
  <2>1. /\ sector' = sector /\ busy' = busy /\ valid' = valid /\ dirty' = dirty /\ data' = data
        /\ idequeue' = idequeue /\ disk' = disk /\ asleep' = asleep /\ waits' = waits /\ held' = held
        /\ todo' = todo /\ lh' = lh /\ writer' = writer
    BY <1>4 DEF vars, cache, flags, ide, log
  <2>2. (DataTypes /\ LogInv /\ FlagsInv)'
    BY <2>1 DEF CInv, DataInv, DataTypes, LogInv, FlagsInv
  <2>3. PlanInv'
    BY <2>1, KeepPlan DEF CInv, DataInv, PlanInv
  <2>4. \A p, b : Request(p, b)' <=> Request(p, b)
    BY <2>1 DEF Request
  <2>5. WaitsInv'
    BY <2>1, <2>4 DEF CInv, DataInv, WaitsInv
  <2> QED BY <2>2, <2>3, <2>5 DEF DataInv
<1>5. DataInv'
  BY <1>2, <1>3, <1>4 DEF Next
<1> QED BY <1>1, <1>5 DEF CInv

\* Every reachable state satisfies it.
THEOREM CacheInvariance == Spec => []CInv
<1>1. Init => CInv
  BY InitInv, InitData DEF CInv
<1> QED BY <1>1, NextData, PTL DEF Spec

-----------------------------------------------------------------------------
(* A store of sectors.                                                      *)

\* What a process will find in a sector: the data of its buffer, or the disk's.
LEMMA MemIs ==
  CInv => /\ Mem \in [Sector -> Value]
          /\ \A b \in valid : sector[b] \in Sector => Mem[sector[b]] = data[b]
          /\ \A s \in Sector : (\A b \in valid : sector[b] # s) => Mem[s] = disk[s]
<1> SUFFICES ASSUME CInv
             PROVE  /\ Mem \in [Sector -> Value]
                    /\ \A b \in valid : sector[b] \in Sector => Mem[sector[b]] = data[b]
                    /\ \A s \in Sector : (\A b \in valid : sector[b] # s) => Mem[s] = disk[s]
  OBVIOUS
<1>1. /\ valid \subseteq Buf /\ data \in [Buf -> Value] /\ disk \in [Sector -> Value]
      /\ \A b, c \in Buf : sector[b] = sector[c] /\ sector[b] # NoSector => b = c
      /\ NoSector \notin Sector
  BY CacheAssumption DEF CInv, IInv, Types, OwnersInv, DataInv, DataTypes, Sector
<1>2. ASSUME NEW b \in valid, sector[b] \in Sector PROVE Mem[sector[b]] = data[b]
  <2>1. Cached(sector[b]) \cap valid = {b}
    BY <1>1, <1>2 DEF Cached
  <2>2. (CHOOSE c \in {b} : TRUE) = b
    OBVIOUS
  <2>3. Mem[sector[b]] = IF Cached(sector[b]) \cap valid = {} THEN disk[sector[b]]
                         ELSE data[CHOOSE c \in Cached(sector[b]) \cap valid : TRUE]
    BY <1>2, Zenon DEF Mem
  <2> QED BY <2>1, <2>2, <2>3
<1>3. ASSUME NEW s \in Sector, \A b \in valid : sector[b] # s PROVE Mem[s] = disk[s]
  <2>1. Cached(s) \cap valid = {}
    BY <1>3 DEF Cached
  <2> QED BY <2>1 DEF Mem
<1>4. \A s \in Sector : Mem[s] \in Value
  BY <1>1, <1>2, <1>3
<1>5. Mem \in [Sector -> Value]
  <2>1. Mem = [s \in Sector |-> Mem[s]]
    BY DEF Mem
  <2> QED BY <1>4, <2>1
<1> QED BY <1>2, <1>3, <1>5

\* p has a buffer with sector s.
HasSector(p, s) == \E b \in held[p] : sector[b] = s

\* Who has a sector.
LEMMA OwnerIs ==
  CInv => /\ Owner \in [Sector -> Proc \cup {NoProc}]
          /\ \A p \in Proc : \A b \in held[p] : Owner[sector[b]] = p
          /\ \A s \in Sector : (\A p \in Proc : \A b \in held[p] : sector[b] # s) => Owner[s] = NoProc
<1> SUFFICES ASSUME CInv
             PROVE  /\ Owner \in [Sector -> Proc \cup {NoProc}]
                    /\ \A p \in Proc : \A b \in held[p] : Owner[sector[b]] = p
                    /\ \A s \in Sector : (\A p \in Proc : \A b \in held[p] : sector[b] # s) => Owner[s] = NoProc
  OBVIOUS
<1>1. \A p \in Proc : \A b \in held[p] :
        /\ sector[b] \in Sector
        /\ \A q \in Proc : \A c \in held[q] : sector[c] = sector[b] => q = p
  BY DEF CInv, IInv, Types, OwnersInv
<1>2. ASSUME NEW s \in Sector, NEW p \in Proc, NEW b \in held[p], sector[b] = s PROVE Owner[s] = p
  <2>1. Owner[s] = IF \E q \in Proc : HasSector(q, s) THEN CHOOSE q \in Proc : HasSector(q, s)
                   ELSE NoProc
    BY Zenon DEF Owner, HasSector
  <2>2. HasSector(p, s) /\ \A q \in Proc : HasSector(q, s) => q = p
    BY <1>1, <1>2 DEF HasSector
  <2>3. (CHOOSE q \in Proc : HasSector(q, s)) = p
    <3>1. \E q \in Proc : HasSector(q, s)
      BY <2>2
    <3>2. /\ (CHOOSE q \in Proc : HasSector(q, s)) \in Proc
          /\ HasSector(CHOOSE q \in Proc : HasSector(q, s), s)
      BY <3>1, Zenon
    <3> QED BY <2>2, <3>2, Zenon
  <2> QED BY <2>1, <2>2, <2>3, Zenon
<1>3. ASSUME NEW s \in Sector, \A p \in Proc : \A b \in held[p] : sector[b] # s PROVE Owner[s] = NoProc
  BY <1>3, Zenon DEF Owner
<1>4. \A s \in Sector : Owner[s] \in Proc \cup {NoProc}
  BY <1>2, <1>3
<1>5. Owner \in [Sector -> Proc \cup {NoProc}]
  <2>1. Owner = [s \in Sector |-> Owner[s]]
    BY DEF Owner
  <2> QED BY <1>4, <2>1
<1> QED BY <1>1, <1>2, <1>3, <1>5

\* The same after a step.
LEMMA MemAfter ==
  (CInv => /\ Mem \in [Sector -> Value]
           /\ \A b \in valid : sector[b] \in Sector => Mem[sector[b]] = data[b]
           /\ \A s \in Sector : (\A b \in valid : sector[b] # s) => Mem[s] = disk[s])'
BY MemIs, PTL

\* And of who has a sector.
LEMMA OwnerAfter ==
  (CInv => /\ Owner \in [Sector -> Proc \cup {NoProc}]
           /\ \A p \in Proc : \A b \in held[p] : Owner[sector[b]] = p
           /\ \A s \in Sector : (\A p \in Proc : \A b \in held[p] : sector[b] # s) => Owner[s] = NoProc)'
BY OwnerIs, PTL

\* Steps that change neither the buffers nor the disk are invisible.
LEMMA MemSame == ASSUME UNCHANGED <<sector, valid, data, disk>> PROVE Mem' = Mem
BY DEF Mem, Cached

\* So are those that leave every buffer with the process that has it.
LEMMA OwnerSame == ASSUME UNCHANGED <<sector, held>> PROVE Owner' = Owner
BY DEF Owner

\* A process takes a buffer nobody has: it takes the sector.
LEMMA OwnerTakes ==
  ASSUME CInv, CInv', NEW p \in Proc, NEW b \in Buf \ busy, NEW s \in Sector, sector'[b] = s,
         held' = [held EXCEPT ![p] = @ \cup {b}], \A c \in Buf \ {b} : sector'[c] = sector[c],
         \A q \in Proc : \A c \in held[q] : sector[c] # s
  PROVE  Owner[s] = NoProc /\ Owner' = [Owner EXCEPT ![s] = p]
<1>1. Owner[s] = NoProc
  BY OwnerIs
<1>2. /\ held'[p] = held[p] \cup {b} /\ \A q \in Proc \ {p} : held'[q] = held[q]
      /\ \A q \in Proc : held[q] \subseteq Buf \ {b}
  BY FreeIs DEF CInv, IInv, Types
<1>3. Owner'[s] = p
  BY <1>2, OwnerAfter
<1>4. ASSUME NEW r \in Sector \ {s} PROVE Owner'[r] = Owner[r]
  <2>1. CASE \E q \in Proc : \E c \in held[q] : sector[c] = r
    <3>0. PICK q \in Proc : \E c \in held[q] : sector[c] = r
      BY <2>1
    <3>1. PICK c \in held[q] : sector[c] = r
      BY <3>0
    <3>2. c \in held'[q] /\ sector'[c] = r
      BY <1>2, <3>1
    <3>3. Owner[r] = q
      BY <3>1, OwnerIs
    <3>4. Owner'[r] = q
      BY <3>2, OwnerAfter
    <3> QED BY <3>3, <3>4
  <2>2. CASE \A q \in Proc : \A c \in held[q] : sector[c] # r
    <3>1. \A q \in Proc : \A c \in held'[q] : sector'[c] # r
      BY <1>2, <1>4, <2>2
    <3>2. Owner[r] = NoProc
      BY <2>2, OwnerIs
    <3>3. Owner'[r] = NoProc
      BY <3>1, OwnerAfter
    <3> QED BY <3>2, <3>3
  <2> QED BY <2>1, <2>2
<1>5. Owner \in [Sector -> Proc \cup {NoProc}] /\ Owner' \in [Sector -> Proc \cup {NoProc}]
  BY OwnerIs, OwnerAfter
<1> QED BY <1>1, <1>3, <1>4, <1>5

\* The steps of the abstract store.
LEMMA TakeIs ==
  ASSUME NEW p \in Proc, NEW s \in Sector,
         Owner[s] = NoProc, Owner' = [Owner EXCEPT ![s] = p], Mem' = Mem
  PROVE  Promise!Next
BY DEF Promise!Next, Promise!Take

\* The sector of the buffer that bget() found was nobody's.
LEMMA BgetFoundIs ==
  ASSUME CInv, CInv', NEW p \in Proc, NEW s \in Sector, BgetFound(p, s) PROVE Promise!Next
<1>1. PICK b \in Cached(s) \ busy : busy' = busy \cup {b} /\ Got(p, b, b \in valid)
  BY DEF BgetFound
<1>2. /\ b \in Buf \ busy /\ sector' = sector /\ sector[b] = s
      /\ held' = [held EXCEPT ![p] = @ \cup {b}]
      /\ valid' = valid /\ data' = data /\ disk' = disk
  BY <1>1 DEF Cached, BgetFound, Got
<1>3. \A q \in Proc : \A c \in held[q] : sector[c] # s
  BY <1>2 DEF CInv, IInv, Types, OwnersInv
<1>4. Owner[s] = NoProc /\ Owner' = [Owner EXCEPT ![s] = p]
  BY <1>2, <1>3, OwnerTakes
<1>5. Mem' = Mem
  BY <1>2, MemSame
<1> QED BY <1>4, <1>5, TakeIs

\* The buffer that is recycled was as on the disk, and its sector nobody's.
LEMMA BgetRecyclesIs ==
  ASSUME CInv, CInv', NEW p \in Proc, NEW s \in Sector, BgetRecycles(p, s) PROVE Promise!Next
<1>1. PICK b \in Recyclable :
        /\ sector' = [sector EXCEPT ![b] = s]
        /\ busy' = busy \cup {b} /\ valid' = valid \ {b} /\ dirty' = dirty \ {b}
        /\ Got(p, b, FALSE)
  BY DEF BgetRecycles
<1>2. /\ b \in Buf \ busy /\ b \notin dirty /\ held' = [held EXCEPT ![p] = @ \cup {b}]
      /\ data' = data /\ disk' = disk /\ valid \subseteq Buf
      /\ sector'[b] = s /\ \A c \in Buf \ {b} : sector'[c] = sector[c]
      /\ \A c \in Buf : sector[c] # s
  BY <1>1 DEF Recyclable, BgetRecycles, Got, Cached, CInv, IInv, Types
<1>3. \A q \in Proc : \A c \in held[q] : sector[c] # s
  BY <1>2 DEF CInv, IInv, Types
<1>4. Owner[s] = NoProc /\ Owner' = [Owner EXCEPT ![s] = p]
  BY <1>2, <1>3, OwnerTakes
<1>5. ASSUME NEW r \in Sector PROVE Mem'[r] = Mem[r]
  <2>1. CASE \A c \in valid : sector[c] # r
    <3>1. \A c \in valid' : sector'[c] # r
      BY <1>1, <1>2, <2>1
    <3>2. Mem[r] = disk[r] /\ Mem'[r] = disk'[r]
      BY <2>1, <3>1, MemIs, MemAfter
    <3> QED BY <1>2, <3>2
  <2>2. ASSUME NEW c \in valid \ {b}, sector[c] = r PROVE Mem'[r] = Mem[r]
    <3>1. c \in valid' /\ sector'[c] = r
      BY <1>1, <1>2, <2>2
    <3>2. Mem[r] = data[c] /\ Mem'[r] = data'[c]
      BY <2>2, <3>1, MemIs, MemAfter
    <3> QED BY <1>2, <3>2
  <2>3. CASE b \in valid /\ sector[b] = r
    <3>1. Mem[r] = data[b]
      BY <2>3, MemIs
    <3>2. data[b] = disk[r]
      BY <1>2, <2>3 DEF CInv, DataInv, FlagsInv
    <3>3. \A c \in valid' : sector'[c] # r
      <4>1. NoSector \notin Sector
        BY CacheAssumption DEF Sector
      <4> QED BY <1>1, <1>2, <2>3, <4>1 DEF CInv, IInv, OwnersInv
    <3>4. Mem'[r] = disk'[r]
      BY <3>3, MemAfter
    <3> QED BY <1>2, <3>1, <3>2, <3>4
  <2> QED BY <2>1, <2>2, <2>3
<1>6. Mem' = Mem
  <2>1. Mem \in [Sector -> Value] /\ Mem' \in [Sector -> Value]
    BY MemIs, MemAfter
  <2> QED BY <1>5, <2>1
<1> QED BY <1>4, <1>6, TakeIs

\* brelse() gives the sector away.
LEMMA BrelseIs ==
  ASSUME CInv, CInv', NEW p \in Proc, NEW s \in Sector, Brelse(p, s) PROVE Promise!Next
<1>1. PICK b \in Mine(p, s) : held' = [held EXCEPT ![p] = @ \ {b}]
  BY DEF Brelse
<1>2. sector' = sector /\ valid' = valid /\ data' = data /\ disk' = disk
  BY DEF Brelse, ide
<1>3. /\ b \in Buf /\ b \in held[p] /\ sector[b] = s
      /\ \A q \in Proc \ {p} : b \notin held[q]
      /\ \A c \in Buf : sector[c] = s => c = b
  BY MineIs
<1>4. /\ held'[p] = held[p] \ {b} /\ \A q \in Proc \ {p} : held'[q] = held[q]
      /\ \A q \in Proc : held[q] \subseteq Buf
  BY <1>1 DEF CInv, IInv, Types
<1>5. Owner[s] = p
  BY <1>3, OwnerIs
<1>6. Owner'[s] = NoProc
  <2>1. \A q \in Proc : \A c \in held'[q] : sector'[c] # s
    BY <1>2, <1>3, <1>4
  <2> QED BY <2>1, OwnerAfter
<1>7. ASSUME NEW r \in Sector \ {s} PROVE Owner'[r] = Owner[r]
  <2>1. CASE \E q \in Proc : \E c \in held[q] : sector[c] = r
    <3>0. PICK q \in Proc : \E c \in held[q] : sector[c] = r
      BY <2>1
    <3>1. PICK c \in held[q] : sector[c] = r
      BY <3>0
    <3>2. c \in held'[q] /\ sector'[c] = r
      BY <1>2, <1>3, <1>4, <1>7, <3>1
    <3>3. Owner[r] = q
      BY <3>1, OwnerIs
    <3>4. Owner'[r] = q
      BY <3>2, OwnerAfter
    <3> QED BY <3>3, <3>4
  <2>2. CASE \A q \in Proc : \A c \in held[q] : sector[c] # r
    <3>1. \A q \in Proc : \A c \in held'[q] : sector'[c] # r
      BY <1>2, <1>4, <2>2
    <3>2. Owner[r] = NoProc
      BY <2>2, OwnerIs
    <3>3. Owner'[r] = NoProc
      BY <3>1, OwnerAfter
    <3> QED BY <3>2, <3>3
  <2> QED BY <2>1, <2>2
<1>8. Owner' = [Owner EXCEPT ![s] = NoProc]
  <2>1. Owner \in [Sector -> Proc \cup {NoProc}] /\ Owner' \in [Sector -> Proc \cup {NoProc}]
    BY OwnerIs, OwnerAfter
  <2> QED BY <1>6, <1>7, <2>1
<1>9. Mem' = Mem
  BY <1>2, MemSame
<1> QED BY <1>5, <1>8, <1>9 DEF Promise!Next, Promise!Give

\* A buffer of p is changed: p changes the sector.
LEMMA ChangeIs ==
  ASSUME CInv, CInv', NEW p \in Proc, NEW s \in Sector, p \notin waits, NEW b \in Mine(p, s),
         NEW v \in Value, data' = [data EXCEPT ![b] = v], UNCHANGED <<sector, valid, disk, held>>
  PROVE  Promise!Next
<1>1. /\ b \in Buf /\ b \in held[p] /\ sector[b] = s /\ b \in valid
      /\ \A c \in Buf : sector[c] = s => c = b
  BY MineIs
<1>2. Owner[s] = p /\ Owner' = Owner
  BY <1>1, OwnerIs, OwnerSame
<1>3. data'[b] = v /\ (\A c \in Buf \ {b} : data'[c] = data[c]) /\ valid \subseteq Buf
  BY <1>1 DEF CInv, IInv, Types, DataInv, DataTypes
<1>4. Mem'[s] = v
  BY <1>1, <1>3, MemAfter
<1>5. ASSUME NEW r \in Sector \ {s} PROVE Mem'[r] = Mem[r]
  <2>1. CASE \A c \in valid : sector[c] # r
    BY <2>1, MemIs, MemAfter
  <2>2. ASSUME NEW c \in valid, sector[c] = r PROVE Mem'[r] = Mem[r]
    <3>1. Mem[r] = data[c] /\ Mem'[r] = data'[c] /\ c # b
      BY <1>1, <1>5, <2>2, MemIs, MemAfter
    <3> QED BY <1>3, <3>1
  <2> QED BY <2>1, <2>2
<1>6. Mem' = [Mem EXCEPT ![s] = v]
  <2>1. Mem \in [Sector -> Value] /\ Mem' \in [Sector -> Value]
    BY MemIs, MemAfter
  <2> QED BY <1>4, <1>5, <2>1
<1> QED BY <1>2, <1>6 DEF Promise!Next, Promise!Change

\* The disk writes what the next reader would find anyway.
LEMMA IdeintrIs == ASSUME CInv, CInv', Ideintr PROVE Mem' = Mem /\ Owner' = Owner
<1>0. PICK b : b = Head(idequeue)
  OBVIOUS
<1>1. PICK p \in waits : Request(p, b) /\ asleep[p] = b
  BY <1>0, HeadIs
<1>2. /\ b \in Buf /\ sector[b] \in Sector /\ b # NoBuf
      /\ \A c \in Buf : sector[c] = sector[b] => c = b
  BY <1>0, HeadIs, CacheAssumption
<1>3. /\ valid' = valid \cup {b} /\ sector' = sector /\ held' = held
      /\ b \in dirty => disk' = [disk EXCEPT ![sector[b]] = data[b]] /\ data' = data
      /\ b \notin dirty => data' = [data EXCEPT ![b] = disk[sector[b]]] /\ disk' = disk
  BY <1>0 DEF Ideintr
<1>4. b \in dirty <=> b \in valid
  BY <1>1, <1>2 DEF Request, CInv, DataInv, FlagsInv
<1>5. /\ data'[b] = disk'[sector[b]]
      /\ \A c \in Buf \ {b} : data'[c] = data[c]
      /\ \A s \in Sector \ {sector[b]} : disk'[s] = disk[s]
      /\ b \in dirty => data'[b] = data[b]
      /\ b \notin dirty => disk'[sector[b]] = disk[sector[b]]
      /\ valid \subseteq Buf
  BY <1>2, <1>3 DEF CInv, IInv, Types, DataInv, DataTypes
<1>6. ASSUME NEW r \in Sector PROVE Mem'[r] = Mem[r]
  <2>1. CASE r = sector[b]
    <3>1. Mem'[r] = data'[b]
      BY <1>2, <1>3, <2>1, MemAfter
    <3>2. CASE b \in valid
      <4>1. Mem[r] = data[b]
        BY <1>2, <2>1, <3>2, MemIs
      <4> QED BY <1>4, <1>5, <3>1, <3>2, <4>1
    <3>3. CASE b \notin valid
      <4>1. \A c \in valid : sector[c] # r
        BY <1>2, <1>5, <2>1, <3>3
      <4>2. Mem[r] = disk[r]
        BY <4>1, MemIs
      <4> QED BY <1>4, <1>5, <2>1, <3>1, <3>3, <4>2
    <3> QED BY <3>2, <3>3
  <2>2. ASSUME r # sector[b], \A c \in valid : sector[c] # r PROVE Mem'[r] = Mem[r]
    <3>1. \A c \in valid' : sector'[c] # r
      BY <1>3, <2>2
    <3>2. Mem[r] = disk[r] /\ Mem'[r] = disk'[r]
      BY <2>2, <3>1, MemIs, MemAfter
    <3> QED BY <1>5, <2>2, <3>2
  <2>3. ASSUME r # sector[b], NEW c \in valid, sector[c] = r PROVE Mem'[r] = Mem[r]
    <3>1. c \in valid' /\ sector'[c] = r /\ c \in Buf \ {b}
      BY <1>3, <1>5, <2>3
    <3>2. Mem[r] = data[c] /\ Mem'[r] = data'[c]
      BY <2>3, <3>1, MemIs, MemAfter
    <3> QED BY <1>5, <3>1, <3>2
  <2> QED BY <2>1, <2>2, <2>3
<1>7. Mem' = Mem
  <2>1. Mem \in [Sector -> Value] /\ Mem' \in [Sector -> Value]
    BY MemIs, MemAfter
  <2> QED BY <1>6, <2>1
<1> QED BY <1>3, <1>7, OwnerSame

\* Every step of the cache is a step of the store, or invisible.
LEMMA StoreNext ==
  ASSUME CInv, CInv', [Next]_vars PROVE Promise!Next \/ UNCHANGED <<Mem, Owner>>
<1>1. CASE Ideintr
  BY <1>1, IdeintrIs
<1>2. ASSUME UNCHANGED <<cache, ide, held>> PROVE UNCHANGED <<Mem, Owner>>
  BY <1>2, MemSame, OwnerSame DEF cache, flags, ide
<1>3. ASSUME NEW p \in Proc, StartRead(p) \/ BeginTrans(p) \/ StartUpdate(p) \/ CommitTrans(p)
      PROVE  UNCHANGED <<Mem, Owner>>
  BY <1>2, <1>3 DEF StartRead, BeginTrans, StartUpdate, CommitTrans, Start
<1>4. ASSUME NEW p \in Proc, IderwGoesOn(p) \/ InstallTrans(p) PROVE UNCHANGED <<Mem, Owner>>
  BY <1>2, <1>4 DEF IderwGoesOn, InstallTrans
<1>5. ASSUME NEW p \in Proc, NEW s \in Sector,
             BgetSleeps(p, s) \/ LogWrite(p, s) \/ Clear(p, s) \/ Free(p, s)
      PROVE  UNCHANGED <<Mem, Owner>>
  BY <1>2, <1>5 DEF BgetSleeps, LogWrite, Clear, Free
<1>6. ASSUME NEW p \in Proc, NEW s \in Sector, Bwrite(p, s) \/ Pin(p, s) PROVE UNCHANGED <<Mem, Owner>>
  BY <1>6, MemSame, OwnerSame DEF Bwrite, Pin, ide
<1>7. ASSUME NEW p \in Proc, NEW s \in Sector, Modify(p, s) PROVE Promise!Next
  <2>1. PICK b \in Mine(p, s), v \in Content[s] : data' = [data EXCEPT ![b] = v]
    BY <1>7 DEF Modify
  <2>2. v \in Value /\ p \notin waits /\ UNCHANGED <<sector, valid, disk, held>>
    BY <1>7, <2>1, ContentIs DEF Modify, Calls, flags, ide
  <2> QED BY <2>1, <2>2, ChangeIs
<1>8. ASSUME NEW p \in Proc, NEW s \in Sector, Memmove(p, s) PROVE Promise!Next
  <2>1. PICK b \in Mine(p, s), c \in Mine(p, Head(todo[p]).from) : data' = [data EXCEPT ![b] = data[c]]
    BY <1>8 DEF Memmove
  <2>2. data[c] \in Value
    BY <2>1, MineIs DEF CInv, DataInv, DataTypes
  <2>3. PICK v \in Value : v = data[c]
    BY <2>2
  <2>4. p \notin waits /\ UNCHANGED <<sector, valid, disk, held>>
    BY <1>8 DEF Memmove, Calls, flags, ide
  <2> QED BY <2>1, <2>3, <2>4, ChangeIs
<1>9. CASE UNCHANGED vars
  BY <1>2, <1>9 DEF vars
<1>10. ASSUME NEW p \in Proc, Continue(p) PROVE Promise!Next \/ UNCHANGED <<Mem, Owner>>
  BY <1>4, <1>5, <1>6, <1>7, <1>8, <1>10, BgetFoundIs, BgetRecyclesIs, BrelseIs DEF Continue
<1> QED BY <1>1, <1>3, <1>9, <1>10 DEF Next

\* The buffers, their eviction, the log's pins and the queue of the disk are
\* invisible: from bread() to brelse() a process has a sector for itself, and
\* the next one finds what it left.
THEOREM ImplementsSectorStore == Spec => Implements
<1>1. Init => Promise!Init
  <2> SUFFICES ASSUME Init PROVE Promise!Init
    OBVIOUS
  <2>1. CInv
    BY InitInv, InitData DEF CInv
  <2>2. Mem \in [Sector -> Value]
    BY <2>1, MemIs
  <2>3. Owner = [s \in Sector |-> NoProc]
    <3>1. \A s \in Sector : Owner[s] = NoProc
      BY <2>1, OwnerIs DEF Init
    <3>2. Owner = [s \in Sector |-> Owner[s]]
      BY DEF Owner
    <3> QED BY <3>1, <3>2
  <2> QED BY <2>2, <2>3 DEF Promise!Init
<1>2. CInv /\ CInv' /\ [Next]_vars => [Promise!Next]_(Promise!vars)
  BY StoreNext DEF Promise!vars
<1> QED BY <1>1, <1>2, CacheInvariance, PTL DEF Spec, Implements, Promise!Spec

-----------------------------------------------------------------------------
\* A reader that is about to ask for a sector has none.
LEMMA ReaderAsks ==
  ASSUME NEW q, NEW H, NEW U, ReaderStage(q, H, U), q # <<>>, Head(q).f = "bread"
  PROVE  H = {}
<1>1. ASSUME NEW s \in Home, q = AtBrelse(s, <<>>) PROVE FALSE
  <2>1. s \in Sector /\ <<>> \in Seq(Call)
    BY DEF Sector
  <2>2. Head(q) = Op("brelse", s)
    BY <1>1, <2>1, UpdateForms, Zenon
  <2> QED BY <2>2 DEF Op
<1> QED BY <1>1, Zenon DEF ReaderStage

\* Who sleeps in bget() sleeps for a process that has not finished; if that
\* one sleeps in bget() as well it is the writer.
LEMMA SleeperHas ==
  ASSUME CInv, NEW p \in Proc, NEW b \in held[p]
  PROVE  /\ todo[p] # <<>>
         /\ p \notin waits /\ asleep[p] # NoBuf => p = writer /\ sector[asleep[p]] \notin Held(p)
<1>1. todo[p] # <<>>
  BY IdleHas DEF Held
<1>2. ASSUME p \notin waits, asleep[p] # NoBuf
      PROVE  p = writer /\ sector[asleep[p]] \notin Held(p)
  <2>1. todo[p] # <<>> /\ Head(todo[p]).f = "bread" /\ sector[asleep[p]] = Head(todo[p]).s
    BY <1>2 DEF CInv, DataInv, WaitsInv
  <2>2. PICK U \in SUBSET Sector : Stage(p = writer, todo[p], Held(p), U, Len(lh))
    BY <1>2, PlanOf
  <2>3. p = writer
    <3>1. Held(p) # {}
      BY DEF Held
    <3> QED BY <2>1, <2>2, <3>1, ReaderAsks, Zenon DEF Stage
  <2>4. Len(lh) \in Nat /\ (p = writer) \in BOOLEAN
    BY LogIs
  <2>5. Head(todo[p]).s \in Sector \ Held(p)
    BY <2>1, <2>2, <2>4, BreadMoves, Zenon
  <2> QED BY <2>1, <2>3, <2>5
<1> QED BY <1>1, <1>2

\* A sleeper in bget(), and the process it waits for.
LEMMA SleepsFor ==
  ASSUME CInv, NEW p \in Proc, asleep[p] # NoBuf, p \notin waits
  PROVE  \E q \in Proc : asleep[p] \in held[q]
BY DEF CInv, IInv, NoLostWakeup, DataInv, FlagsInv

\* The circle of processes that wait for each other would be one of writers,
\* and there is one writer.
LEMMA CircleInv == CInv => NoCircularWait
<1> SUFFICES ASSUME CInv, NEW p \in Proc, asleep[p] # NoBuf, idequeue = <<>>,
                    \A q \in Proc : todo[q] # <<>> => asleep[q] # NoBuf
             PROVE  FALSE
  BY DEF NoCircularWait
<1>1. \A q \in Proc : asleep[q] # NoBuf => q \notin waits
  BY DEF CInv, IInv, NoLostWakeup, Range
<1>2. ASSUME NEW q \in Proc, asleep[q] # NoBuf
      PROVE  \E r \in Proc : /\ asleep[q] \in held[r] /\ r = writer
                             /\ asleep[r] # NoBuf /\ sector[asleep[r]] \notin Held(r)
  <2>1. q \notin waits
    BY <1>1, <1>2
  <2>2. PICK r \in Proc : asleep[q] \in held[r]
    BY <1>2, <2>1, SleepsFor
  <2>3. asleep[r] # NoBuf
    BY <2>2, SleeperHas
  <2>4. r = writer /\ sector[asleep[r]] \notin Held(r)
    BY <1>1, <2>2, <2>3, SleeperHas
  <2> QED BY <2>2, <2>3, <2>4
<1>3. PICK q \in Proc : q = writer /\ asleep[q] # NoBuf /\ sector[asleep[q]] \notin Held(q)
  BY <1>2
<1>4. PICK r \in Proc : asleep[q] \in held[r] /\ r = writer
  BY <1>2, <1>3
<1> QED BY <1>3, <1>4 DEF Held

\* Whatever buffers the log, its user and the readers take one after the
\* other, the disk or somebody that is awake can always go on.
THEOREM NoCircle == Spec => []NoCircularWait
BY CacheInvariance, CircleInv, PTL
=============================================================================
