---------------------------- MODULE BufferCache ----------------------------
(***************************************************************************)
(* The buffer cache of xv6 (bio.c) and the queue of its disk (ide.c), used *)
(* by the log (log.c) and by processes that read: bget() with its list in  *)
(* the order of use, brelse(), bwrite(), iderw() and the interrupt of the  *)
(* disk, and the dirty buffers that log_write() pins until they are        *)
(* installed.  A critical section of bcache.lock or idelock is one action; *)
(* a process owns what it has between two of them through B_BUSY.          *)
(***************************************************************************)
EXTENDS Integers, Sequences, FiniteSets, SequencesExt

CONSTANTS Proc, NoProc,
          Home,      \* the sectors outside the log
          Header,    \* the header sector of the log
          Slot,      \* the data sectors of the log, a sequence
          NoSector,  \* b->dev == -1
          Buf, NoBuf,  \* the NBUF buffers
          Content    \* what processes may find or write in each sector

LogSlots == Range(Slot)
Blank    == CHOOSE v \in Content[Header] : TRUE
Value    == UNION Range(Content)
Sector   == Home \cup {Header} \cup LogSlots

ASSUME CacheAssumption ==
  /\ NoProc \notin Proc /\ NoBuf \notin Buf
  /\ NoSector \notin Home \cup {Header} \cup LogSlots
  /\ Slot \in Seq(LogSlots) /\ Header \notin Home \cup LogSlots /\ Home \cap LogSlots = {}
  /\ Sector \subseteq DOMAIN Content /\ Content[Header] # {}

VARIABLES
  mru,       \* the list of the buffers, the most recently used first
  sector,    \* b->sector
  busy, valid, dirty,  \* the buffers with B_BUSY, B_VALID, B_DIRTY
  data,      \* b->data
  idequeue,
  disk,
  asleep,    \* the buffer a process sleeps on
  waits,     \* the processes in the while of iderw()
  held,      \* the buffers a process has from bread()
  todo,      \* what a process is still going to do with buffers
  lh,        \* log.lh
  writer     \* the process between begin_trans and the end of commit_trans

flags == <<busy, valid, dirty>>
cache == <<mru, sector, data, flags>>
ide   == <<idequeue, disk>>
log   == <<lh, writer>>
vars  == <<cache, ide, asleep, waits, held, todo, log>>

Init ==
  /\ mru = SetToSeq(Buf) /\ sector = [b \in Buf |-> NoSector]
  /\ data = [b \in Buf |-> Blank] /\ disk = [s \in Sector |-> Blank]
  /\ busy = {} /\ valid = {} /\ dirty = {} /\ idequeue = <<>>
  /\ asleep = [p \in Proc |-> NoBuf] /\ waits = {} /\ held = [p \in Proc |-> {}]
  /\ todo = [p \in Proc |-> <<>>] /\ lh = <<>> /\ writer = NoProc

-----------------------------------------------------------------------------
(* What processes do with buffers, as sequences of calls *)

Op(f, s) == [f |-> f, s |-> s]
Copy(t, s) == [f |-> "memmove", s |-> t, from |-> s]

\* bread() ... brelse() of a reader, as in readi() or ilock()
Read(s) == <<Op("bread", s), Op("brelse", s)>>

Write(s) == <<Op("bwrite", s), Op("brelse", s)>>

\* "a typical use is: bread, modify, log_write, brelse"
Update(s) == <<Op("bread", s), Op("modify", s), Op("log_write", s), Op("brelse", s)>>

\* bmap() and balloc(): another block is changed while this one is held
UpdateBoth(s, t) == <<Op("bread", s)>> \o Update(t) \o Tail(Update(s))

\* the block of a sector in the log, the one it has already if it has one
SlotOf(s) ==
  Slot[IF s \in Range(lh) THEN CHOOSE i \in 1..Len(lh) : lh[i] = s ELSE Len(lh) + 1]


\* log_write(b): the copy into the log, then the mark that prevents eviction
LogWriteCalls(s) ==
  <<Op("bread", SlotOf(s)), Copy(SlotOf(s), s)>> \o Write(SlotOf(s)) \o <<Op("pin", s)>>

WriteHead == <<Op("bread", Header)>> \o Write(Header)

\* one turn of install_trans()
InstallCalls(t, s) ==
  <<Op("bread", t), Op("bread", s), Copy(s, t), Op("bwrite", s), Op("brelse", t), Op("brelse", s)>>

Install(i) == [f |-> "install", tail |-> i]

CommitCalls ==
  IF lh = <<>> THEN <<Op("free", Header)>>
  ELSE WriteHead \o <<Install(1), Op("clear", Header)>> \o WriteHead \o <<Op("free", Header)>>

-----------------------------------------------------------------------------
(* bget() and bread() *)

\* p is about to make the call f, for the sector s
Calls(p, f, s) ==
  /\ asleep[p] = NoBuf /\ p \notin waits
  /\ todo[p] # <<>> /\ Head(todo[p]).f = f /\ Head(todo[p]).s = s

Returns(p) == todo' = [todo EXCEPT ![p] = Tail(@)]

Mine(p, s) == {b \in held[p] : sector[b] = s}
Cached(s)  == {b \in Buf : sector[b] = s}
Recyclable == Buf \ (busy \cup dirty)

\* b is the first of S from the tail of the list
OldestOf(S, b) ==
  \E i \in DOMAIN mru : mru[i] = b /\ \A j \in DOMAIN mru : j > i => mru[j] \notin S

\* bread() goes on into iderw() unless the buffer is valid
Got(p, b, isValid) ==
  /\ held' = [held EXCEPT ![p] = @ \cup {b}]
  /\ IF isValid THEN Returns(p) /\ UNCHANGED <<waits, asleep, idequeue>>
     ELSE /\ idequeue' = Append(idequeue, b) /\ waits' = waits \cup {p}
          /\ asleep' = [asleep EXCEPT ![p] = b] /\ UNCHANGED todo

BgetFound(p, s) ==
  /\ Calls(p, "bread", s)
  /\ \E b \in Cached(s) \ busy :
       busy' = busy \cup {b} /\ Got(p, b, b \in valid)
  /\ UNCHANGED <<mru, sector, valid, dirty, data, disk, log>>

\* sleep(b, &bcache.lock); goto loop
BgetSleeps(p, s) ==
  /\ Calls(p, "bread", s)
  /\ \E b \in Cached(s) \cap busy : asleep' = [asleep EXCEPT ![p] = b]
  /\ UNCHANGED <<cache, ide, waits, held, todo, log>>

\* a buffer that is pinned in the log is recycled
BgetRecycles_Dirty(p, s) ==
  /\ Calls(p, "bread", s) /\ Cached(s) = {}
  /\ \E b \in Buf \ busy :
       /\ OldestOf(Buf \ busy, b)
       /\ sector' = [sector EXCEPT ![b] = s]
       /\ busy' = busy \cup {b} /\ valid' = valid \ {b} /\ dirty' = dirty \ {b}
       /\ Got(p, b, FALSE)
  /\ UNCHANGED <<mru, data, disk, log>>

\* "recycle some non-busy and clean buffer"
BgetRecycles(p, s) ==
  /\ Calls(p, "bread", s) /\ Cached(s) = {}
  /\ \E b \in Recyclable :
       /\ OldestOf(Recyclable, b)
       /\ sector' = [sector EXCEPT ![b] = s]
       /\ busy' = busy \cup {b} /\ valid' = valid \ {b} /\ dirty' = dirty \ {b}
       /\ Got(p, b, FALSE)
  /\ UNCHANGED <<mru, data, disk, log>>

-----------------------------------------------------------------------------
(* brelse(), bwrite(), iderw() and the disk *)

WakeUp(b) == asleep' = [p \in Proc |-> IF asleep[p] = b THEN NoBuf ELSE asleep[p]]

Brelse_Silent(p, s) ==
  /\ Calls(p, "brelse", s)
  /\ \E b \in Mine(p, s) :
       /\ mru' = <<b>> \o SelectSeq(mru, LAMBDA c : c # b)
       /\ busy' = busy \ {b} /\ held' = [held EXCEPT ![p] = @ \ {b}]
  /\ Returns(p)
  /\ UNCHANGED <<sector, valid, dirty, data, ide, asleep, waits, log>>

Brelse(p, s) ==
  /\ Calls(p, "brelse", s)
  /\ \E b \in Mine(p, s) :
       /\ mru' = <<b>> \o SelectSeq(mru, LAMBDA c : c # b)
       /\ busy' = busy \ {b} /\ held' = [held EXCEPT ![p] = @ \ {b}] /\ WakeUp(b)
  /\ Returns(p)
  /\ UNCHANGED <<sector, valid, dirty, data, ide, waits, log>>

\* b->flags |= B_DIRTY; iderw(b) appends it and sleeps
Bwrite(p, s) ==
  /\ Calls(p, "bwrite", s)
  /\ \E b \in Mine(p, s) :
       /\ dirty' = dirty \cup {b} /\ idequeue' = Append(idequeue, b)
       /\ asleep' = [asleep EXCEPT ![p] = b]
  /\ waits' = waits \cup {p}
  /\ UNCHANGED <<mru, sector, busy, valid, data, disk, held, todo, log>>

\* the while of iderw(), for the buffer of the call that waits
IderwGoesOn(p) ==
  /\ p \in waits /\ asleep[p] = NoBuf
  /\ \E b \in Mine(p, Head(todo[p]).s) :
       IF b \in valid \ dirty
       THEN waits' = waits \ {p} /\ Returns(p) /\ UNCHANGED asleep
       ELSE asleep' = [asleep EXCEPT ![p] = b] /\ UNCHANGED <<waits, todo>>
  /\ UNCHANGED <<cache, ide, held, log>>

\* the handler wakes nobody
Ideintr_Silent ==
  /\ idequeue # <<>>
  /\ LET b == Head(idequeue) IN
       /\ idequeue' = Tail(idequeue)
       /\ valid' = valid \cup {b} /\ dirty' = dirty \ {b}
       /\ IF b \in dirty THEN disk' = [disk EXCEPT ![sector[b]] = data[b]] /\ UNCHANGED data
                         ELSE data' = [data EXCEPT ![b] = disk[sector[b]]] /\ UNCHANGED disk
  /\ UNCHANGED <<mru, sector, busy, asleep, waits, held, todo, log>>

\* the first buffer of the queue has been written, or is read now
Ideintr ==
  /\ idequeue # <<>>
  /\ LET b == Head(idequeue) IN
       /\ idequeue' = Tail(idequeue) /\ WakeUp(b)
       /\ valid' = valid \cup {b} /\ dirty' = dirty \ {b}
       /\ IF b \in dirty THEN disk' = [disk EXCEPT ![sector[b]] = data[b]] /\ UNCHANGED data
                         ELSE data' = [data EXCEPT ![b] = disk[sector[b]]] /\ UNCHANGED disk
  /\ UNCHANGED <<mru, sector, busy, waits, held, todo, log>>

-----------------------------------------------------------------------------
(* The users of the cache *)

Start(p, calls) ==
  /\ todo[p] = <<>> /\ todo' = [todo EXCEPT ![p] = calls]
  /\ UNCHANGED <<cache, ide, asleep, waits, held>>

StartRead(p) == p # writer /\ (\E s \in Home : Start(p, Read(s))) /\ UNCHANGED log

BeginTrans(p) == writer = NoProc /\ writer' = p /\ Start(p, <<>>) /\ UNCHANGED lh

\* callers of log_write() stay within the log
StartUpdate(p) ==
  /\ p = writer /\ UNCHANGED log
  /\ \/ Len(lh) < Len(Slot) /\ \E s \in Home : Start(p, Update(s))
     \/ Len(lh) + 1 < Len(Slot)
        /\ \E s \in Home, t \in Home : s # t /\ Start(p, UpdateBoth(s, t))

CommitTrans(p) == p = writer /\ Start(p, CommitCalls) /\ UNCHANGED log

LogWrite(p, s) ==
  /\ Calls(p, "log_write", s)
  /\ todo' = [todo EXCEPT ![p] = LogWriteCalls(s) \o Tail(@)]
  /\ UNCHANGED <<cache, ide, asleep, waits, held, log>>

\* the for of install_trans()
InstallTrans(p) ==
  /\ asleep[p] = NoBuf /\ p \notin waits
  /\ todo[p] # <<>> /\ Head(todo[p]).f = "install"
  /\ LET i == Head(todo[p]).tail IN
       todo' = [todo EXCEPT ![p] =
                  IF i > Len(lh) THEN Tail(@)
                  ELSE InstallCalls(Slot[i], lh[i]) \o <<Install(i + 1)>> \o Tail(@)]
  /\ UNCHANGED <<cache, ide, asleep, waits, held, log>>

Modify(p, s) ==
  /\ Calls(p, "modify", s) /\ Returns(p)
  /\ \E b \in Mine(p, s), v \in Content[s] : data' = [data EXCEPT ![b] = v]
  /\ UNCHANGED <<mru, sector, flags, ide, asleep, waits, held, log>>

Memmove(p, s) ==
  /\ Calls(p, "memmove", s) /\ Returns(p)
  /\ \E b \in Mine(p, s), c \in Mine(p, Head(todo[p]).from) : data' = [data EXCEPT ![b] = data[c]]
  /\ UNCHANGED <<mru, sector, flags, ide, asleep, waits, held, log>>

\* the last lines of log_write(): log.lh.n++ and B_DIRTY
Pin(p, s) ==
  /\ Calls(p, "pin", s) /\ Returns(p)
  /\ lh' = IF s \in Range(lh) THEN lh ELSE Append(lh, s)
  /\ \E b \in Mine(p, s) : dirty' = dirty \cup {b}
  /\ UNCHANGED <<mru, sector, busy, valid, data, ide, asleep, waits, held, writer>>

Clear(p, s) ==
  /\ Calls(p, "clear", s) /\ Returns(p) /\ lh' = <<>>
  /\ UNCHANGED <<cache, ide, asleep, waits, held, writer>>

Free(p, s) ==
  /\ Calls(p, "free", s) /\ Returns(p) /\ writer' = NoProc
  /\ UNCHANGED <<cache, ide, asleep, waits, held, lh>>

Continue(p) ==
  \/ IderwGoesOn(p) \/ InstallTrans(p)
  \/ \E s \in Sector :
       \/ BgetFound(p, s) \/ BgetSleeps(p, s) \/ BgetRecycles(p, s)
       \/ Brelse(p, s) \/ Bwrite(p, s)
       \/ LogWrite(p, s) \/ Modify(p, s) \/ Memmove(p, s) \/ Pin(p, s) \/ Clear(p, s) \/ Free(p, s)

Next ==
  \/ Ideintr
  \/ \E p \in Proc : \/ StartRead(p) \/ BeginTrans(p) \/ StartUpdate(p) \/ CommitTrans(p)
                     \/ Continue(p)

Spec == Init /\ [][Next]_vars

-----------------------------------------------------------------------------
(* Properties *)


\* nobody sleeps for a buffer that nobody has, or for a request the disk
\* does not have: two kinds of sleepers use one channel, under two locks
NoLostWakeup ==
  \A p \in Proc : asleep[p] # NoBuf =>
    IF p \in waits THEN asleep[p] \in Range(idequeue) ELSE asleep[p] \in busy

\* the order in which the log and its users take several buffers never
\* closes a circle: somebody in the middle of its calls, or the disk, can move
NoCircularWait ==
  (\E p \in Proc : asleep[p] # NoBuf) =>
    idequeue # <<>> \/ \E p \in Proc : todo[p] # <<>> /\ asleep[p] = NoBuf

\* what the next process that reads a sector will find, and who has it
Mem   == [s \in Sector |-> IF Cached(s) \cap valid = {} THEN disk[s]
                           ELSE data[CHOOSE b \in Cached(s) \cap valid : TRUE]]
Owner == [s \in Sector |-> IF \E p \in Proc : \E b \in held[p] : sector[b] = s
                           THEN CHOOSE p \in Proc : \E b \in held[p] : sector[b] = s
                           ELSE NoProc]

\* eviction, pinning and the disk are invisible: the cache is a store of
\* sectors that one process at a time owns
Promise == INSTANCE SectorStore WITH mem <- Mem, owner <- Owner

Implements == Promise!Spec
=============================================================================
