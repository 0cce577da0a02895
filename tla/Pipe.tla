-------------------------------- MODULE Pipe --------------------------------
(***************************************************************************)
(* A pipe of xv6 (lab06/xv6-cond-martino/pipe.c) and the two file          *)
(* structures of its ends (filedup, fileclose of file.c), used by          *)
(* processes that write, read, fork, close and are killed.  nread and      *)
(* nwrite are unsigned and wrap at Width.                                  *)
(***************************************************************************)
EXTENDS Integers, FiniteSets

CONSTANTS Proc, Nobody,
          Byte,      \* what a byte can be
          PIPESIZE,  \* 512 in the code
          Width,     \* where uint wraps: 2^32 in the code
          MaxCall,   \* bound: the bytes of one read or write
          MaxKills   \* bound: kill() calls

ASSUME PipeAssumption ==
  /\ Nobody \notin Proc
  /\ PIPESIZE \in Nat \ {0} /\ MaxCall \in Nat \ {0} /\ MaxKills \in Nat
  /\ \E k \in 2..Width : Width = k * PIPESIZE

VARIABLES
  lock,                        \* the holder of p->lock
  data, nread, nwrite, readopen, writeopen,  \* struct pipe
  live,                        \* the page of the pipe is allocated
  readers, writers,            \* whose files refer to each end
  onR, onW,                    \* the processes SLEEPING on &p->nread, &p->nwrite
  killed,
  pc, left,                    \* where each process is; the bytes still to move
  taken,                       \* the byte copied last by piperead
  unannounced                  \* a killed writer left bytes in the pipe and
                               \* woke no reader (history)

ring  == <<data, nread, nwrite>>
ends  == <<readopen, writeopen, live, readers, writers>>
queues == <<onR, onW>>
procs == <<pc, left>>
vars  == <<lock, ring, ends, queues, killed, procs, taken, unannounced>>

\* "out": in user code.  "write", "read", "copy": holding p->lock, in the loop
\* of pipewrite, and in the first and the second of piperead.  "sleepW",
\* "sleepR": inside sleep().  "closeR", "closeW": in fileclose, with the last
\* reference gone, about to call pipeclose.
PCs == {"out", "write", "read", "copy", "sleepW", "sleepR", "closeR", "closeW"}

Goto(p, l) == pc' = [pc EXCEPT ![p] = l]

Init ==
  /\ lock = Nobody
  /\ data \in [0..PIPESIZE - 1 -> Byte] /\ nread = 0 /\ nwrite = 0
  /\ readopen = TRUE /\ writeopen = TRUE /\ live = TRUE
  /\ \E p \in Proc : readers = {p} /\ writers = {p}
  /\ onR = {} /\ onW = {} /\ killed = {}
  /\ pc = [p \in Proc |-> "out"] /\ left = [p \in Proc |-> 0]
  /\ taken \in Byte /\ unannounced = FALSE

Slot(n) == n % PIPESIZE

\* one place of the ring written over
Full_Late == nwrite = (nread + PIPESIZE + 1) % Width

\* p->nwrite == p->nread + PIPESIZE, in the arithmetic of uint
Full == nwrite = (nread + PIPESIZE) % Width
Empty == nread = nwrite

Return(p) == lock' = Nobody /\ Goto(p, "out")

-----------------------------------------------------------------------------
(* pipewrite.  A killed process exits when its call returns (trap in        *)
(* trap.c) and makes no other.                                             *)

WriteEnter(p, n) ==
  /\ pc[p] = "out" /\ p \in writers \ killed /\ lock = Nobody
  /\ lock' = p /\ Goto(p, "write") /\ left' = [left EXCEPT ![p] = n]
  /\ UNCHANGED <<ring, ends, queues, killed, taken, unannounced>>

WriteByte(p, b) ==
  /\ pc[p] = "write" /\ left[p] > 0 /\ ~Full
  /\ data' = [data EXCEPT ![Slot(nwrite)] = b]
  /\ nwrite' = (nwrite + 1) % Width
  /\ left' = [left EXCEPT ![p] = @ - 1]
  /\ UNCHANGED <<lock, nread, ends, queues, killed, pc, taken, unannounced>>

\* full: wakeup(&p->nread); sleep(&p->nwrite, &p->lock)
WriteSleep(p) ==
  /\ pc[p] = "write" /\ left[p] > 0 /\ Full /\ readopen /\ p \notin killed
  /\ onR' = {} /\ onW' = onW \cup {p}
  /\ lock' = Nobody /\ Goto(p, "sleepW") /\ unannounced' = FALSE
  /\ UNCHANGED <<ring, ends, killed, left, taken>>

\* full, and no reader is left or the writer is killed: return -1, and wake
\* nobody, also when this call has written
WriteFails(p) ==
  /\ pc[p] = "write" /\ left[p] > 0 /\ Full /\ (~readopen \/ p \in killed)
  /\ Return(p) /\ left' = [left EXCEPT ![p] = 0]
  /\ unannounced' = (unannounced \/ p \in killed)
  /\ UNCHANGED <<ring, ends, queues, killed, taken>>

WriteWakes(p) ==
  /\ pc[p] = "sleepW" /\ p \notin onW /\ lock = Nobody
  /\ lock' = p /\ Goto(p, "write")
  /\ UNCHANGED <<ring, ends, queues, killed, left, taken, unannounced>>

\* all written: wakeup(&p->nread)
WriteEnds(p) ==
  /\ pc[p] = "write" /\ left[p] = 0
  /\ onR' = {} /\ Return(p) /\ unannounced' = FALSE
  /\ UNCHANGED <<ring, ends, onW, killed, left, taken>>

-----------------------------------------------------------------------------
(* piperead *)

ReadEnter(p, n) ==
  /\ pc[p] = "out" /\ p \in readers \ killed /\ lock = Nobody
  /\ lock' = p /\ Goto(p, "read") /\ left' = [left EXCEPT ![p] = n]
  /\ UNCHANGED <<ring, ends, queues, killed, taken, unannounced>>

\* while (nread == nwrite && writeopen): sleep, or return -1 when killed
ReadWaits(p) ==
  /\ pc[p] = "read" /\ Empty /\ writeopen
  /\ \/ /\ p \in killed
        /\ Return(p) /\ left' = [left EXCEPT ![p] = 0] /\ UNCHANGED onR
     \/ /\ p \notin killed
        /\ onR' = onR \cup {p} /\ lock' = Nobody /\ Goto(p, "sleepR")
        /\ UNCHANGED left
  /\ UNCHANGED <<ring, ends, onW, killed, taken, unannounced>>

ReadWakes(p) ==
  /\ pc[p] = "sleepR" /\ p \notin onR /\ lock = Nobody
  /\ lock' = p /\ Goto(p, "read")
  /\ UNCHANGED <<ring, ends, queues, killed, left, taken, unannounced>>

ReadStarts(p) ==
  /\ pc[p] = "read" /\ ~(Empty /\ writeopen) /\ Goto(p, "copy")
  /\ UNCHANGED <<lock, ring, ends, queues, killed, left, taken, unannounced>>

ReadByte(p) ==
  /\ pc[p] = "copy" /\ left[p] > 0 /\ ~Empty
  /\ taken' = data[Slot(nread)]
  /\ nread' = (nread + 1) % Width
  /\ left' = [left EXCEPT ![p] = @ - 1]
  /\ UNCHANGED <<lock, data, nwrite, ends, queues, killed, pc, unannounced>>

\* the writers that found the pipe full are not woken
ReadEnds_Silent(p) ==
  /\ pc[p] = "copy" /\ (left[p] = 0 \/ Empty)
  /\ Return(p) /\ left' = [left EXCEPT ![p] = 0]
  /\ UNCHANGED <<ring, ends, queues, killed, taken, unannounced>>

ReadEnds(p) ==
  /\ pc[p] = "copy" /\ (left[p] = 0 \/ Empty)
  /\ onW' = {} /\ Return(p) /\ left' = [left EXCEPT ![p] = 0]
  /\ UNCHANGED <<ring, ends, onR, killed, taken, unannounced>>

-----------------------------------------------------------------------------
(* The files: fork duplicates them (filedup), close and exit drop one       *)
(* reference, and the last one calls pipeclose.                             *)

Fork(p, q) ==
  /\ pc[p] = "out" /\ p \in readers \cup writers
  /\ pc[q] = "out" /\ q \notin readers \cup writers \cup killed
  /\ readers' = IF p \in readers THEN readers \cup {q} ELSE readers
  /\ writers' = IF p \in writers THEN writers \cup {q} ELSE writers
  /\ UNCHANGED <<lock, ring, readopen, writeopen, live, queues, killed, procs,
                 taken, unannounced>>

Close(p) ==
  /\ pc[p] = "out"
  /\ \/ /\ p \in readers /\ readers' = readers \ {p} /\ UNCHANGED writers
        /\ Goto(p, IF readers = {p} THEN "closeR" ELSE "out")
     \/ /\ p \in writers /\ writers' = writers \ {p} /\ UNCHANGED readers
        /\ Goto(p, IF writers = {p} THEN "closeW" ELSE "out")
  /\ UNCHANGED <<lock, ring, readopen, writeopen, live, queues, killed, left,
                 taken, unannounced>>

\* the test of readopen and writeopen before the page is freed
BothClosed_Either(r, w) == ~r \/ ~w
BothClosed(r, w) == ~r /\ ~w

\* a sleeping writer is told that no reader is left; a reader, that no writer is
PipeClose(p) ==
  /\ lock = Nobody /\ Goto(p, "out")
  /\ \/ pc[p] = "closeR" /\ readopen' = FALSE /\ onW' = {} /\ UNCHANGED <<writeopen, onR>>
     \/ pc[p] = "closeW" /\ writeopen' = FALSE /\ onR' = {} /\ UNCHANGED <<readopen, onW>>
  /\ live' = (live /\ ~BothClosed(readopen', writeopen'))
  /\ UNCHANGED <<lock, ring, readers, writers, killed, left, taken, unannounced>>

\* pipealloc by a process that has no pipe
Alloc(p) ==
  /\ ~live /\ pc[p] = "out" /\ p \notin killed
  /\ nread' = 0 /\ nwrite' = 0 /\ readopen' = TRUE /\ writeopen' = TRUE
  /\ live' = TRUE /\ readers' = {p} /\ writers' = {p} /\ unannounced' = FALSE
  /\ UNCHANGED <<lock, data, queues, killed, procs, taken>>

\* kill() makes a sleeping process runnable
Kill(p) ==
  /\ p \in readers \cup writers /\ p \notin killed /\ Cardinality(killed) < MaxKills
  /\ killed' = killed \cup {p} /\ onR' = onR \ {p} /\ onW' = onW \ {p}
  /\ UNCHANGED <<lock, ring, ends, procs, taken, unannounced>>

-----------------------------------------------------------------------------
Write(p) == \/ \E n \in 1..MaxCall : WriteEnter(p, n)
            \/ \E b \in Byte : WriteByte(p, b)
            \/ WriteSleep(p) \/ WriteFails(p) \/ WriteWakes(p) \/ WriteEnds(p)
Read(p)  == \/ \E n \in 1..MaxCall : ReadEnter(p, n)
            \/ ReadWaits(p) \/ ReadWakes(p) \/ ReadStarts(p)
            \/ ReadByte(p) \/ ReadEnds(p)
Next == \E p \in Proc :
          \/ Write(p) \/ Read(p) \/ Close(p) \/ PipeClose(p) \/ Alloc(p) \/ Kill(p)
          \/ \E q \in Proc : Fork(p, q)

Spec == Init /\ [][Next]_vars
-----------------------------------------------------------------------------
TypeOK ==
  /\ lock \in Proc \cup {Nobody}
  /\ data \in [0..PIPESIZE - 1 -> Byte] /\ nread \in 0..Width - 1 /\ nwrite \in 0..Width - 1
  /\ (nwrite - nread) % Width <= PIPESIZE
  /\ {readopen, writeopen, live, unannounced} \subseteq BOOLEAN
  /\ {readers, writers, onR, onW, killed} \subseteq SUBSET Proc
  /\ pc \in [Proc -> PCs] /\ left \in [Proc -> 0..MaxCall] /\ taken \in Byte
  /\ \A p \in Proc : pc[p] \in {"write", "read", "copy"} <=> lock = p

\* Nobody sleeps for what is already there: a reader for bytes or for the end
\* of the file, a writer for room or for readers that are gone.  The one
\* exception is a writer that is killed after it has filled the pipe: it
\* returns without waking the readers.
NoLostWakeup ==
  lock = Nobody =>
    /\ onR # {} => (Empty /\ writeopen) \/ unannounced
    /\ onW # {} => Full /\ readopen

\* The page of the pipe is freed when nobody can use it any more: no process
\* holds an end or is inside a function of pipe.c.
NoUseAfterFree ==
  ~live => /\ readers = {} /\ writers = {} /\ ~readopen /\ ~writeopen
           /\ \A p \in Proc : pc[p] = "out"

\* The ring is a byte stream, also when nread and nwrite have wrapped around.
Queue == [i \in 1..((nwrite - nread) % Width) |-> data[Slot((nread + i - 1) % Width)]]

Stream == INSTANCE ByteStream WITH
            Size <- PIPESIZE, queue <- Queue, open <- writeopen

IsByteStream == Stream!Spec
=============================================================================
