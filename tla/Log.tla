-------------------------------- MODULE Log --------------------------------
(***************************************************************************)
(* The redo log of the xv6 file system (lab06/xv6-cond-martino/log.c):     *)
(* begin_trans, log_write and commit_trans as processes call them, the     *)
(* recovery at boot, and a machine that may stop between any two writes to *)
(* the disk.  A write of one sector is atomic and bwrite returns when it   *)
(* is done (iderw), so an action writes at most one sector.                *)
(***************************************************************************)
EXTENDS Integers, Sequences

CONSTANTS Proc,
          Sector,  \* the sectors outside the log
          Value,   \* what a sector can hold
          LOGSIZE  \* sectors that fit in the log

ASSUME LogAssumption == LOGSIZE \in Nat

VARIABLES
  disk,    \* the sectors at home
  blocks,  \* the data sectors of the log
  head,    \* the header sector of the log: the sectors of its blocks
  lh,      \* log.lh, the header in memory
  mem,     \* what bread() returns for a sector: the buffer cache, or the disk
  busy,    \* log.busy
  asleep,  \* the processes SLEEPING on the channel &log
  pc,      \* where each process is
  boot,    \* "off" before recover_from_log, "install" in it, "up" after it
  tail     \* the loop variable of install_trans

platter == <<disk, blocks, head>>
procs   == <<busy, asleep, pc>>
vars    == <<platter, lh, mem, procs, boot, tail>>

\* "out": outside.  "begin": inside the while of begin_trans.  "trans":
\* between begin_trans and commit_trans.  "install", "free": in commit_trans.
PCs == {"out", "begin", "trans", "install", "free"}

Goto(p, l) == pc' = [pc EXCEPT ![p] = l]

Init ==
  /\ disk \in [Sector -> Value] /\ blocks \in [1..LOGSIZE -> Value]
  /\ head = <<>> /\ lh = <<>> /\ mem = disk
  /\ busy = FALSE /\ asleep = {} /\ pc = [p \in Proc |-> "out"]
  /\ boot = "off" /\ tail = 1

-----------------------------------------------------------------------------
(* begin_trans *)

\* a process that was woken takes the log without looking at busy again
Begin_If(p) ==
  /\ boot = "up" /\ pc[p] \in {"out", "begin"} /\ p \notin asleep
  /\ \/ busy /\ pc[p] = "out" /\ asleep' = asleep \cup {p} /\ Goto(p, "begin")
        /\ UNCHANGED busy
     \/ (~busy \/ pc[p] = "begin") /\ busy' = TRUE /\ Goto(p, "trans")
        /\ UNCHANGED asleep
  /\ UNCHANGED <<platter, lh, mem, boot, tail>>

\* while (log.busy) sleep(&log, &log.lock); log.busy = 1
Begin(p) ==
  /\ boot = "up" /\ pc[p] \in {"out", "begin"} /\ p \notin asleep
  /\ \/ busy /\ asleep' = asleep \cup {p} /\ Goto(p, "begin") /\ UNCHANGED busy
     \/ ~busy /\ busy' = TRUE /\ Goto(p, "trans") /\ UNCHANGED asleep
  /\ UNCHANGED <<platter, lh, mem, boot, tail>>

-----------------------------------------------------------------------------
(* bread, a change of the data, log_write, brelse *)

In(s, h) == \E i \in 1..Len(h) : h[i] = s
Index(s, h) == CHOOSE i \in 1..Len(h) : h[i] = s

\* a sector that is in the log already is not written to it again
LogWrite_Skips(p, s, v) ==
  /\ pc[p] = "trans" /\ Len(lh) < LOGSIZE
  /\ IF In(s, lh) THEN UNCHANGED <<lh, blocks>>
     ELSE lh' = Append(lh, s) /\ blocks' = [blocks EXCEPT ![Len(lh) + 1] = v]
  /\ mem' = [mem EXCEPT ![s] = v]
  /\ UNCHANGED <<disk, head, procs, boot, tail>>

\* a sector that is in the log already keeps its block; "too big a
\* transaction" is a panic, callers stay below it
LogWrite(p, s, v) ==
  /\ pc[p] = "trans" /\ Len(lh) < LOGSIZE
  /\ lh' = IF In(s, lh) THEN lh ELSE Append(lh, s)
  /\ blocks' = [blocks EXCEPT ![IF In(s, lh) THEN Index(s, lh) ELSE Len(lh) + 1] = v]
  /\ mem' = [mem EXCEPT ![s] = v]
  /\ UNCHANGED <<disk, head, procs, boot, tail>>

-----------------------------------------------------------------------------
(* commit_trans and recover_from_log *)

\* the sectors installed without a header on the disk
WriteHead_Not(p) ==
  /\ pc[p] = "trans" /\ lh # <<>>
  /\ tail' = 1 /\ Goto(p, "install")
  /\ UNCHANGED <<platter, lh, mem, busy, asleep, boot>>

\* the header with its n > 0 sectors: "the real commit"
WriteHead(p) ==
  /\ pc[p] = "trans" /\ lh # <<>>
  /\ head' = lh /\ tail' = 1 /\ Goto(p, "install")
  /\ UNCHANGED <<disk, blocks, lh, mem, busy, asleep, boot>>

\* one round of install_trans, from the log to the disk and to the cache
InstallBlock ==
  /\ tail <= Len(lh)
  /\ disk' = [disk EXCEPT ![lh[tail]] = blocks[tail]]
  /\ mem' = [mem EXCEPT ![lh[tail]] = blocks[tail]]
  /\ tail' = tail + 1

Install(p) ==
  /\ pc[p] = "install" /\ InstallBlock
  /\ UNCHANGED <<blocks, head, lh, procs, boot>>

\* the header only written when there is something to erase
ClearLog_IfAny == lh # <<>> /\ tail > Len(lh) /\ lh' = <<>> /\ head' = <<>>

\* log.lh.n = 0; write_head()
ClearLog == tail > Len(lh) /\ lh' = <<>> /\ head' = <<>>

Erase(p) ==
  /\ pc[p] = "install" /\ ClearLog /\ Goto(p, "free")
  /\ UNCHANGED <<disk, blocks, mem, busy, asleep, boot, tail>>

Free_Silent(p) ==
  /\ pc[p] = "free" \/ (pc[p] = "trans" /\ lh = <<>>)
  /\ busy' = FALSE /\ Goto(p, "out")
  /\ UNCHANGED <<platter, lh, mem, asleep, boot, tail>>

\* log.busy = 0; wakeup(&log); at once when nothing was written
Free(p) ==
  /\ pc[p] = "free" \/ (pc[p] = "trans" /\ lh = <<>>)
  /\ busy' = FALSE /\ asleep' = {} /\ Goto(p, "out")
  /\ UNCHANGED <<platter, lh, mem, boot, tail>>

\* the machine stops: memory and processes are lost, the disk stays
Crash ==
  /\ boot' = "off"
  /\ lh' = <<>> /\ mem' = disk /\ tail' = 1
  /\ busy' = FALSE /\ asleep' = {} /\ pc' = [p \in Proc |-> "out"]
  /\ UNCHANGED platter

ReadHead ==
  /\ boot = "off" /\ lh' = head /\ boot' = "install"
  /\ UNCHANGED <<platter, mem, procs, tail>>

RecoverInstall ==
  /\ boot = "install" /\ InstallBlock
  /\ UNCHANGED <<blocks, head, lh, procs, boot>>

RecoverErase ==
  /\ boot = "install" /\ ClearLog /\ boot' = "up"
  /\ UNCHANGED <<disk, blocks, mem, procs, tail>>

-----------------------------------------------------------------------------
Commit(p) == WriteHead(p) \/ Install(p) \/ Erase(p) \/ Free(p)
Recover == ReadHead \/ RecoverInstall \/ RecoverErase

Next == \/ \E p \in Proc : \/ Begin(p) \/ Commit(p)
                           \/ \E s \in Sector, v \in Value : LogWrite(p, s, v)
        \/ Crash \/ Recover

Spec == Init /\ [][Next]_vars

\* The recovery runs, and a process that is inside a transaction ends it.
FairSpec == Spec /\ WF_vars(Recover) /\ \A p \in Proc : WF_vars(Commit(p))
-----------------------------------------------------------------------------
TypeOK ==
  /\ disk \in [Sector -> Value] /\ mem \in [Sector -> Value]
  /\ blocks \in [1..LOGSIZE -> Value]
  /\ head \in Seq(Sector) /\ Len(head) <= LOGSIZE
  /\ lh \in Seq(Sector) /\ Len(lh) <= LOGSIZE
  /\ busy \in BOOLEAN /\ asleep \in SUBSET Proc /\ pc \in [Proc -> PCs]
  /\ boot \in {"off", "install", "up"} /\ tail \in 1..LOGSIZE + 1

\* "begin_trans() ensures that only one system call can be in a transaction".
Inside == {p \in Proc : pc[p] \in {"trans", "install", "free"}}
OneTransaction ==
  /\ \A p, q \in Inside : p = q
  /\ busy <=> Inside # {}
  /\ boot # "up" => Inside = {}

\* Nobody sleeps for a log that is free.
NoLostWakeup == asleep # {} => busy

\* The sectors as the log h says they should be.
Redo(h) == [s \in Sector |-> IF In(s, h) THEN blocks[Index(s, h)] ELSE disk[s]]

\* Whoever reads a sector sees the writes of the transaction that runs and of
\* those before it, installed or not; when none runs, the disk is the same.
ReadsSeeWrites == boot = "up" => mem = Redo(lh)

\* The log implements transactions: with a header on the disk they count as
\* committed, whatever has been installed of them; without one, as pending.
State   == Redo(head)
Pending == IF head = <<>> THEN lh ELSE <<>>
Writes  == [s \in {t \in Sector : In(t, Pending)} |-> blocks[Index(s, Pending)]]

Promise == INSTANCE Transactions WITH state <- State, active <- busy, writes <- Writes

IsTransactional == Promise!Spec

\* When the machine does not stop any more, the recovery and every
\* transaction come to an end: whoever waits for the log is woken.
Settles ==
  <>[][~Crash]_vars => (boot # "up" \/ busy ~> boot = "up" /\ asleep = {})
=============================================================================
