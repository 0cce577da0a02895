----------------------------- MODULE LogProofs -----------------------------
(***************************************************************************)
(* What is proved about the redo log (module Log) for any processes,       *)
(* sectors, values and size of the log: its invariants, and that it        *)
(* implements transactions although the machine may stop at any time.      *)
(***************************************************************************)
EXTENDS Log, TLAPS

Once(h) == \A i, j \in 1..Len(h) : h[i] = h[j] => i = j

Installing == {p \in Proc : pc[p] = "install"}

\* The log is written in memory first and on the disk at the commit.
HeadInv ==
  /\ Once(lh) /\ Once(head)
  /\ boot = "off" => lh = <<>>
  /\ boot = "install" => lh = head
  /\ boot = "up" => IF Installing = {} THEN head = <<>> ELSE lh = head /\ lh # <<>>
  /\ boot = "up" /\ lh # <<>> => \E p \in Proc : pc[p] \in {"trans", "install"}

\* The blocks before tail are at home, and memory is the disk in a recovery.
InstallInv ==
  /\ boot = "install" \/ Installing # {} =>
       /\ tail <= Len(lh) + 1
       /\ \A i \in 1..Len(lh) : i < tail => disk[lh[i]] = blocks[i]
  /\ boot # "up" => mem = disk
  /\ boot = "off" => tail = 1

IInv == /\ TypeOK /\ OneTransaction /\ NoLostWakeup
        /\ HeadInv /\ InstallInv /\ ReadsSeeWrites

-----------------------------------------------------------------------------
\* A sector that is in a log once is found where it is.
LEMMA IndexIs ==
  ASSUME NEW h \in Seq(Sector), Once(h), NEW i \in 1..Len(h)
  PROVE  In(h[i], h) /\ Index(h[i], h) = i
<1>1. In(h[i], h)
  BY DEF In
<1>2. \E k \in 1..Len(h) : h[k] = h[i]
  OBVIOUS
<1>3. Index(h[i], h) \in 1..Len(h) /\ h[Index(h[i], h)] = h[i]
  BY <1>2 DEF Index
<1> QED BY <1>1, <1>3 DEF Once

LEMMA IndexIn ==
  ASSUME NEW h \in Seq(Sector), NEW s, In(s, h)
  PROVE  Index(s, h) \in 1..Len(h) /\ h[Index(s, h)] = s
BY DEF In, Index

\* Appending a sector that is not in the log leaves the others where they are.
LEMMA AppendLog ==
  ASSUME NEW h \in Seq(Sector), Once(h), NEW s \in Sector, ~In(s, h)
  PROVE  LET g == Append(h, s)
         IN  /\ g \in Seq(Sector) /\ Len(g) = Len(h) + 1 /\ Once(g)
             /\ In(s, g) /\ Index(s, g) = Len(h) + 1
             /\ \A t \in Sector : t # s => (In(t, g) <=> In(t, h))
             /\ \A t \in Sector : t # s /\ In(t, h) => Index(t, g) = Index(t, h)
<1> DEFINE g == Append(h, s)
<1>1. g \in Seq(Sector) /\ Len(g) = Len(h) + 1 /\ g[Len(h) + 1] = s
      /\ \A i \in 1..Len(h) : g[i] = h[i]
  OBVIOUS
<1>2. Once(g)
  BY <1>1 DEF Once, In
<1>3. In(s, g) /\ Index(s, g) = Len(h) + 1
  <2>1. Len(h) + 1 \in 1..Len(g)
    BY <1>1
  <2> HIDE DEF g
  <2> QED BY <1>1, <1>2, <2>1, IndexIs
<1>4. \A t \in Sector : t # s => (In(t, g) <=> In(t, h))
  BY <1>1 DEF In
<1>5. ASSUME NEW t \in Sector, t # s, In(t, h) PROVE Index(t, g) = Index(t, h)
  <2>1. Index(t, h) \in 1..Len(h) /\ h[Index(t, h)] = t
    BY <1>5, IndexIn
  <2>2. g[Index(t, h)] = t /\ Index(t, h) \in 1..Len(g)
    BY <2>1, <1>1
  <2> QED BY <2>2, <1>1, <1>2, IndexIs
<1> HIDE DEF g
<1> QED BY <1>1, <1>2, <1>3, <1>4, <1>5 DEF g

\* log_write: the header in memory, and where the data goes.
LEMMA LogWriteStep ==
  ASSUME TypeOK, HeadInv, NEW p \in Proc, NEW s \in Sector, NEW v \in Value,
         LogWrite(p, s, v)
  PROVE  /\ lh' \in Seq(Sector) /\ Len(lh') <= LOGSIZE /\ Once(lh') /\ lh' # <<>>
         /\ In(s, lh') /\ Index(s, lh') \in 1..LOGSIZE
         /\ blocks' = [blocks EXCEPT ![Index(s, lh')] = v]
         /\ \A t \in Sector : t # s => (In(t, lh') <=> In(t, lh))
         /\ \A t \in Sector : t # s /\ In(t, lh) =>
              Index(t, lh') = Index(t, lh) /\ Index(t, lh') # Index(s, lh')
<1> USE LogAssumption
<1>1. lh \in Seq(Sector) /\ Once(lh) /\ Len(lh) < LOGSIZE
  BY DEF TypeOK, HeadInv, LogWrite
<1>2. CASE In(s, lh)
  <2>1. lh' = lh /\ blocks' = [blocks EXCEPT ![Index(s, lh)] = v]
    BY <1>2 DEF LogWrite
  <2>2. Index(s, lh) \in 1..Len(lh) /\ lh[Index(s, lh)] = s
    BY <1>1, <1>2, IndexIn
  <2>3. \A t \in Sector : t # s /\ In(t, lh) => Index(t, lh) # Index(s, lh)
    BY <2>2, <1>1, IndexIn
  <2> QED BY <1>1, <1>2, <2>1, <2>2, <2>3
<1>3. CASE ~In(s, lh)
  <2>1. lh' = Append(lh, s) /\ blocks' = [blocks EXCEPT ![Len(lh) + 1] = v]
    BY <1>3 DEF LogWrite
  <2>2. /\ lh' \in Seq(Sector) /\ Len(lh') = Len(lh) + 1 /\ Once(lh')
        /\ In(s, lh') /\ Index(s, lh') = Len(lh) + 1
        /\ \A t \in Sector : t # s => (In(t, lh') <=> In(t, lh))
        /\ \A t \in Sector : t # s /\ In(t, lh) => Index(t, lh') = Index(t, lh)
    BY <1>1, <1>3, <2>1, AppendLog
  <2>3. \A t \in Sector : In(t, lh) => Index(t, lh) \in 1..Len(lh)
    BY <1>1, IndexIn
  <2>4. lh' # <<>>
    BY <2>2, <1>1
  <2> QED BY <1>1, <2>1, <2>2, <2>3, <2>4
<1> QED BY <1>2, <1>3

\* With an empty log the sectors are what is at home.
LEMMA RedoEmpty ==
  ASSUME TypeOK
  PROVE  Redo(<<>>) = disk
<1>1. \A s : ~In(s, <<>>)
  BY DEF In
<1> QED BY <1>1 DEF Redo, TypeOK

\* When every block is at home, the log says what the disk says.
LEMMA RedoInstalled ==
  ASSUME TypeOK, \A i \in 1..Len(lh) : disk[lh[i]] = blocks[i]
  PROVE  Redo(lh) = disk
<1>1. \A s \in Sector : In(s, lh) => blocks[Index(s, lh)] = disk[s]
  <2> TAKE s \in Sector
  <2> HAVE In(s, lh)
  <2>1. Index(s, lh) \in 1..Len(lh) /\ lh[Index(s, lh)] = s
    BY IndexIn DEF TypeOK
  <2> QED BY <2>1
<1>2. Redo(lh) = [s \in Sector |-> disk[s]]
  BY <1>1 DEF Redo
<1> QED BY <1>2 DEF TypeOK

\* Installing a block changes neither what the log says nor, when memory has
\* seen the writes, what memory says.
LEMMA InstallStep ==
  ASSUME TypeOK, Once(lh), InstallBlock, UNCHANGED <<blocks, lh>>
  PROVE  /\ Redo(lh)' = Redo(lh)
         /\ disk' \in [Sector -> Value] /\ mem' \in [Sector -> Value]
         /\ tail' \in 1..LOGSIZE + 1 /\ tail' <= Len(lh) + 1
         /\ mem = Redo(lh) => mem' = mem
         /\ mem = disk => mem' = disk'
         /\ (\A i \in 1..Len(lh) : i < tail => disk[lh[i]] = blocks[i]) =>
              \A i \in 1..Len(lh) : i < tail' => disk'[lh[i]] = blocks[i]
<1> USE LogAssumption
<1>1. /\ tail \in 1..Len(lh) /\ lh \in Seq(Sector) /\ Len(lh) \in Nat
      /\ Len(lh) <= LOGSIZE /\ tail \in 1..LOGSIZE
  BY DEF TypeOK, InstallBlock
<1>2. lh[tail] \in Sector /\ blocks[tail] \in Value
  BY <1>1 DEF TypeOK
<1>3. /\ disk' = [disk EXCEPT ![lh[tail]] = blocks[tail]]
      /\ mem' = [mem EXCEPT ![lh[tail]] = blocks[tail]]
      /\ tail' = tail + 1
  BY DEF InstallBlock
<1>4. disk' \in [Sector -> Value] /\ mem' \in [Sector -> Value]
  BY <1>2, <1>3 DEF TypeOK
<1>5. In(lh[tail], lh) /\ Index(lh[tail], lh) = tail
  BY <1>1, IndexIs
<1>6. Redo(lh)' = [s \in Sector |-> IF In(s, lh) THEN blocks[Index(s, lh)] ELSE disk'[s]]
  BY DEF Redo
<1>7. \A s \in Sector : ~In(s, lh) => disk'[s] = disk[s]
  BY <1>2, <1>3, <1>5 DEF TypeOK
<1>8. Redo(lh)' = Redo(lh)
  BY <1>6, <1>7 DEF Redo
<1>9. ASSUME mem = Redo(lh) PROVE mem' = mem
  <2>1. mem[lh[tail]] = blocks[tail]
    BY <1>2, <1>5, <1>9 DEF Redo
  <2> QED BY <1>2, <1>3, <2>1 DEF TypeOK
<1>10. ASSUME \A i \in 1..Len(lh) : i < tail => disk[lh[i]] = blocks[i],
              NEW i \in 1..Len(lh), i < tail'
       PROVE  disk'[lh[i]] = blocks[i]
  <2>1. lh[i] \in Sector
    BY <1>1
  <2>2. CASE i = tail
    BY <1>2, <1>3, <2>2 DEF TypeOK
  <2>3. CASE i # tail
    <3>1. i < tail /\ lh[i] # lh[tail]
      BY <1>1, <1>3, <1>10, <2>3 DEF Once
    <3> QED BY <1>2, <1>3, <1>10, <2>1, <3>1 DEF TypeOK
  <2> QED BY <2>2, <2>3
<1>11. tail' \in 1..LOGSIZE + 1 /\ tail' <= Len(lh) + 1
  BY <1>1, <1>3
<1>12. mem = disk => mem' = disk'
  BY <1>3
<1> QED BY <1>4, <1>8, <1>9, <1>10, <1>11, <1>12

-----------------------------------------------------------------------------
LEMMA InitIInv == Init => IInv
<1> SUFFICES ASSUME Init PROVE IInv
  OBVIOUS
<1> USE LogAssumption
<1>1. TypeOK
  <2>1. <<>> \in Seq(Sector) /\ Len(<<>>) = 0
    OBVIOUS
  <2>2. /\ head \in Seq(Sector) /\ Len(head) <= LOGSIZE
        /\ lh \in Seq(Sector) /\ Len(lh) <= LOGSIZE
    BY <2>1, LogAssumption DEF Init
  <2>3. tail \in 1..LOGSIZE + 1
    BY LogAssumption DEF Init
  <2> QED BY <2>2, <2>3 DEF Init, TypeOK, PCs
<1>2. OneTransaction /\ NoLostWakeup
  BY DEF Init, OneTransaction, NoLostWakeup, Inside
<1>3. HeadInv
  BY DEF Init, HeadInv, Once
<1>4. InstallInv
  BY DEF Init, InstallInv, Installing
<1>5. ReadsSeeWrites
  BY DEF Init, ReadsSeeWrites
<1> QED BY <1>1, <1>2, <1>3, <1>4, <1>5 DEF IInv

\* begin_trans: the process sleeps, or it is alone inside.
LEMMA BeginStep ==
  ASSUME IInv, NEW p \in Proc, Begin(p)
  PROVE  IInv'
<1>1. TypeOK'
  BY DEF IInv, TypeOK, Begin, Goto, PCs, platter
<1>2. (OneTransaction /\ NoLostWakeup)'
  <2>1. CASE busy
    <3>1. Inside' = Inside /\ busy' = busy
      BY <2>1 DEF IInv, TypeOK, Begin, Goto, Inside
    <3> QED BY <2>1, <3>1 DEF IInv, Begin, OneTransaction, NoLostWakeup
  <2>2. CASE ~busy
    <3>1. Inside = {} /\ busy' = TRUE /\ boot' = "up"
      BY <2>2 DEF IInv, Begin, OneTransaction
    <3>2. Inside' = {p}
      BY <2>2, <3>1 DEF IInv, TypeOK, Begin, Goto, Inside
    <3> QED BY <3>1, <3>2 DEF OneTransaction, NoLostWakeup
  <2> QED BY <2>1, <2>2
<1>3. Installing' = Installing /\ UNCHANGED <<disk, blocks, head, lh, mem, boot, tail>>
  BY DEF IInv, TypeOK, Begin, Goto, Installing, platter
<1>4. HeadInv'
  <2>1. ASSUME boot = "up", lh # <<>> PROVE \E q \in Proc : pc'[q] \in {"trans", "install"}
    <3>1. PICK q \in Proc : pc[q] \in {"trans", "install"}
      BY <2>1 DEF IInv, HeadInv
    <3>2. q # p
      BY <3>1 DEF Begin
    <3> QED BY <3>1, <3>2 DEF IInv, TypeOK, Begin, Goto
  <2> QED BY <1>3, <2>1 DEF IInv, HeadInv
<1>5. InstallInv'
  BY <1>3 DEF IInv, InstallInv
<1>6. ReadsSeeWrites'
  BY <1>3 DEF IInv, ReadsSeeWrites, Redo
<1> QED BY <1>1, <1>2, <1>4, <1>5, <1>6 DEF IInv

\* log_write: the sector is in the log once, and its block is what memory has.
LEMMA LogWriteKeepsIInv ==
  ASSUME IInv, NEW p \in Proc, NEW s \in Sector, NEW v \in Value, LogWrite(p, s, v)
  PROVE  IInv'
<1> USE LogAssumption
<1>1. /\ lh' \in Seq(Sector) /\ Len(lh') <= LOGSIZE /\ Once(lh') /\ lh' # <<>>
      /\ In(s, lh') /\ Index(s, lh') \in 1..LOGSIZE
      /\ blocks' = [blocks EXCEPT ![Index(s, lh')] = v]
      /\ \A t \in Sector : t # s => (In(t, lh') <=> In(t, lh))
      /\ \A t \in Sector : t # s /\ In(t, lh) =>
           Index(t, lh') = Index(t, lh) /\ Index(t, lh') # Index(s, lh')
  BY LogWriteStep DEF IInv
<1>2. /\ pc[p] = "trans" /\ mem' = [mem EXCEPT ![s] = v]
      /\ UNCHANGED <<disk, head, busy, asleep, pc, boot, tail>>
  BY DEF LogWrite, procs
<1>3. TypeOK'
  BY <1>1, <1>2 DEF IInv, TypeOK
<1>4. Inside' = Inside /\ Installing' = Installing /\ p \in Inside
  BY <1>2 DEF Inside, Installing
<1>5. boot = "up" /\ Installing = {}
  <2>1. \A q \in Installing : q = p
    BY <1>4 DEF IInv, OneTransaction, Inside, Installing
  <2> QED BY <1>2, <1>4, <2>1 DEF IInv, OneTransaction, Installing
<1>6. (OneTransaction /\ NoLostWakeup)'
  BY <1>2, <1>4 DEF IInv, OneTransaction, NoLostWakeup
<1>7. HeadInv'
  BY <1>1, <1>2, <1>4, <1>5 DEF IInv, HeadInv
<1>8. InstallInv'
  BY <1>2, <1>4, <1>5 DEF IInv, InstallInv
<1>9. ReadsSeeWrites'
  <2>1. mem = Redo(lh)
    BY <1>5 DEF IInv, ReadsSeeWrites
  <2>2. mem'[s] = v /\ blocks'[Index(s, lh')] = v
    BY <1>1, <1>2 DEF IInv, TypeOK
  <2>3. ASSUME NEW t \in Sector, t # s
        PROVE  mem'[t] = IF In(t, lh') THEN blocks'[Index(t, lh')] ELSE disk'[t]
    <3>1. mem'[t] = IF In(t, lh) THEN blocks[Index(t, lh)] ELSE disk[t]
      BY <1>2, <2>1, <2>3 DEF IInv, TypeOK, Redo
    <3>2. In(t, lh) => blocks'[Index(t, lh')] = blocks[Index(t, lh)]
      <4> HAVE In(t, lh)
      <4>1. Index(t, lh) \in 1..LOGSIZE
        BY IndexIn DEF IInv, TypeOK
      <4> QED BY <1>1, <2>3, <4>1 DEF IInv, TypeOK
    <3> QED BY <1>1, <1>2, <2>3, <3>1, <3>2
  <2>4. mem' = [t \in Sector |-> IF In(t, lh') THEN blocks'[Index(t, lh')] ELSE disk'[t]]
    BY <1>1, <1>3, <2>2, <2>3 DEF TypeOK
  <2> QED BY <2>4 DEF ReadsSeeWrites, Redo
<1> QED BY <1>3, <1>6, <1>7, <1>8, <1>9 DEF IInv

\* The process inside a transaction is alone, and the recovery is over.
LEMMA Alone ==
  ASSUME IInv, NEW p \in Inside
  PROVE  Inside = {p} /\ busy /\ boot = "up"
BY DEF IInv, OneTransaction

LEMMA WriteHeadStep ==
  ASSUME IInv, NEW p \in Proc, WriteHead(p)
  PROVE  IInv'
<1> USE LogAssumption
<1>1. /\ pc[p] = "trans" /\ lh # <<>> /\ head' = lh /\ tail' = 1
      /\ pc' = [pc EXCEPT ![p] = "install"]
      /\ UNCHANGED <<disk, blocks, lh, mem, busy, asleep, boot>>
  BY DEF WriteHead, Goto
<1>2. p \in Inside /\ Inside = {p} /\ busy /\ boot = "up"
  BY <1>1, Alone DEF Inside
<1>3. Inside' = {p} /\ Installing' = {p} /\ pc'[p] = "install"
  BY <1>1, <1>2 DEF IInv, TypeOK, Inside, Installing
<1>4. TypeOK'
  BY <1>1 DEF IInv, TypeOK, PCs
<1>5. (OneTransaction /\ NoLostWakeup)'
  BY <1>1, <1>2, <1>3 DEF OneTransaction, NoLostWakeup
<1>6. HeadInv'
  BY <1>1, <1>2, <1>3 DEF IInv, HeadInv
<1>7. InstallInv'
  <2>1. Len(lh) \in Nat /\ tail' <= Len(lh) + 1 /\ \A i \in 1..Len(lh) : ~(i < tail')
    BY <1>1 DEF IInv, TypeOK
  <2> QED BY <1>1, <1>2, <2>1 DEF InstallInv
<1>8. ReadsSeeWrites'
  BY <1>1 DEF IInv, ReadsSeeWrites, Redo
<1> QED BY <1>4, <1>5, <1>6, <1>7, <1>8 DEF IInv

LEMMA InstallKeepsIInv ==
  ASSUME IInv, NEW p \in Proc, Install(p)
  PROVE  IInv'
<1>1. /\ pc[p] = "install" /\ InstallBlock
      /\ UNCHANGED <<blocks, head, lh, busy, asleep, pc, boot>>
  BY DEF Install, procs
<1>2. p \in Inside /\ p \in Installing /\ boot = "up"
  BY <1>1, Alone DEF Inside, Installing
<1>3. /\ Redo(lh)' = Redo(lh)
      /\ disk' \in [Sector -> Value] /\ mem' \in [Sector -> Value]
      /\ tail' \in 1..LOGSIZE + 1 /\ tail' <= Len(lh) + 1
      /\ mem = Redo(lh) => mem' = mem
      /\ (\A i \in 1..Len(lh) : i < tail => disk[lh[i]] = blocks[i]) =>
           \A i \in 1..Len(lh) : i < tail' => disk'[lh[i]] = blocks[i]
  BY <1>1, InstallStep DEF IInv, HeadInv
<1>4. TypeOK'
  BY <1>1, <1>3 DEF IInv, TypeOK
<1>5. Inside' = Inside /\ Installing' = Installing
  BY <1>1 DEF Inside, Installing
<1>6. (OneTransaction /\ NoLostWakeup)'
  BY <1>1, <1>5 DEF IInv, OneTransaction, NoLostWakeup
<1>7. HeadInv'
  BY <1>1, <1>5 DEF IInv, HeadInv
<1>8. InstallInv'
  BY <1>1, <1>2, <1>3 DEF IInv, InstallInv
<1>9. ReadsSeeWrites'
  BY <1>2, <1>3 DEF IInv, ReadsSeeWrites
<1> QED BY <1>4, <1>6, <1>7, <1>8, <1>9 DEF IInv

\* The header is erased when every block is at home.
LEMMA EraseStep ==
  ASSUME IInv, NEW p \in Proc, Erase(p)
  PROVE  IInv' /\ Redo(head)' = Redo(head)
<1> USE LogAssumption
<1>1. /\ pc[p] = "install" /\ tail > Len(lh) /\ lh' = <<>> /\ head' = <<>>
      /\ pc' = [pc EXCEPT ![p] = "free"]
      /\ UNCHANGED <<disk, blocks, mem, busy, asleep, boot, tail>>
  BY DEF Erase, ClearLog, Goto
<1>2. p \in Inside /\ p \in Installing /\ Inside = {p} /\ busy /\ boot = "up"
  BY <1>1, Alone DEF Inside, Installing
<1>3. Inside' = {p} /\ Installing' = {}
  BY <1>1, <1>2 DEF IInv, TypeOK, Inside, Installing
<1>4. TypeOK'
  <2>1. <<>> \in Seq(Sector) /\ Len(<<>>) = 0
    OBVIOUS
  <2>2. lh' \in Seq(Sector) /\ Len(lh') <= LOGSIZE /\ head' \in Seq(Sector)
        /\ Len(head') <= LOGSIZE
    BY <1>1, <2>1, LogAssumption
  <2> QED BY <1>1, <2>2 DEF IInv, TypeOK, PCs
<1>5. (OneTransaction /\ NoLostWakeup)'
  BY <1>1, <1>2, <1>3 DEF OneTransaction, NoLostWakeup
<1>6. HeadInv'
  BY <1>1, <1>2, <1>3 DEF HeadInv, Once
<1>7. InstallInv'
  BY <1>1, <1>2, <1>3 DEF InstallInv
<1>8. Redo(lh) = disk
  <2>1. \A i \in 1..Len(lh) : i < tail
    BY <1>1 DEF IInv, TypeOK
  <2>2. \A i \in 1..Len(lh) : disk[lh[i]] = blocks[i]
    BY <1>2, <2>1 DEF IInv, InstallInv
  <2> QED BY <2>2, RedoInstalled DEF IInv
<1>9. Redo(<<>>)' = disk /\ Redo(<<>>) = disk
  BY <1>1, RedoEmpty DEF IInv, Redo
<1>10. ReadsSeeWrites'
  BY <1>1, <1>2, <1>8, <1>9 DEF IInv, ReadsSeeWrites, Redo
<1>11. head = lh
  BY <1>2 DEF IInv, HeadInv
<1>12. Redo(head)' = Redo(head)
  BY <1>1, <1>8, <1>9, <1>11 DEF Redo
<1> QED BY <1>4, <1>5, <1>6, <1>7, <1>10, <1>12 DEF IInv

LEMMA FreeStep ==
  ASSUME IInv, NEW p \in Proc, Free(p)
  PROVE  IInv'
<1>1. /\ pc[p] = "free" \/ (pc[p] = "trans" /\ lh = <<>>)
      /\ busy' = FALSE /\ asleep' = {} /\ pc' = [pc EXCEPT ![p] = "out"]
      /\ UNCHANGED <<disk, blocks, head, lh, mem, boot, tail>>
  BY DEF Free, Goto, platter
<1>2. p \in Inside /\ Inside = {p} /\ busy /\ boot = "up"
  BY <1>1, Alone DEF Inside
<1>3. Inside' = {} /\ Installing' = {} /\ Installing = {}
  BY <1>1, <1>2 DEF IInv, TypeOK, Inside, Installing
<1>4. lh = <<>>
  BY <1>1, <1>2 DEF IInv, HeadInv, Inside
<1>5. TypeOK'
  BY <1>1 DEF IInv, TypeOK, PCs
<1>6. (OneTransaction /\ NoLostWakeup)'
  BY <1>1, <1>3 DEF OneTransaction, NoLostWakeup
<1>7. HeadInv'
  BY <1>1, <1>2, <1>3, <1>4 DEF IInv, HeadInv
<1>8. InstallInv'
  BY <1>1, <1>2, <1>3 DEF InstallInv
<1>9. ReadsSeeWrites'
  BY <1>1 DEF IInv, ReadsSeeWrites, Redo
<1> QED BY <1>5, <1>6, <1>7, <1>8, <1>9 DEF IInv

\* Whatever was installed before the machine stopped, the header on the disk
\* still names every block there is to install.
LEMMA CrashStep ==
  ASSUME IInv, Crash
  PROVE  IInv'
<1> USE LogAssumption
<1>1. /\ boot' = "off" /\ lh' = <<>> /\ mem' = disk /\ tail' = 1
      /\ busy' = FALSE /\ asleep' = {} /\ pc' = [p \in Proc |-> "out"]
      /\ UNCHANGED <<disk, blocks, head>>
  BY DEF Crash, platter
<1>2. Inside' = {} /\ Installing' = {}
  BY <1>1 DEF Inside, Installing
<1>3. TypeOK'
  <2>1. <<>> \in Seq(Sector) /\ Len(<<>>) = 0
    OBVIOUS
  <2>2. lh' \in Seq(Sector) /\ Len(lh') <= LOGSIZE /\ tail' \in 1..LOGSIZE + 1
    BY <1>1, <2>1, LogAssumption
  <2> QED BY <1>1, <2>2 DEF IInv, TypeOK, PCs
<1>4. (OneTransaction /\ NoLostWakeup)'
  BY <1>1, <1>2 DEF OneTransaction, NoLostWakeup
<1>5. HeadInv'
  BY <1>1 DEF IInv, HeadInv, Once
<1>6. InstallInv' /\ ReadsSeeWrites'
  BY <1>1, <1>2 DEF InstallInv, ReadsSeeWrites
<1> QED BY <1>3, <1>4, <1>5, <1>6 DEF IInv

\* Nobody is inside before the recovery is over.
LEMMA Nobody ==
  ASSUME IInv, boot # "up"
  PROVE  Inside = {} /\ Installing = {} /\ busy = FALSE /\ asleep = {} /\ mem = disk
<1>1. Inside = {}
  BY DEF IInv, OneTransaction
<1>2. Installing = {}
  BY <1>1 DEF Inside, Installing
<1> QED BY <1>1, <1>2 DEF IInv, TypeOK, OneTransaction, NoLostWakeup, InstallInv

LEMMA ReadHeadStep ==
  ASSUME IInv, ReadHead
  PROVE  IInv'
<1>1. /\ boot = "off" /\ lh' = head /\ boot' = "install"
      /\ UNCHANGED <<disk, blocks, head, mem, busy, asleep, pc, tail>>
  BY DEF ReadHead, platter, procs
<1>2. Inside' = {} /\ busy' = FALSE /\ asleep' = {} /\ mem' = disk'
  BY <1>1, Nobody DEF Inside
<1>3. TypeOK'
  BY <1>1 DEF IInv, TypeOK
<1>4. (OneTransaction /\ NoLostWakeup)'
  BY <1>1, <1>2 DEF OneTransaction, NoLostWakeup
<1>5. HeadInv'
  BY <1>1 DEF IInv, HeadInv
<1>6. InstallInv'
  <2>1. tail' = 1 /\ Len(lh') \in Nat
    BY <1>1 DEF IInv, InstallInv, TypeOK
  <2> QED BY <1>1, <1>2, <2>1 DEF InstallInv
<1>7. ReadsSeeWrites'
  BY <1>1 DEF ReadsSeeWrites
<1> QED BY <1>3, <1>4, <1>5, <1>6, <1>7 DEF IInv

LEMMA RecoverInstallStep ==
  ASSUME IInv, RecoverInstall
  PROVE  IInv' /\ Redo(lh)' = Redo(lh)
<1>1. /\ boot = "install" /\ InstallBlock
      /\ UNCHANGED <<blocks, head, lh, busy, asleep, pc, boot>>
  BY DEF RecoverInstall, procs
<1>2. Inside = {} /\ Installing = {} /\ busy = FALSE /\ asleep = {} /\ mem = disk
  BY <1>1, Nobody
<1>3. /\ Redo(lh)' = Redo(lh)
      /\ disk' \in [Sector -> Value] /\ mem' \in [Sector -> Value]
      /\ tail' \in 1..LOGSIZE + 1 /\ tail' <= Len(lh) + 1
      /\ mem = disk => mem' = disk'
      /\ (\A i \in 1..Len(lh) : i < tail => disk[lh[i]] = blocks[i]) =>
           \A i \in 1..Len(lh) : i < tail' => disk'[lh[i]] = blocks[i]
  BY <1>1, InstallStep DEF IInv, HeadInv
<1>4. TypeOK'
  BY <1>1, <1>3 DEF IInv, TypeOK
<1>5. Inside' = {} /\ Installing' = {}
  BY <1>1, <1>2 DEF Inside, Installing
<1>6. (OneTransaction /\ NoLostWakeup)'
  BY <1>1, <1>2, <1>5 DEF OneTransaction, NoLostWakeup
<1>7. HeadInv'
  BY <1>1 DEF IInv, HeadInv
<1>8. InstallInv'
  BY <1>1, <1>2, <1>3 DEF IInv, InstallInv
<1>9. ReadsSeeWrites'
  BY <1>1 DEF ReadsSeeWrites
<1> QED BY <1>3, <1>4, <1>6, <1>7, <1>8, <1>9 DEF IInv

LEMMA RecoverEraseStep ==
  ASSUME IInv, RecoverErase
  PROVE  IInv' /\ Redo(head)' = Redo(head)
<1>1. /\ boot = "install" /\ tail > Len(lh) /\ lh' = <<>> /\ head' = <<>>
      /\ boot' = "up"
      /\ UNCHANGED <<disk, blocks, mem, busy, asleep, pc, tail>>
  BY DEF RecoverErase, ClearLog, procs
<1>2. Inside = {} /\ Installing = {} /\ busy = FALSE /\ asleep = {} /\ mem = disk
  BY <1>1, Nobody
<1>3. Inside' = {} /\ Installing' = {}
  BY <1>1, <1>2 DEF Inside, Installing
<1>4. TypeOK'
  <2>1. <<>> \in Seq(Sector) /\ Len(<<>>) = 0
    OBVIOUS
  <2>2. lh' \in Seq(Sector) /\ Len(lh') <= LOGSIZE /\ head' \in Seq(Sector)
        /\ Len(head') <= LOGSIZE
    BY <1>1, <2>1, LogAssumption
  <2> QED BY <1>1, <2>2 DEF IInv, TypeOK
<1>5. (OneTransaction /\ NoLostWakeup)'
  BY <1>1, <1>2, <1>3 DEF OneTransaction, NoLostWakeup
<1>6. HeadInv'
  BY <1>1, <1>3 DEF HeadInv, Once
<1>7. InstallInv'
  BY <1>1, <1>3 DEF InstallInv
<1>8. Redo(lh) = disk
  <2>1. \A i \in 1..Len(lh) : i < tail
    BY <1>1 DEF IInv, TypeOK
  <2>2. \A i \in 1..Len(lh) : disk[lh[i]] = blocks[i]
    BY <1>1, <2>1 DEF IInv, InstallInv
  <2> QED BY <2>2, RedoInstalled DEF IInv
<1>9. Redo(<<>>)' = disk /\ Redo(<<>>) = disk
  BY <1>1, RedoEmpty DEF IInv, Redo
<1>10. ReadsSeeWrites'
  BY <1>1, <1>2, <1>9 DEF ReadsSeeWrites, Redo
<1>11. Redo(head)' = Redo(head)
  BY <1>1, <1>8, <1>9 DEF IInv, HeadInv, Redo
<1> QED BY <1>4, <1>5, <1>6, <1>7, <1>10, <1>11 DEF IInv

LEMMA StutterStep ==
  ASSUME IInv, UNCHANGED vars
  PROVE  IInv'
<1>1. UNCHANGED <<disk, blocks, head, lh, mem, busy, asleep, pc, boot, tail>>
  BY DEF vars, platter, procs
<1>2. Inside' = Inside /\ Installing' = Installing
  BY <1>1 DEF Inside, Installing
<1> QED BY <1>1, <1>2 DEF IInv, TypeOK, OneTransaction, NoLostWakeup, HeadInv,
                         InstallInv, ReadsSeeWrites, Redo

LEMMA InductiveInvariant == Spec => []IInv
<1>1. ASSUME IInv, [Next]_vars PROVE IInv'
  <2>1. CASE \E p \in Proc : Begin(p)
    BY <1>1, <2>1, BeginStep
  <2>2. CASE \E p \in Proc, s \in Sector, v \in Value : LogWrite(p, s, v)
    BY <1>1, <2>2, LogWriteKeepsIInv
  <2>3. CASE \E p \in Proc : Commit(p)
    BY <1>1, <2>3, WriteHeadStep, InstallKeepsIInv, EraseStep, FreeStep DEF Commit
  <2>4. CASE Crash
    BY <1>1, <2>4, CrashStep
  <2>5. CASE Recover
    BY <1>1, <2>5, ReadHeadStep, RecoverInstallStep, RecoverEraseStep DEF Recover
  <2>6. CASE UNCHANGED vars
    BY <1>1, <2>6, StutterStep
  <2> QED BY <1>1, <2>1, <2>2, <2>3, <2>4, <2>5, <2>6 DEF Next
<1> QED BY <1>1, InitIInv, PTL DEF Spec

-----------------------------------------------------------------------------
\* The state of the log has the types of log.c, and a transaction never runs
\* over the end of the log on the disk.
THEOREM TypeCorrect == Spec => []TypeOK
BY InductiveInvariant, PTL DEF IInv

\* begin_trans: one system call at a time is in a transaction.
THEOREM OneTransactionCorrect == Spec => []OneTransaction
BY InductiveInvariant, PTL DEF IInv

\* begin_trans, commit_trans: nobody is left asleep when the log is free.
THEOREM WakeupsAreNotLost == Spec => []NoLostWakeup
BY InductiveInvariant, PTL DEF IInv

\* log_write, install_trans: the cache shows the writes of the transaction.
THEOREM ReadsCorrect == Spec => []ReadsSeeWrites
BY InductiveInvariant, PTL DEF IInv

-----------------------------------------------------------------------------
\* Nothing is pending in an empty log.
LEMMA NothingPending ==
  ASSUME Pending = <<>>
  PROVE  Writes = Promise!Nothing
<1>1. {t \in Sector : In(t, <<>>)} = {}
  BY DEF In
<1> QED BY <1>1 DEF Writes, Promise!Nothing

LEMMA SameLog ==
  ASSUME UNCHANGED <<disk, blocks, head, lh, busy>>
  PROVE  UNCHANGED Promise!vars
BY DEF Promise!vars, State, Writes, Pending, Redo

LEMMA InitImplements == ASSUME Init PROVE Promise!Init
<1>1. IInv /\ head = <<>> /\ Pending = <<>> /\ busy = FALSE
  BY InitIInv DEF Init, Pending
<1>2. State = disk /\ disk \in [Sector -> Value]
  BY <1>1, RedoEmpty DEF IInv, TypeOK, State
<1> QED BY <1>1, <1>2, NothingPending DEF Promise!Init

\* While a transaction writes, the log is pending and the disk is what is
\* committed.
LEMMA BeforeCommit ==
  ASSUME IInv, NEW p \in Proc, pc[p] = "trans"
  PROVE  /\ busy /\ boot = "up" /\ Installing = {} /\ head = <<>>
         /\ Pending = lh /\ State = disk
<1>1. p \in Inside
  BY DEF Inside
<1>2. Inside = {p} /\ busy /\ boot = "up"
  BY <1>1, Alone
<1>3. Installing = {}
  BY <1>2 DEF Inside, Installing
<1>4. head = <<>>
  BY <1>2, <1>3 DEF IInv, HeadInv
<1>5. State = disk
  BY <1>4, RedoEmpty DEF IInv, State
<1> QED BY <1>2, <1>3, <1>4, <1>5 DEF Pending

LEMMA LogWriteImplements ==
  ASSUME IInv, NEW p \in Proc, NEW s \in Sector, NEW v \in Value, LogWrite(p, s, v)
  PROVE  Promise!Write(s, v)
<1> USE LogAssumption
<1>1. /\ pc[p] = "trans" /\ UNCHANGED <<disk, head, busy>>
  BY DEF LogWrite, procs
<1>2. busy /\ head = <<>> /\ Pending = lh /\ State = disk
  BY <1>1, BeforeCommit
<1>3. Pending' = lh' /\ State' = State
  <2>1. Redo(<<>>)' = disk'
    BY LogWriteKeepsIInv, RedoEmpty, <1>1 DEF IInv, Redo, In, TypeOK
  <2> QED BY <1>1, <1>2, <2>1 DEF Pending, State
<1>4. /\ In(s, lh') /\ Index(s, lh') \in 1..LOGSIZE
      /\ blocks' = [blocks EXCEPT ![Index(s, lh')] = v]
      /\ \A t \in Sector : t # s => (In(t, lh') <=> In(t, lh))
      /\ \A t \in Sector : t # s /\ In(t, lh) =>
           Index(t, lh') = Index(t, lh) /\ Index(t, lh') # Index(s, lh')
  BY LogWriteStep DEF IInv
<1>5. Writes = [t \in {u \in Sector : In(u, lh)} |-> blocks[Index(t, lh)]]
  BY <1>2 DEF Writes
<1>6. Writes' = [t \in {u \in Sector : In(u, lh')} |-> blocks'[Index(t, lh')]]
  BY <1>3 DEF Writes
<1>7. {u \in Sector : In(u, lh')} = {u \in Sector : In(u, lh)} \cup {s}
  BY <1>4
<1>8. blocks'[Index(s, lh')] = v
  BY <1>4 DEF IInv, TypeOK
<1>9. ASSUME NEW t \in Sector, In(t, lh), t # s
      PROVE  blocks'[Index(t, lh')] = blocks[Index(t, lh)]
  <2>1. Index(t, lh) \in 1..LOGSIZE
    BY <1>9, IndexIn DEF IInv, TypeOK
  <2> QED BY <1>4, <1>9, <2>1 DEF IInv, TypeOK
<1>10. DOMAIN Writes = {u \in Sector : In(u, lh)}
  BY <1>5
<1>11. Writes' = [t \in DOMAIN Writes \cup {s} |-> IF t = s THEN v ELSE Writes[t]]
  BY <1>5, <1>6, <1>7, <1>8, <1>9, <1>10
<1> QED BY <1>1, <1>2, <1>3, <1>11 DEF Promise!Write

\* The header on the disk is the commit: what was pending is the state.
LEMMA WriteHeadImplements ==
  ASSUME IInv, NEW p \in Proc, WriteHead(p)
  PROVE  Promise!Commit
<1>1. /\ pc[p] = "trans" /\ lh # <<>> /\ head' = lh
      /\ UNCHANGED <<disk, blocks, lh, busy>>
  BY DEF WriteHead
<1>2. busy /\ Pending = lh /\ State = disk
  BY <1>1, BeforeCommit
<1>3. Writes' = Promise!Nothing
  <2>1. Pending' = <<>>
    BY <1>1 DEF Pending
  <2> QED BY <2>1, <1>1 DEF Writes, Promise!Nothing, In
<1>4. Writes = [t \in {u \in Sector : In(u, lh)} |-> blocks[Index(t, lh)]]
  BY <1>2 DEF Writes
<1>5. State' = [t \in Sector |-> IF In(t, lh) THEN blocks[Index(t, lh)] ELSE disk[t]]
  BY <1>1 DEF State, Redo
<1>6. DOMAIN Writes = {u \in Sector : In(u, lh)} /\ DOMAIN disk = Sector
  BY <1>4 DEF IInv, TypeOK
<1>7. Promise!Changed(State, Writes)
        = [t \in Sector |-> IF t \in DOMAIN Writes THEN Writes[t] ELSE disk[t]]
  BY <1>2, <1>6 DEF Promise!Changed
<1>8. State' = Promise!Changed(State, Writes)
  BY <1>4, <1>5, <1>6, <1>7
<1> QED BY <1>1, <1>2, <1>3, <1>8 DEF Promise!Commit

\* With a header on the disk, or none in memory, nothing is pending.
LEMMA Quiet ==
  ASSUME Pending = <<>>, Pending' = <<>>, State' = State, busy' = busy
  PROVE  UNCHANGED Promise!vars
<1>1. {t \in Sector : In(t, <<>>)} = {}
  BY DEF In
<1>2. Writes' = Writes
  BY <1>1 DEF Writes
<1> QED BY <1>2 DEF Promise!vars

LEMMA CommitImplements ==
  ASSUME IInv, NEW p \in Proc, Commit(p)
  PROVE  [Promise!Next]_(Promise!vars)
<1>1. CASE WriteHead(p)
  BY <1>1, WriteHeadImplements DEF Promise!Next
<1>2. ASSUME pc[p] = "install" PROVE lh = head /\ Pending = <<>>
  <2>1. p \in Installing /\ boot = "up"
    BY <1>2, Alone DEF Inside, Installing
  <2>2. lh = head /\ lh # <<>>
    BY <2>1 DEF IInv, HeadInv
  <2> QED BY <2>2 DEF Pending
<1>3. CASE Install(p)
  <2>1. pc[p] = "install" /\ InstallBlock /\ UNCHANGED <<blocks, lh, head, busy>>
    BY <1>3 DEF Install, procs
  <2>2. Redo(lh)' = Redo(lh)
    BY <2>1, InstallStep DEF IInv, HeadInv
  <2>3. State' = State /\ Pending' = Pending
    BY <1>2, <2>1, <2>2 DEF State, Pending, Redo
  <2> QED BY <1>2, <2>1, <2>3, Quiet
<1>4. CASE Erase(p)
  <2>1. pc[p] = "install" /\ lh' = <<>> /\ head' = <<>> /\ busy' = busy
    BY <1>4 DEF Erase, ClearLog
  <2>2. State' = State /\ Pending' = <<>>
    BY <1>4, <2>1, EraseStep DEF State, Pending
  <2> QED BY <1>2, <2>1, <2>2, Quiet
<1>5. CASE Free(p)
  <2>1. /\ pc[p] = "free" \/ (pc[p] = "trans" /\ lh = <<>>)
        /\ busy' = FALSE /\ UNCHANGED <<disk, blocks, head, lh>>
    BY <1>5 DEF Free, platter
  <2>2. busy /\ boot = "up" /\ Inside = {p}
    BY <2>1, Alone DEF Inside
  <2>3. lh = <<>>
    BY <2>1, <2>2 DEF IInv, HeadInv, Inside
  <2>4. Writes = Promise!Nothing
    BY <2>3, NothingPending DEF Pending
  <2>5. State' = State /\ Writes' = Writes
    BY <2>1 DEF State, Writes, Pending, Redo
  <2> QED BY <2>1, <2>2, <2>4, <2>5 DEF Promise!Next, Promise!End
<1> QED BY <1>1, <1>3, <1>4, <1>5 DEF Commit

LEMMA CrashImplements == ASSUME IInv, Crash PROVE Promise!Crash
<1>1. /\ lh' = <<>> /\ busy' = FALSE /\ UNCHANGED <<disk, blocks, head>>
  BY DEF Crash, platter
<1>2. State' = State /\ Pending' = <<>>
  BY <1>1 DEF State, Pending, Redo
<1>3. Writes' = Promise!Nothing
  BY <1>2 DEF Writes, Promise!Nothing, In
<1> QED BY <1>1, <1>2, <1>3 DEF Promise!Crash

\* The recovery changes nothing that a transaction promised.
LEMMA RecoverImplements ==
  ASSUME IInv, Recover
  PROVE  UNCHANGED Promise!vars
<1>1. CASE ReadHead
  <2>1. boot = "off" /\ lh' = head /\ UNCHANGED <<disk, blocks, head, busy>>
    BY <1>1 DEF ReadHead, platter, procs
  <2>2. Pending = <<>> /\ Pending' = <<>>
    BY <2>1 DEF IInv, HeadInv, Pending
  <2>3. State' = State
    BY <2>1 DEF State, Redo
  <2> QED BY <2>1, <2>2, <2>3, Quiet
<1>2. CASE RecoverInstall
  <2>1. boot = "install" /\ UNCHANGED <<lh, head, busy>>
    BY <1>2 DEF RecoverInstall, procs
  <2>2. lh = head /\ Pending = <<>> /\ Pending' = <<>>
    BY <2>1 DEF IInv, HeadInv, Pending
  <2>3. State' = State
    BY <1>2, <2>1, <2>2, RecoverInstallStep DEF State, Redo
  <2> QED BY <2>1, <2>2, <2>3, Quiet
<1>3. CASE RecoverErase
  <2>1. boot = "install" /\ lh' = <<>> /\ head' = <<>> /\ busy' = busy
    BY <1>3 DEF RecoverErase, ClearLog, procs
  <2>2. Pending = <<>> /\ Pending' = <<>>
    BY <2>1 DEF IInv, HeadInv, Pending
  <2> QED BY <1>3, <2>1, <2>2, RecoverEraseStep, Quiet DEF State
<1> QED BY <1>1, <1>2, <1>3 DEF Recover

\* begin_trans, log_write, commit_trans, recover_from_log: a transaction reaches
\* the disk as a whole or not at all, wherever the machine stops.
THEOREM ImplementsTransactions == Spec => IsTransactional
<1>1. Init => Promise!Init
  BY InitImplements
<1>2. ASSUME IInv, [Next]_vars PROVE [Promise!Next]_(Promise!vars)
  <2>1. ASSUME NEW p \in Proc, Begin(p) PROVE [Promise!Next]_(Promise!vars)
    <3>1. UNCHANGED <<disk, blocks, head, lh>>
      BY <2>1 DEF Begin, platter
    <3>2. CASE busy
      BY <2>1, <3>1, <3>2, SameLog DEF Begin
    <3>3. CASE ~busy
      <4>1. busy' = TRUE
        BY <2>1, <3>3 DEF Begin
      <4>2. State' = State /\ Writes' = Writes
        BY <3>1 DEF State, Writes, Pending, Redo
      <4> QED BY <3>3, <4>1, <4>2 DEF Promise!Next, Promise!Begin
    <3> QED BY <3>2, <3>3
  <2>2. CASE \E p \in Proc, s \in Sector, v \in Value : LogWrite(p, s, v)
    BY <1>2, <2>2, LogWriteImplements DEF Promise!Next
  <2>3. CASE \E p \in Proc : Commit(p)
    BY <1>2, <2>3, CommitImplements
  <2>4. CASE Crash
    BY <1>2, <2>4, CrashImplements DEF Promise!Next
  <2>5. CASE Recover
    BY <1>2, <2>5, RecoverImplements
  <2>6. CASE UNCHANGED vars
    BY <2>6, SameLog DEF vars, platter, procs
  <2> QED BY <1>2, <2>1, <2>2, <2>3, <2>4, <2>5, <2>6 DEF Next
<1> QED BY <1>1, <1>2, InductiveInvariant, PTL DEF Spec, IsTransactional, Promise!Spec
=============================================================================
