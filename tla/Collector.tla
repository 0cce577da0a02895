----------------------------- MODULE Collector -----------------------------
(***************************************************************************)
(* lab13es01: processing threads that share a file of records, and write   *)
(* for each record one row to the output file it names; and a collector    *)
(* that prints every M rows of an output file.  A semaphore for each       *)
(* output file counts the rows that the collector has not been told of,    *)
(* and the termination semaphore the threads that found the end of the     *)
(* records.  A record is its position in the file.                         *)
(***************************************************************************)
EXTENDS Integers, Sequences, FiniteSets

CONSTANTS nProcessing,
          RecordFiles,  \* the files it may be given: the output file of each record
          ReadOnly,     \* the output files that cannot be opened to write
          Interval,     \* updateFileInterval, M on the command line
          MAXIMUM_WAIT_OBJECTS

CollectorAssumption ==
  /\ nProcessing \in Nat \ {0} /\ Interval \in Nat \ {0} /\ MAXIMUM_WAIT_OBJECTS \in Nat \ {0}
  /\ \A f \in RecordFiles : f \in Seq({f[k] : k \in DOMAIN f})

VARIABLES records,      \* the file it was given
          next,         \* the file pointer of the records
          record,       \* the record of each thread
          pat,          \* where each thread is
          mutex,        \* the thread that has the mutex of an output file
          offset,       \* the file pointer of each thread in its output file
          rows,         \* the output files
          sem,          \* their semaphores, and the last is that of termination
          cat,          \* where the collector is
          chunkN,       \* the group of handles it waits for
          nTerminated, rowsReady,
          printed       \* the rows of each output file that it has read

files     == <<records, next, mutex, rows>>
threads   == <<record, pat, offset>>
collector == <<cat, chunkN, nTerminated, rowsReady, printed>>
vars      == <<files, sem, threads, collector>>

Thread   == 1..nProcessing
NoThread == 0

\* an output file and its handle go by the first record that names it
OutputOf(k) == CHOOSE o \in 1..k : /\ records[o] = records[k]
                                   /\ \A j \in 1..o - 1 : records[j] # records[k]
Output      == {OutputOf(k) : k \in 1..Len(records)}
Termination == Len(records) + 1
Handle      == Output \cup {Termination}

Mine(t)     == OutputOf(record[t])
Goto(t, l)  == pat' = [pat EXCEPT ![t] = l]

Init ==
  /\ records \in RecordFiles /\ next = 1
  /\ mutex = [o \in Output |-> NoThread] /\ rows = [o \in Output |-> <<>>]
  /\ sem = [h \in Handle |-> 0]
  /\ record = [t \in Thread |-> 0] /\ pat = [t \in Thread |-> "reads"]
  /\ offset = [t \in Thread |-> 0]
  /\ cat = "waits" /\ chunkN = 0 /\ nTerminated = 0
  /\ rowsReady = [o \in Output |-> 0] /\ printed = [o \in Output |-> 0]

-----------------------------------------------------------------------------
(* processingThreadFunction *)

ReadRecord(t) ==
  /\ pat[t] = "reads" /\ next <= Len(records)
  /\ record' = [record EXCEPT ![t] = next] /\ next' = next + 1 /\ Goto(t, "waits")
  /\ UNCHANGED <<records, mutex, rows, sem, offset, collector>>

EndOfRecords(t) ==
  /\ pat[t] = "reads" /\ next > Len(records) /\ Goto(t, "ends")
  /\ sem' = [sem EXCEPT ![Termination] = @ + 1]
  /\ UNCHANGED <<files, record, offset, collector>>

Acquire(t) ==
  /\ pat[t] = "waits" /\ mutex[Mine(t)] = NoThread
  /\ mutex' = [mutex EXCEPT ![Mine(t)] = t] /\ Goto(t, "opens")
  /\ UNCHANGED <<records, next, rows, sem, record, offset, collector>>

ReleaseMutex(t) == mutex' = [mutex EXCEPT ![Mine(t)] = NoThread]

\* the error leaves the loop, and tells nobody
OpenFails(t) ==
  /\ pat[t] = "opens" /\ records[record[t]] \in ReadOnly
  /\ ReleaseMutex(t) /\ Goto(t, "left")
  /\ UNCHANGED <<records, next, rows, sem, record, offset, collector>>

\* CreateFile and SetFilePointer
Seek(t) ==
  /\ pat[t] = "opens" /\ records[record[t]] \notin ReadOnly
  /\ offset' = [offset EXCEPT ![t] = Len(rows[Mine(t)])] /\ Goto(t, "writes")
  /\ UNCHANGED <<files, sem, record, collector>>

WriteRow(t) ==
  /\ pat[t] = "writes" /\ ReleaseMutex(t) /\ Goto(t, "signals")
  /\ rows' = [rows EXCEPT ![Mine(t)] =
                [k \in 1..Len(@) \cup {offset[t] + 1} |-> IF k = offset[t] + 1 THEN record[t] ELSE @[k]]]
  /\ UNCHANGED <<records, next, sem, record, offset, collector>>

Signal(t) ==
  /\ pat[t] = "signals" /\ sem' = [sem EXCEPT ![Mine(t)] = @ + 1] /\ Goto(t, "reads")
  /\ UNCHANGED <<files, record, offset, collector>>

-----------------------------------------------------------------------------
(* WaitForVeryHugeNumberOfObjects with waitForAll FALSE *)

nChunks == IF Cardinality(Handle) > MAXIMUM_WAIT_OBJECTS
           THEN Cardinality(Handle) \div MAXIMUM_WAIT_OBJECTS ELSE 1

\* its chunkN-th group of handles; the last one takes the rest
Chunk == {h \in Handle :
            LET before == Cardinality({g \in Handle : g < h})
            IN  /\ before >= chunkN * MAXIMUM_WAIT_OBJECTS
                /\ chunkN < nChunks - 1 => before < (chunkN + 1) * MAXIMUM_WAIT_OBJECTS}
Ready == {h \in Chunk : sem[h] > 0}

\* WaitForMultipleObjects fails for more than MAXIMUM_WAIT_OBJECTS handles
WaitFails ==
  /\ cat = "waits" /\ nTerminated < nProcessing /\ Cardinality(Chunk) > MAXIMUM_WAIT_OBJECTS
  /\ cat' = "wait failed"
  /\ UNCHANGED <<files, sem, threads, chunkN, nTerminated, rowsReady, printed>>

WaitTimesOut ==
  /\ cat = "waits" /\ nTerminated < nProcessing /\ nChunks > 1 /\ Ready = {}
  /\ chunkN' = (chunkN + 1) % nChunks
  /\ UNCHANGED <<files, sem, threads, cat, nTerminated, rowsReady, printed>>

\* the first handle of the group that is ready
Waited(h) ==
  /\ cat = "waits" /\ nTerminated < nProcessing /\ Cardinality(Chunk) <= MAXIMUM_WAIT_OBJECTS
  /\ h \in Ready /\ \A g \in Ready : h <= g
  /\ sem' = [sem EXCEPT ![h] = @ - 1] /\ chunkN' = 0

-----------------------------------------------------------------------------
(* collectorThreadFunction *)

Terminated ==
  /\ Waited(Termination) /\ nTerminated' = nTerminated + 1
  /\ UNCHANGED <<files, threads, cat, rowsReady, printed>>

\* a row more than those that are ready
Row_OneMore(o) ==
  /\ Waited(o)
  /\ IF rowsReady[o] + 1 < Interval
     THEN rowsReady' = [rowsReady EXCEPT ![o] = @ + 1] /\ UNCHANGED <<cat, printed>>
     ELSE /\ rowsReady' = [rowsReady EXCEPT ![o] = 0]
          /\ IF printed[o] + Interval < Len(rows[o])
             THEN printed' = [printed EXCEPT ![o] = @ + Interval + 1] /\ UNCHANGED cat
             ELSE cat' = "read failed" /\ UNCHANGED printed
  /\ UNCHANGED <<files, threads, nTerminated>>

\* the collector gives up when a row that it was told of is not there
Row(o) ==
  /\ Waited(o)
  /\ IF rowsReady[o] + 1 < Interval
     THEN rowsReady' = [rowsReady EXCEPT ![o] = @ + 1] /\ UNCHANGED <<cat, printed>>
     ELSE /\ rowsReady' = [rowsReady EXCEPT ![o] = 0]
          /\ IF printed[o] + Interval <= Len(rows[o])
             THEN printed' = [printed EXCEPT ![o] = @ + Interval] /\ UNCHANGED cat
             ELSE cat' = "read failed" /\ UNCHANGED printed
  /\ UNCHANGED <<files, threads, nTerminated>>

\* the purging phase: what is left of every file
Purge ==
  /\ cat = "waits" /\ nTerminated = nProcessing /\ cat' = "ends"
  /\ printed' = [o \in Output |-> Len(rows[o])]
  /\ UNCHANGED <<files, sem, threads, chunkN, nTerminated, rowsReady>>

ThreadStep(t) == \/ ReadRecord(t) \/ EndOfRecords(t) \/ Acquire(t) \/ OpenFails(t) \/ Seek(t)
                 \/ WriteRow(t) \/ Signal(t)
CollectorStep == WaitFails \/ WaitTimesOut \/ Terminated \/ (\E o \in Output : Row(o)) \/ Purge

Next == CollectorStep \/ \E t \in Thread : ThreadStep(t)
Spec == Init /\ [][Next]_vars
Fairness == WF_vars(CollectorStep) /\ \A t \in Thread : WF_vars(ThreadStep(t))
-----------------------------------------------------------------------------
\* The collector is told of rows that are there and that it has not printed,
\* and when it ends every record was read once, written once, and printed.
RowsAreThere ==
  /\ cat # "read failed"
  /\ \A o \in Output : sem[o] + rowsReady[o] <= Len(rows[o]) - printed[o] \/ cat = "ends"
  /\ cat = "ends" =>
       \A o \in Output :
         /\ printed[o] = Len(rows[o])
         /\ {rows[o][k] : k \in 1..Len(rows[o])} = {k \in 1..Len(records) : OutputOf(k) = o}
         /\ Len(rows[o]) = Cardinality({k \in 1..Len(records) : OutputOf(k) = o})

\* WAIT_FAILED: more than MAXIMUM_WAIT_OBJECTS handles in one group
WaitNeverFails == cat # "wait failed"

\* The collector ends, unless it failed or a thread left without a word.
AllEnd == cat \in {"ends", "wait failed"} \/ \E t \in Thread : pat[t] = "left"
=============================================================================
