--------------------------- MODULE RoundsProgram ---------------------------
(***************************************************************************)
(* main and the consumer threads of lab12es01, without the synchronisation *)
(* that is chosen at compile time: modules RoundsSemaphores, RoundsEvents  *)
(* and RoundsDoors add it.  What a consumer computes from a value is left  *)
(* out; it is recorded which values it worked on.                          *)
(***************************************************************************)
EXTENDS Integers, Sequences, FiniteSets

CONSTANTS Consumer,  \* the four threads of the code
          Last       \* bound: records in the file

ProgramAssumption == IsFiniteSet(Consumer) /\ Consumer # {} /\ Last \in Nat

VARIABLES number, done, got,
          ppc,  \* where main is
          cpc   \* where each consumer is

common == <<number, done, got, ppc, cpc>>

N == Cardinality(Consumer)

PGoto(l) == ppc' = l
CGoto(c, l) == cpc' = [cpc EXCEPT ![c] = l]

\* done is not initialized when the threads are created
InitProgram ==
  /\ number = 0 /\ done \in BOOLEAN
  /\ got = [c \in Consumer |-> <<>>]
  /\ ppc = "start" /\ cpc = [c \in Consumer |-> "wait"]

\* done = FALSE
Start == ppc = "start" /\ done' = FALSE /\ PGoto("read")
         /\ UNCHANGED <<number, got, cpc>>

\* at the end of the file the consumers are not woken
Read_NoLastSignal ==
  /\ ppc = "read"
  /\ \/ number < Last /\ number' = number + 1 /\ PGoto("signal") /\ UNCHANGED done
     \/ done' = TRUE /\ PGoto("join") /\ UNCHANGED number
  /\ UNCHANGED <<got, cpc>>

\* the next record, or the end of the file (or a record that is too short),
\* then producerSignal
Read ==
  /\ ppc = "read" /\ PGoto("signal")
  /\ \/ number < Last /\ number' = number + 1 /\ UNCHANGED done
     \/ done' = TRUE /\ UNCHANGED number
  /\ UNCHANGED <<got, cpc>>

\* where main goes after producerSignal
AfterSignal == IF done THEN "join" ELSE "wait"

\* WaitForMultipleObjects on the four threads
Join ==
  /\ ppc = "join" /\ \A c \in Consumer : cpc[c] = "end"
  /\ PGoto("end") /\ UNCHANGED <<number, done, got, cpc>>

\* if (*param->done) break; otherwise the job on *param->n
Job(c) ==
  /\ cpc[c] = "job"
  /\ \/ done /\ CGoto(c, "end") /\ UNCHANGED got
     \/ ~done /\ CGoto(c, "signal")
        /\ got' = [got EXCEPT ![c] = Append(@, number)]
  /\ UNCHANGED <<number, done, ppc>>

Program == Start \/ Read \/ Join \/ \E c \in Consumer : Job(c)

\* The refinement: done counts once main has initialized it.
Promise == INSTANCE Rounds WITH
             done <- done /\ ppc # "start",
             left <- {c \in Consumer : cpc[c] = "end"}
=============================================================================
