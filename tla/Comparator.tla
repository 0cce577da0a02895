----------------------------- MODULE Comparator -----------------------------
(***************************************************************************)
(* lab10es03: one reader for each directory tree, and a comparator that    *)
(* says whether the trees are equal.  In every round each reader publishes *)
(* the next entry of its visit and blocks on its own semaphore; the        *)
(* comparator waits for as many releases as there are readers, looks at    *)
(* what they published and releases them.                                  *)
(*                                                                         *)
(* A visit is the sequence of the entries in the order in which            *)
(* FindFirstFile and FindNextFile find them; it ends with Failure if       *)
(* FindFirstFile fails, in the directory that is the entry before.         *)
(***************************************************************************)
EXTENDS Integers, Sequences

CONSTANTS nReaders,
          Visits,   \* the visits that a reader may make
          Failure

ComparatorAssumption ==
  /\ nReaders \in Nat \ {0} /\ Visits # {}
  /\ \A v \in Visits : v \in Seq({v[k] : k \in DOMAIN v})

VARIABLES visit,          \* the whole visit of each reader
          left,           \* what is left of it
          entry, done, terminate,            \* READERPARAM
          readerSemaphore, comparatorSemaphore,
          rat,            \* where each reader is
          cat,            \* where the comparator is
          i,              \* its loop variable
          strToCompare,   \* the reader whose entry it compares the others with
          someContinue, someFinished, different

params == <<entry, done, terminate>>
sems   == <<readerSemaphore, comparatorSemaphore>>
reader == <<left, rat>>
comparator == <<cat, i, strToCompare, someContinue, someFinished, different>>
vars   == <<visit, params, sems, reader, comparator>>

Reader == 1..nReaders
NoReader == 0

Goto(r, l) == rat' = [rat EXCEPT ![r] = l]

Init ==
  /\ visit \in [Reader -> Visits] /\ left = visit
  /\ entry = [r \in Reader |-> ""]
  /\ done = [r \in Reader |-> FALSE] /\ terminate = [r \in Reader |-> FALSE]
  /\ readerSemaphore = [r \in Reader |-> 1] /\ comparatorSemaphore = 0
  /\ rat = [r \in Reader |-> "visits"]
  /\ cat = "waits" /\ i = 1 /\ strToCompare = NoReader
  /\ someContinue = FALSE /\ someFinished = FALSE /\ different = FALSE

-----------------------------------------------------------------------------
(* readerThreadFunction, with visitDirectoryRAndDo and whatToDo *)

Failing(r) == left[r] # <<>> /\ Head(left[r]) = Failure

WaitsOwn(r) == /\ readerSemaphore[r] = 1
               /\ readerSemaphore' = [readerSemaphore EXCEPT ![r] = 0]

Publish(r) ==
  /\ rat[r] = "visits" /\ left[r] # <<>> /\ ~Failing(r) /\ WaitsOwn(r)
  /\ entry' = [entry EXCEPT ![r] = Head(left[r])] /\ left' = [left EXCEPT ![r] = Tail(@)]
  /\ Goto(r, "published")
  /\ UNCHANGED <<visit, done, terminate, comparatorSemaphore, comparator>>

\* ReleaseSemaphore changes nothing at the maximum
ReleaseComparator ==
  comparatorSemaphore' = IF comparatorSemaphore < nReaders THEN comparatorSemaphore + 1
                                                           ELSE comparatorSemaphore

Release(r) ==
  /\ rat[r] \in {"published", "done"} /\ ReleaseComparator
  /\ Goto(r, IF rat[r] = "done" THEN "ends" ELSE "released")
  /\ UNCHANGED <<visit, left, params, readerSemaphore, comparator>>

\* if (param->terminate), after the release
Told(r) ==
  /\ rat[r] = "released" /\ Goto(r, IF terminate[r] THEN "leaves" ELSE "visits")
  /\ UNCHANGED <<visit, left, params, sems, comparator>>

\* FindFirstFile fails: no wait for the comparator
Fail(r) ==
  /\ rat[r] = "visits" /\ Failing(r) /\ Goto(r, "leaves")
  /\ UNCHANGED <<visit, left, params, sems, comparator>>

\* the end of the visit without the last wait
EndVisit_Goes(r) ==
  /\ rat[r] = "visits" /\ left[r] = <<>> /\ Goto(r, "leaves")
  /\ UNCHANGED <<visit, left, params, sems, comparator>>

EndVisit(r) ==
  /\ rat[r] = "visits" /\ left[r] = <<>> /\ WaitsOwn(r) /\ Goto(r, "leaves")
  /\ UNCHANGED <<visit, left, params, comparatorSemaphore, comparator>>

Done(r) ==
  /\ rat[r] = "leaves" /\ done' = [done EXCEPT ![r] = TRUE] /\ Goto(r, "done")
  /\ UNCHANGED <<visit, left, entry, terminate, sems, comparator>>

-----------------------------------------------------------------------------
(* comparatorThreadFunction *)

\* the flags are reset before the waits
Count ==
  /\ cat = "waits" /\ comparatorSemaphore > 0 /\ comparatorSemaphore' = comparatorSemaphore - 1
  /\ IF i < nReaders THEN i' = i + 1 /\ UNCHANGED cat ELSE i' = 1 /\ cat' = "looks"
  /\ someContinue' = FALSE /\ someFinished' = FALSE /\ strToCompare' = NoReader
  /\ UNCHANGED <<visit, params, readerSemaphore, reader, different>>

\* one turn of the loop over the readers; a difference breaks it
Look ==
  /\ cat = "looks"
  /\ IF done[i]
     THEN someFinished' = TRUE /\ UNCHANGED <<someContinue, strToCompare, different>>
     ELSE /\ someContinue' = TRUE /\ UNCHANGED someFinished
          /\ IF strToCompare = NoReader
             THEN strToCompare' = i /\ UNCHANGED different
             ELSE different' = (entry[strToCompare] # entry[i]) /\ UNCHANGED strToCompare
  /\ IF i = nReaders \/ different' THEN cat' = "decides" /\ i' = 1 ELSE i' = i + 1 /\ UNCHANGED cat
  /\ UNCHANGED <<visit, params, sems, reader>>

\* terminate and the releases of the readers
Decide ==
  /\ cat = "decides"
  /\ different' = (different \/ (someFinished /\ someContinue))
  /\ terminate' = [r \in Reader |-> terminate[r] \/ different']
  /\ readerSemaphore' = [r \in Reader |-> 1]
  /\ cat' = IF different' \/ ~someContinue THEN "ends" ELSE "waits"
  /\ UNCHANGED <<visit, entry, done, comparatorSemaphore, reader, i, strToCompare, someContinue,
                 someFinished>>

ReaderStep(r) == \/ Publish(r) \/ Release(r) \/ Told(r) \/ Fail(r) \/ EndVisit(r) \/ Done(r)
ComparatorStep == Count \/ Look \/ Decide

Next == ComparatorStep \/ \E r \in Reader : ReaderStep(r)
Spec == Init /\ [][Next]_vars
Fairness == WF_vars(ComparatorStep) /\ \A r \in Reader : WF_vars(ReaderStep(r))
-----------------------------------------------------------------------------
\* "all the readers produced something, and cannot modify their params,
\* because they are blocked on their semaphore": while the comparator looks,
\* every reader has finished, or has made the round's release and has nothing
\* to do but wait.
AllBlocked ==
  cat \in {"looks", "decides"} =>
    \A r \in Reader : \/ done[r]
                      \/ rat[r] \in {"released", "visits"} /\ readerSemaphore[r] = 0

NobodyFails == \A r \in Reader : \A k \in 1..Len(visit[r]) : visit[r][k] # Failure

\* The answer is right when every directory can be read.
AnswerIsRight ==
  NobodyFails =>
    /\ AllBlocked
    /\ cat = "ends" => (different <=> \E r, s \in Reader : visit[r] # visit[s])

AllEnd == cat = "ends" /\ \A r \in Reader : rat[r] = "ends"
=============================================================================
