-------------------------- MODULE ConditionPromise --------------------------
(***************************************************************************)
(* A condition variable (module Condition) with a history of who was       *)
(* promised a wakeup: the processes that were waiting when somebody called *)
(* cond_broadcast and that have not left the wait since.                   *)
(***************************************************************************)
EXTENDS Condition

VARIABLE due  \* the processes promised a token by a broadcast (history)

InitDue == Init /\ due = {}

NextDue ==
  \/ \E p \in Proc : Broadcast(p) /\ due' = Waiting
  \/ /\ \/ Alloc \/ Destroy
        \/ \E p \in Proc : \/ Mutex(p) \/ WaitEnter(p) \/ Signal(p)
                           \/ Continue(p) \/ Kill(p)
                           \/ \E v \in Values : Set(p, v)
     /\ due' = due \cap Waiting'

FairSpecDue ==
  /\ InitDue /\ [][NextDue]_<<vars, due>>
  /\ \A p \in Proc : WF_<<vars, due>>(Continue(p) /\ due' = due \cap Waiting')

\* cond_broadcast: "a resurrection token for every process waiting!!", and
\* "each one of them will consume a resurrection token" (lab06/src/file.c).
BroadcastReachesAll == \A p \in Proc : (p \in due) ~> (p \notin due)
=============================================================================
