---------------------------- MODULE Transactions ----------------------------
(***************************************************************************)
(* What the log promises the file system: the writes of a transaction     *)
(* reach the disk all together or, when the machine stops first, not at    *)
(* all; and there is one transaction at a time.                            *)
(***************************************************************************)
CONSTANTS Sector, Value

VARIABLES state,   \* what is on the disk, as a recovery would find it
          active,  \* there is a transaction
          writes   \* what it has written so far: a function on some sectors

vars == <<state, active, writes>>

Nothing == [s \in {} |-> s]

\* the function f, changed by the function w
Changed(f, w) == [s \in DOMAIN f |-> IF s \in DOMAIN w THEN w[s] ELSE f[s]]

Init == state \in [Sector -> Value] /\ active = FALSE /\ writes = Nothing

Begin == ~active /\ active' = TRUE /\ UNCHANGED <<state, writes>>

Write(s, v) ==
  /\ active
  /\ writes' = [t \in DOMAIN writes \cup {s} |-> IF t = s THEN v ELSE writes[t]]
  /\ UNCHANGED <<state, active>>

Commit == active /\ state' = Changed(state, writes) /\ writes' = Nothing
          /\ UNCHANGED active

End == active /\ writes = Nothing /\ active' = FALSE /\ UNCHANGED <<state, writes>>

Crash == active' = FALSE /\ writes' = Nothing /\ UNCHANGED state

Next == \/ Begin \/ Commit \/ End \/ Crash
        \/ \E s \in Sector, v \in Value : Write(s, v)

Spec == Init /\ [][Next]_vars
=============================================================================
