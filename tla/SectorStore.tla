---------------------------- MODULE SectorStore ----------------------------
(***************************************************************************)
(* What the buffer cache promises to the file system: a sector is in the   *)
(* hands of one process at a time, from bread() to brelse(); it is changed *)
(* only by that process, and who comes next finds what the last one left,  *)
(* whatever was evicted, written or read in between.                       *)
(***************************************************************************)
CONSTANTS Proc, Sector, Value, NoProc

VARIABLES mem,   \* the content of every sector
          owner  \* the process that has it

vars == <<mem, owner>>

Init == mem \in [Sector -> Value] /\ owner = [s \in Sector |-> NoProc]

Take(p, s) ==
  /\ owner[s] = NoProc /\ owner' = [owner EXCEPT ![s] = p] /\ UNCHANGED mem

Change(p, s, v) ==
  /\ owner[s] = p /\ mem' = [mem EXCEPT ![s] = v] /\ UNCHANGED owner

Give(p, s) ==
  /\ owner[s] = p /\ owner' = [owner EXCEPT ![s] = NoProc] /\ UNCHANGED mem

Next == \E p \in Proc, s \in Sector :
          Take(p, s) \/ Give(p, s) \/ \E v \in Value : Change(p, s, v)

Spec == Init /\ [][Next]_vars
=============================================================================
