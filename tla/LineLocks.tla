----------------------------- MODULE LineLocks -----------------------------
(***************************************************************************)
(* lab12es03: a client writes lines to a file and a server, a process that *)
(* it starts, prints them.  Nothing synchronises them but locks on regions *)
(* of the file, one for each line: the client locks the next line before   *)
(* it unlocks the one it has written.                                      *)
(***************************************************************************)
EXTENDS Integers, Sequences

CONSTANT Lines   \* bound: the lines before the end message

VARIABLES lines,         \* the lines in the file
          locks,         \* the lines that the client has locked
          clat, ci,      \* where the client is; its i
          svat, si,      \* where the server is; its i
          shown          \* what the server has printed

client == <<lines, locks, clat, ci>>
server == <<svat, si, shown>>
vars   == <<client, server>>

END_MSG == -1

Init == /\ lines = <<>> /\ locks = {} /\ clat = "starts" /\ ci = 0
        /\ svat = "none" /\ si = 0 /\ shown = <<>>

-----------------------------------------------------------------------------
(* client *)

\* the first line is locked before the server exists
StartServer ==
  /\ clat = "starts" /\ locks' = {0} /\ clat' = "writes" /\ svat' = "locks"
  /\ UNCHANGED <<lines, ci, si, shown>>

\* the line unlocked before the next one is locked
WriteLine_Unlocks ==
  /\ clat = "writes" /\ ci < Lines /\ lines' = Append(lines, ci) /\ clat' = "locks"
  /\ locks' = locks \ {ci}
  /\ UNCHANGED <<ci, server>>

WriteLine ==
  /\ clat = "writes" /\ ci < Lines /\ lines' = Append(lines, ci) /\ clat' = "locks"
  /\ UNCHANGED <<locks, ci, server>>

\* LockFileEx waits for the server's lock
LockNext ==
  /\ clat = "locks" /\ ~(svat = "reads" /\ si = ci + 1)
  /\ locks' = locks \cup {ci + 1} /\ clat' = "unlocks"
  /\ UNCHANGED <<lines, ci, server>>

UnlockLine ==
  /\ clat = "unlocks" /\ locks' = locks \ {ci} /\ ci' = ci + 1 /\ clat' = "writes"
  /\ UNCHANGED <<lines, server>>

WriteEnd ==
  /\ clat = "writes" /\ lines' = Append(lines, END_MSG) /\ clat' = "closes"
  /\ UNCHANGED <<locks, ci, server>>

\* the last lock goes with the handle
CloseFile ==
  /\ clat = "closes" /\ locks' = {} /\ clat' = "waits"
  /\ UNCHANGED <<lines, ci, server>>

\* WriteFile fails, and the return of the process closes the handle
WriteFails ==
  /\ clat = "writes" /\ locks' = {} /\ clat' = "failed"
  /\ UNCHANGED <<lines, ci, server>>

\* WaitForSingleObject on the server
ClientEnds ==
  /\ clat = "waits" /\ svat \in {"ends", "mismatch"} /\ clat' = "ends"
  /\ UNCHANGED <<lines, locks, ci, server>>

-----------------------------------------------------------------------------
(* server *)

LockLine ==
  /\ svat = "locks" /\ si \notin locks /\ svat' = "reads"
  /\ UNCHANGED <<client, si, shown>>

\* a read after the end of the file ends the server with an error
ReadLine ==
  /\ svat = "reads"
  /\ IF si < Len(lines)
     THEN /\ shown' = Append(shown, lines[si + 1]) /\ si' = si + 1
          /\ svat' = IF lines[si + 1] = END_MSG THEN "ends" ELSE "locks"
     ELSE svat' = "mismatch" /\ UNCHANGED <<si, shown>>
  /\ UNCHANGED client

ClientStep == \/ StartServer \/ WriteLine \/ LockNext \/ UnlockLine \/ WriteEnd \/ CloseFile
              \/ WriteFails \/ ClientEnds
ServerStep == LockLine \/ ReadLine

Next == ClientStep \/ ServerStep
Spec == Init /\ [][Next]_vars
Fairness == WF_vars(ClientStep) /\ WF_vars(ServerStep)
-----------------------------------------------------------------------------
\* The server prints the lines in order, and none before it is complete and
\* unlocked; only a client that failed makes it read after the end.
ShownInOrder ==
  /\ shown = SubSeq(lines, 1, Len(shown)) /\ Len(shown) <= Len(lines)
  /\ svat = "mismatch" => clat = "failed"
  /\ clat = "ends" => shown = lines

AllEnd == clat \in {"ends", "failed"} /\ svat \in {"ends", "mismatch"}
=============================================================================
