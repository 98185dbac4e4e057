--------------------------- MODULE RestoreContract ---------------------------
(***************************************************************************)
(* What run_restore relies on when it calls adapter.restore: the call       *)
(* returns only when all of the dump was dealt with, it raises otherwise,   *)
(* and either way nothing happens to the database afterwards.  Only a call  *)
(* that was cut off may leave a client behind that goes on.                 *)
(***************************************************************************)

VARIABLES
  status,   \* how the call ended
  progress  \* how much of the dump the database was given

vars == <<status, progress>>

\* Cut off by Ctrl-C or killed.
CutOff == {"interrupted", "killed"}

Init ==
  /\ status = "running"
  /\ progress = "nothing"

Work ==
  /\ status \in {"running"} \union CutOff
  /\ progress # "all"
  /\ progress' \in {"part", "all"}
  /\ UNCHANGED status

Succeed ==
  /\ status = "running" /\ progress = "all"
  /\ status' = "success"
  /\ UNCHANGED progress

GiveUp ==
  /\ status = "running"
  /\ status' \in {"failed"} \union CutOff
  /\ UNCHANGED progress

Next == Work \/ Succeed \/ GiveUp

Spec == Init /\ [][Next]_vars

=============================================================================
