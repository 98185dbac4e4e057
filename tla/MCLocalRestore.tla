--------------------------- MODULE MCLocalRestore ---------------------------
(* Instances of LocalRestore for TLC.                                       *)

EXTENDS LocalRestore, TLC

\* Keys have no order and no name in any definition, so that one of them may
\* stand for the key a restore is for. (A symmetry set would not do beside a
\* liveness property.)
FirstKeyInit ==
  /\ RSInit
  /\ \A r \in Restores : rkey[r] = CHOOSE k \in Keys : TRUE

\* Nothing makes a restore go on: what the uploads promise needs none.
FirstKeySpec == FirstKeyInit /\ [][RSNext]_allVars /\ Fairness

=============================================================================
