--------------------------- MODULE MCLocalStorage ---------------------------
(* Instances of LocalStorage for TLC.  Calls are interchangeable in safety  *)
(* runs; keys are not permuted, so that the symmetry set stays a group.     *)

EXTENDS LocalStorage, TLC

\* Calls have no order and no name in any definition.
UploaderSymmetry == Permutations(Uploaders)

=============================================================================
