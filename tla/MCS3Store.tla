------------------------------ MODULE MCS3Store ------------------------------
(* The instance of S3Store for TLC.                                         *)

EXTENDS S3Store, TLC

Symmetry == Permutations(Uploaders) \union Permutations(Keys)

=============================================================================
