----------------------------- MODULE MCScheduler -----------------------------
(* Instances of Scheduler for TLC.                                          *)

EXTENDS Scheduler, TLC

\* The threads of the pool are interchangeable.
WorkerSymmetry == Permutations(Workers)

=============================================================================
