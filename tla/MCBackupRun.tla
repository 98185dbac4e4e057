----------------------------- MODULE MCBackupRun -----------------------------
(* Instances of BackupRun for TLC.                                          *)

EXTENDS BackupRun

\* Every kind of adapter, and the kinds with a dump process.
AllKinds == {"stream", "config", "file"}
Processes == {"stream", "config"}

=============================================================================
