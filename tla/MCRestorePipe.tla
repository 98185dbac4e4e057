---------------------------- MODULE MCRestorePipe ----------------------------
(* Instances of RestorePipe for TLC.                                        *)

EXTENDS RestorePipe

\* Every kind of adapter; psql and sqlite alone; the kinds whose client goes on.
AllKinds == Streams \union {"config", "file"}
Psql == {"psql"}
Sqlite == {"file"}
GoOn == {"psql", "mongo", "config"}

=============================================================================
