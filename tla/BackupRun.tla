------------------------------ MODULE BackupRun ------------------------------
(***************************************************************************)
(* One backup: run_backup (core/backup.py) with the adapter it calls, the  *)
(* dump process the adapter starts, and the two pipes between them.        *)
(*                                                                         *)
(* Three kinds of adapter differ in what they leave to clean up:           *)
(*   "stream"  mysqldump, pg_dump, mongodump without a password            *)
(*   "config"  mongodump with a password, in a temporary --config file     *)
(*   "file"    sqlite3's backup API into a temporary database file         *)
(*                                                                         *)
(* The dump process is external: it writes its dump to stdout and any      *)
(* number of messages to stderr, in any order, and exits with 0 only       *)
(* after the last of the dump.  Nothing reads stderr, which stays open     *)
(* while the process runs (subprocess keeps the Popen object alive).       *)
(* A chunk is what one read or write moves; a pipe is full at its          *)
(* capacity.                                                               *)
(***************************************************************************)

EXTENDS Naturals

CONSTANTS
  Kinds,    \* the kinds of adapter, a subset of the three
  Size,     \* the chunks of a complete dump
  Noise,    \* bound on the messages the dump process writes to stderr
  OutCap,   \* the capacity of the stdout pipe
  ErrCap,   \* the capacity of the stderr pipe
  None      \* nothing stored

ASSUME KindsAssumption == Kinds \subseteq {"stream", "config", "file"}
ASSUME SizeAssumption ==
  Size \in Nat /\ Noise \in Nat /\ OutCap \in Nat \ {0} /\ ErrCap \in Nat
ASSUME NoneAssumption == None \notin Nat

VARIABLES
  kind,     \* the adapter's kind
  sticky,   \* whether unlink of a temporary file is refused here
  pc,       \* the next step of run_backup
  status,   \* BackupResult.status
  file,     \* whether the temporary config or database file exists
  open,     \* whether run_backup holds the artifact's stream open
  dumper,   \* the dump process; for a "file" the snapshot counts as one
  written,  \* the chunks written to stdout or to the file so far
  out,      \* the chunks of them that were not read yet
  noise,    \* the messages in the stderr pipe
  read,     \* the chunks read and compressed
  stored    \* the chunks of the artifact in storage

backup == <<kind, sticky, pc, status, file, open, read, stored>>
process == <<dumper, written, out, noise>>
vars == <<kind, sticky, pc, status, file, open, dumper, written, out, noise, read,
          stored>>

Points == {"adapter", "config", "spawn", "source", "snapshot", "compress",
           "upload", "release", "done"}

\* "warning": about to write a message to stderr. "failed": a non-zero exit
\* status or a signal.
DumperStates == {"none", "running", "warning", "exited", "failed"}

TypeOK ==
  /\ kind \in Kinds
  /\ sticky \in BOOLEAN
  /\ pc \in Points
  /\ status \in {"running", "success", "failed", "interrupted"}
  /\ file \in BOOLEAN
  /\ open \in BOOLEAN
  /\ dumper \in DumperStates
  /\ written \in 0 .. Size
  /\ out \in 0 .. Size
  /\ noise \in 0 .. ErrCap
  /\ read \in 0 .. Size
  /\ stored \in 0 .. Size \union {None}

Init ==
  /\ kind \in Kinds
  /\ sticky \in BOOLEAN
  /\ pc = "adapter"
  /\ status = "running"
  /\ file = FALSE
  /\ open = FALSE
  /\ dumper = "none"
  /\ written = 0
  /\ out = 0
  /\ noise = 0
  /\ read = 0
  /\ stored = None

-----------------------------------------------------------------------------
Goto(from, to) ==
  /\ pc = from
  /\ pc' = to
  /\ UNCHANGED <<kind, sticky, status>>

Return(from, s) ==
  /\ pc = from
  /\ pc' = "done"
  /\ status' = s
  /\ UNCHANGED <<kind, sticky>>

\* unlink, best effort
Unlink == file' = (file /\ sticky)

-----------------------------------------------------------------------------
(* adapter.backup                                                          *)

\* An unknown db_type, no binary, no database file; mkstemp or Popen fails.
AdapterFails ==
  /\ Return("adapter", "failed")
  /\ UNCHANGED <<file, open, read, stored, process>>

\* Popen(stdout=PIPE, stderr=PIPE)
Started ==
  /\ dumper' = "running"
  /\ open' = TRUE
  /\ UNCHANGED <<written, out, noise, read, stored>>

Spawn ==
  /\ kind = "stream"
  /\ Goto("adapter", "compress")
  /\ Started
  /\ UNCHANGED file

MakeConfig ==
  /\ kind = "config"
  /\ Goto("adapter", "config")
  /\ file' = TRUE
  /\ UNCHANGED <<open, read, stored, process>>

WriteConfig ==
  /\ Goto("config", "spawn")
  /\ UNCHANGED <<file, open, read, stored, process>>

\* chmod or write_text fails, before the try whose handler removes the file.
WriteConfigFails ==
  /\ Return("config", "failed")
  /\ UNCHANGED <<file, open, read, stored, process>>

\* Faulty variant: the config file is removed in a finally clause, as the
\* restore does, while the process that is to read it has only just started.
SpawnConfigured_Finally ==
  /\ Goto("spawn", "compress")
  /\ Started
  /\ Unlink

SpawnConfigured ==
  /\ Goto("spawn", "compress")
  /\ Started
  /\ UNCHANGED file

SpawnConfiguredFails ==
  /\ Return("spawn", "failed")
  /\ Unlink
  /\ UNCHANGED <<open, read, stored, process>>

MakeSnapshotFile ==
  /\ kind = "file"
  /\ Goto("adapter", "source")
  /\ file' = TRUE
  /\ UNCHANGED <<open, read, stored, process>>

OpenSource ==
  /\ Goto("source", "snapshot")
  /\ UNCHANGED <<file, open, read, stored, process>>

OpenSourceFails ==
  /\ Return("source", "failed")
  /\ Unlink
  /\ UNCHANGED <<open, read, stored, process>>

Snapshot ==
  /\ Goto("snapshot", "compress")
  /\ dumper' = "exited"
  /\ written' = Size /\ out' = Size
  /\ open' = TRUE
  /\ UNCHANGED <<file, noise, read, stored>>

\* Opening the copy, the backup API or stat fails: only the connections are
\* closed.
SnapshotFails ==
  /\ Return("snapshot", "failed")
  /\ UNCHANGED <<file, open, read, stored, process>>

-----------------------------------------------------------------------------
(* compress_stream, and the finally clause that closes the stream.         *)

\* Faulty variant: the stream's close is not wrapped, the file stays.
CloseStream_KeepsConfig ==
  /\ open' = FALSE
  /\ UNCHANGED file

\* src.close(): a config file goes with its stream, a snapshot does not.
CloseStream ==
  /\ open' = FALSE
  /\ IF kind = "config" THEN Unlink ELSE UNCHANGED file

\* Faulty variant: the chunk is handed out and stays in the pipe.
ReadChunk_Repeated ==
  /\ pc = "compress"
  /\ out > 0
  /\ read' = read + 1
  /\ UNCHANGED <<kind, sticky, pc, status, file, open, stored, process>>

\* Faulty variant: the process is waited for before its output is read.
ReadChunk_AfterExit ==
  /\ pc = "compress"
  /\ out > 0
  /\ dumper \in {"exited", "failed"}
  /\ out' = out - 1
  /\ read' = read + 1
  /\ UNCHANGED <<kind, sticky, pc, status, file, open, stored, dumper, written, noise>>

ReadChunk ==
  /\ pc = "compress"
  /\ out > 0
  /\ out' = out - 1
  /\ read' = read + 1
  /\ UNCHANGED <<kind, sticky, pc, status, file, open, stored, dumper, written, noise>>

\* Faulty variant: an empty pipe is taken for the end of the dump.
ReadEof_Short ==
  /\ out = 0
  /\ dumper # "none"
  /\ Goto("compress", "upload")
  /\ CloseStream
  /\ UNCHANGED <<read, stored, process>>

\* The end of file: the pipe is empty and its writer is gone.
ReadEof ==
  /\ out = 0
  /\ dumper \in {"exited", "failed"}
  /\ Goto("compress", "upload")
  /\ CloseStream
  /\ UNCHANGED <<read, stored, process>>

\* The gzip level is invalid, or a read fails.
CompressFails ==
  /\ Return("compress", "failed")
  /\ CloseStream
  /\ UNCHANGED <<read, stored, process>>

-----------------------------------------------------------------------------
(* Storage, and the artifact's end.                                        *)

Upload ==
  /\ Goto("upload", "release")
  /\ stored' = read
  /\ UNCHANGED <<file, open, read, process>>

\* No backend, the destination exists, S3 or the file system refuses, possibly
\* after the artifact was published. Nothing closes the artifact.
UploadFails ==
  /\ Return("upload", "failed")
  /\ stored' \in {stored, read}
  /\ UNCHANGED <<file, open, read, process>>

\* artifact.close(), which ends every kind of temporary file.
Release ==
  /\ Return("release", "success")
  /\ Unlink
  /\ UNCHANGED <<open, read, stored, process>>

\* KeyboardInterrupt. Inside the try of compress_stream the stream is closed;
\* anywhere else, the instant before that try included, nothing is.
Interrupt ==
  /\ pc # "done"
  /\ Return(pc, "interrupted")
  /\ \/ pc = "compress" /\ CloseStream
     \/ UNCHANGED <<file, open>>
  /\ UNCHANGED <<read, stored, process>>

-----------------------------------------------------------------------------
(* The dump process (external).                                            *)

Write ==
  /\ dumper = "running" /\ written < Size
  /\ open /\ out < OutCap
  /\ written' = written + 1
  /\ out' = out + 1
  /\ UNCHANGED <<backup, dumper, noise>>

\* A write to a pipe that nobody can read any more.
BrokenPipe ==
  /\ dumper = "running" /\ written < Size
  /\ ~open
  /\ dumper' = "failed"
  /\ UNCHANGED <<backup, written, out, noise>>

Warn ==
  /\ dumper = "running" /\ noise < Noise
  /\ dumper' = "warning"
  /\ UNCHANGED <<backup, written, out, noise>>

WriteWarning ==
  /\ dumper = "warning" /\ noise < ErrCap
  /\ dumper' = "running"
  /\ noise' = noise + 1
  /\ UNCHANGED <<backup, written, out>>

Exit ==
  /\ dumper = "running" /\ written = Size
  /\ dumper' = "exited"
  /\ UNCHANGED <<backup, written, out, noise>>

\* The server, the network or the disk fails the dump.
DumpFails ==
  /\ dumper \in {"running", "warning"}
  /\ dumper' = "failed"
  /\ UNCHANGED <<backup, written, out, noise>>

-----------------------------------------------------------------------------
AdapterStep ==
  \/ AdapterFails \/ Spawn
  \/ MakeConfig \/ WriteConfig \/ WriteConfigFails
  \/ SpawnConfigured \/ SpawnConfiguredFails
  \/ MakeSnapshotFile \/ OpenSource \/ OpenSourceFails \/ Snapshot \/ SnapshotFails

BackupStep ==
  \/ AdapterStep
  \/ ReadChunk \/ ReadEof
  \/ Upload \/ UploadFails \/ Release

DumperStep == Write \/ BrokenPipe \/ WriteWarning \/ Exit

Next == BackupStep \/ CompressFails \/ Interrupt \/ DumperStep \/ Warn \/ DumpFails

Spec == Init /\ [][Next]_vars

\* run_backup and the dump process go on when they can. Nothing makes a read
\* fail, the process complain or fail, or anybody press Ctrl-C.
FairSpec == Spec /\ WF_vars(BackupStep) /\ WF_vars(DumperStep)

-----------------------------------------------------------------------------
(* What a backup promises.                                                 *)

\* A backup reported as a success stored everything the dump process wrote
\* until it ended: the pipe was emptied and nothing was cut off or invented.
NothingLost ==
  status = "success" => /\ stored = written
                        /\ dumper \in {"exited", "failed"}

\* While a mongodump whose output is being read runs, the config file with its
\* password is there for it to read.
ConfigStaysForProcess ==
  kind = "config" /\ open /\ dumper \in {"running", "warning"} => file

\* A backup that leaves a temporary file where unlink works ended in one of these
\* ways, and in no other: mongodump's config file stays when it could not be written,
\* or by a Ctrl-C between its creation and the end of the dump; sqlite's copy of the
\* database stays after everything from the snapshot on that is no success. So no
\* success leaves a file, and no failure from the start of mongodump on its password.
LeftoversAreKnown ==
  [][status' # status /\ file' /\ ~sticky =>
       \/ kind = "config" /\ pc = "config"
       \/ kind = "config" /\ pc \in {"spawn", "compress"} /\ status' = "interrupted"
       \/ kind = "file" /\ pc \in {"snapshot", "compress", "upload"} /\ status' = "failed"
       \/ kind = "file" /\ status' = "interrupted"]_vars

\* A backup returns unless its dump process is stuck on a full stderr pipe,
\* which nobody reads: no other wait in the pipeline can last.
StallsOnlyOnStderr ==
  \/ <>(pc = "done")
  \/ <>[](dumper = "warning" /\ noise = ErrCap)

\* What is left to be done at most: by run_backup, by the process, of the dump
\* and of the messages that stderr holds.
StepsOfBackup ==
  CASE pc = "adapter" -> 8 [] pc \in {"config", "source"} -> 7
    [] pc \in {"spawn", "snapshot"} -> 6 [] pc = "compress" -> 3
    [] pc = "upload" -> 2 [] pc = "release" -> 1 [] OTHER -> 0

StepsOfDumper ==
  CASE dumper = "none" -> 3 [] dumper = "running" -> 2 [] dumper = "warning" -> 1
    [] OTHER -> 0

StepsLeft ==
  StepsOfBackup + StepsOfDumper
    + (Size - written) + (Size - read) + 2 * (ErrCap - noise)

\* Every step, whoever takes it, brings the end nearer: no failure, warning or
\* broken pipe makes run_backup or the process begin again.
OnlyForward == [][StepsLeft' < StepsLeft]_vars

\* read() in compress_stream has nothing to return yet.
BackupWaits == pc = "compress" /\ out = 0 /\ dumper \notin {"exited", "failed"}

DumperGoesOn ==
  \/ dumper = "running" /\ (open /\ written < Size => out < OutCap)
  \/ dumper = "warning" /\ noise < ErrCap

\* Whenever run_backup waits, its process is there and can go on, or stands before
\* the full stderr pipe: they do not wait for each other on stdout.
WaitsForWorkOrStderr ==
  BackupWaits => DumperGoesOn \/ (dumper = "warning" /\ noise = ErrCap)

-----------------------------------------------------------------------------
(* What the design says and the code does not do.                          *)

\* "subprocess non-zero" is a backup failure (exit code 13): a backup whose
\* dump process failed is not a success.
SuccessIsComplete == status = "success" => dumper = "exited" /\ stored = Size

\* "temp files [...] removed on success, failure, or cancellation": when a backup
\* has returned, however it ended, its temporary file is gone, if unlink works.
TempFilesRemoved == status # "running" => ~file \/ sticky

=============================================================================
