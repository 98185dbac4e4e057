----------------------------- MODULE CommandLine -----------------------------
(***************************************************************************)
(* One invocation of dbbackup (cli.py), from its flags, the TOML files and *)
(* the environment to its exit code.  Each command checks its arguments in *)
(* an order of its own.  The pipelines that a command calls end in any way *)
(* their results allow; BackupRun and RestorePipe say when.  "schedule"    *)
(* goes through start_scheduler (JobRegistration) and stays in             *)
(* wait_for_shutdown (Scheduler) until that returns an exit code.          *)
(*                                                                         *)
(* Of an argument the model keeps what the code tells apart: a string is   *)
(* given or "", a URL is good or not.                                      *)
(***************************************************************************)

EXTENDS JobRegistration

CONSTANTS
  Invocations,  \* the invocations: records of command, flags, files and environment
  None          \* no exit code yet

ASSUME NoneAssumption == None \notin {0, 1, 10, 11, 12, 13, 14}

\* The words the code itself writes are strings, which the provers do not know.
ASSUME WordsAssumption == {"", "job", "local", "s3"} \subseteq STRING

IsFile(f) ==
  /\ f.state \in {"absent", "broken", "read"}
  /\ IsLayer(f.flat) /\ IsLayer(f.block)
  /\ f.tables \in Seq(JobTable)

ASSUME InvocationsAssumption ==
  \A i \in Invocations :
    /\ i.command \in {"backup", "restore", "test", "schedule"}
    /\ i.storage \in STRING /\ i.path \in STRING
    /\ i.config \in BOOLEAN
    /\ IsFile(i.user) /\ IsFile(i.project) /\ IsFile(i.named)
    /\ IsLayer(i.env)

VARIABLES
  inv,      \* the invocation
  pc,       \* its next step
  storage,  \* cli_storage, and its default: the storage the options get
  path,     \* cli_local_path
  started,  \* whether the pipeline, the adapter or the daemon was called
  status,   \* how it ended
  cause,    \* why it failed
  words,    \* of the words the command looks for, those in the error message
  code      \* the exit code

invocation == <<inv, storage, path>>
outcome == <<started, status, cause, words>>
vars == <<inv, pc, storage, path, started, status, cause, words, code, registration>>

Codes == {0, 1, 10, 11, 12, 13, 14}
Causes == {"binary", "database", "storage", "other"}
Points == {"start", "storage", "check", "connect", "run", "load", "register", "exit", "done"}

TypeOK ==
  /\ pc \in Points
  /\ storage \in STRING
  /\ path \in STRING
  /\ started \in BOOLEAN
  /\ status \in {"none", "success", "failed", "interrupted"}
  /\ cause \in Causes \union {"none"}
  /\ words \subseteq {"PATH", "connection"}
  /\ code \in Codes \union {None}
  /\ RegistrationTypeOK

Init ==
  /\ inv \in Invocations
  /\ pc = "start"
  /\ storage = inv.storage
  /\ path = inv.path
  /\ started = FALSE
  /\ status = "none"
  /\ cause = "none"
  /\ words = {}
  /\ code = None
  /\ RegistrationInit

-----------------------------------------------------------------------------
OneShot == inv.command \in {"backup", "restore", "test"}

Goto(from, to) == pc = from /\ pc' = to /\ UNCHANGED code

\* raise typer.Exit
Exit(from, c) == pc = from /\ pc' = "done" /\ code' = c

UsageError(from) ==
  /\ Exit(from, 10)
  /\ UNCHANGED <<invocation, outcome, registration>>

Begin ==
  /\ Goto("start", CASE inv.command = "backup" -> "storage"
                     [] inv.command = "schedule" -> "load"
                     [] OTHER -> "connect")
  /\ inv.command = "restore" => inv.key
  /\ inv.command = "schedule" => inv.daemon
  /\ UNCHANGED <<invocation, outcome, registration>>

KeyMissing == inv.command = "restore" /\ ~inv.key /\ UsageError("start")

DaemonMissing == inv.command = "schedule" /\ ~inv.daemon /\ UsageError("start")

-----------------------------------------------------------------------------
(* Storage: load_config only if --storage is not given.                    *)

\* The file that --config names stands in for ./dbbackup.toml.
Project == IF inv.config THEN inv.named ELSE inv.project

Config == Merged(inv.user, Project, inv.env, Nothing)

AfterStorage == IF inv.command = "backup" THEN "check" ELSE "run"

\* Any exception of load_config is swallowed.
StorageFromFlags ==
  /\ Goto("storage", AfterStorage)
  /\ inv.storage # "" \/ Raises(Config)
  /\ storage' = Lower(Or(inv.storage, "s3"))
  /\ UNCHANGED <<inv, path, outcome, registration>>

StorageFromConfig ==
  /\ Goto("storage", AfterStorage)
  /\ inv.storage = "" /\ ~Raises(Config)
  /\ storage' = StorageType(Config)
  /\ path' = Or(inv.path, LocalPath(Config))
  /\ UNCHANGED <<inv, outcome, registration>>

\* Faulty variant: only the type is looked at.
StorageUsable_TypeOnly == storage \in {"local", "s3"}

StorageUsable ==
  CASE storage = "local" -> path # ""
    [] storage = "s3" -> inv.bucket
    [] OTHER -> FALSE

CheckStorage ==
  /\ Goto("check", "connect")
  /\ StorageUsable
  /\ UNCHANGED <<invocation, outcome, registration>>

StorageRejected == ~StorageUsable /\ UsageError("check")

-----------------------------------------------------------------------------
(* _resolve_connection                                                     *)

\* --url alone, or consistent with --db; or --db, whatever it names.
ConnectionResolves ==
  IF inv.conn.url = "none" THEN inv.conn.db # "none"
  ELSE inv.conn.url = "good" /\ ~inv.conn.fields /\ inv.conn.db \in {"none", "same"}

\* "unknown" is no database type; without --url nobody looks before the adapter
\* is asked for.
AdapterExists == inv.conn.db # "unknown"

ResolveConnection ==
  /\ Goto("connect", IF inv.command = "restore" THEN "storage" ELSE "run")
  /\ ConnectionResolves
  /\ UNCHANGED <<invocation, outcome, registration>>

ConnectionRejected == ~ConnectionResolves /\ UsageError("connect")

-----------------------------------------------------------------------------
(* The pipeline, and what the command makes of its result.                 *)

\* get_storage_backend raises in run_restore; what is not "local" is S3.
BackendExists == IF storage = "local" THEN path # "" ELSE inv.bucket

Ended(s, c, w) ==
  /\ Goto("run", "exit")
  /\ started' = TRUE
  /\ status' = s
  /\ cause' = c
  /\ words' = w
  /\ UNCHANGED <<invocation, registration>>

Succeeds ==
  /\ AdapterExists
  /\ inv.command = "test" \/ BackendExists
  /\ Ended("success", "none", {})

\* BinaryNotFoundError says "not found on PATH", and a hint; no other error of the
\* code does, and any may speak of a connection.
Message(c) ==
  {w \in SUBSET {"PATH", "connection"} : "PATH" \in w <=> c = "binary"}

\* get_adapter comes first. run_backup asks for the storage after the dump,
\* run_restore before it asks for anything else, a connection test not at all.
MayFail(c) ==
  /\ c = "database" <=> ~AdapterExists
  /\ c = "storage" => inv.command # "test" /\ ~BackendExists
  /\ inv.command = "restore" /\ AdapterExists /\ ~BackendExists => c = "storage"

Fails ==
  \E c \in Causes : MayFail(c) /\ \E w \in Message(c) : Ended("failed", c, w)

Interrupted == inv.command # "test" /\ Ended("interrupted", "none", {})

\* Faulty variant: the branch for a connection comes first.
FailureCode_ConnectionFirst ==
  CASE inv.command = "restore" -> 13
    [] inv.command = "test" -> IF cause = "binary" THEN 11 ELSE 12
    [] OTHER -> IF "connection" \in words THEN 12 ELSE IF "PATH" \in words THEN 11 ELSE 13

\* run_restore and run_backup turn every exception into a failed result; only
\* backup reads its message.
FailureCode ==
  CASE inv.command = "restore" -> 13
    [] inv.command = "test" -> IF cause = "binary" THEN 11 ELSE 12
    [] OTHER -> IF "PATH" \in words THEN 11 ELSE IF "connection" \in words THEN 12 ELSE 13

ExitWithResult ==
  /\ OneShot
  /\ Exit("exit", CASE status = "success" -> 0
                    [] status = "interrupted" -> 14
                    [] OTHER -> FailureCode)
  /\ UNCHANGED <<invocation, outcome, registration>>

-----------------------------------------------------------------------------
(* schedule                                                                *)

\* The first of these files that exists, and it alone.
ScheduleFile ==
  CASE inv.config /\ inv.named.state # "absent" -> inv.named
    [] inv.user.state # "absent" -> inv.user
    [] OTHER -> inv.project

ReadTables ==
  LET f == ScheduleFile IN
  /\ Goto("load", "register")
  /\ f.state # "broken"
  /\ Load(IF Readable(f) THEN f.tables ELSE <<>>,
          [type |-> Get(Block(f), "storage_type", ""), path |-> Get(Block(f), "local_path", "")])
  /\ UNCHANGED <<invocation, outcome>>

\* An exception that the command does not catch.
Traceback(from) ==
  /\ Exit(from, 1)
  /\ UNCHANGED <<invocation, outcome, registration>>

ReadTablesRaises == ScheduleFile.state = "broken" /\ Traceback("load")

Register ==
  /\ pc = "register"
  /\ RegistrationStep
  /\ UNCHANGED <<pc, code, invocation, outcome>>

RegisterRaises == phase = "raised" /\ Traceback("register")

Serve ==
  /\ Goto("register", "exit")
  /\ phase = "running"
  /\ started' = TRUE
  /\ UNCHANGED <<status, cause, words, invocation, registration>>

\* wait_for_shutdown
ExitDaemon ==
  /\ ~OneShot
  /\ \E c \in {0, 14} : Exit("exit", c)
  /\ UNCHANGED <<invocation, outcome, registration>>

-----------------------------------------------------------------------------
Next ==
  \/ Begin \/ KeyMissing \/ DaemonMissing
  \/ StorageFromFlags \/ StorageFromConfig \/ CheckStorage \/ StorageRejected
  \/ ResolveConnection \/ ConnectionRejected
  \/ Succeeds \/ Fails \/ Interrupted \/ ExitWithResult
  \/ ReadTables \/ ReadTablesRaises \/ Register \/ RegisterRaises \/ Serve \/ ExitDaemon

Spec == Init /\ [][Next]_vars

-----------------------------------------------------------------------------
(* What an invocation promises.                                            *)

\* A backup or restore that leaves its storage to the configuration uses what the
\* highest layer says (S3 if that is no storage), for the type and for the path
\* each on its own: defaults, user file, project file or --config, environment,
\* flags. Not covered: --storage, with which no file is read (see TomlPathSuffices),
\* and a port that is no number, which makes the command forget the configuration.
LayersRespected ==
  /\ inv.command \in {"backup", "restore"} /\ pc \in {"check", "run", "exit"}
  /\ inv.storage = "" /\ ~Raises(Config)
  => LET flags == IF inv.path = "" THEN Nothing ELSE [s \in {"local_path"} |-> inv.path]
         types == Documented(inv.user, Project, inv.env, flags, "storage_type", "s3") IN
     /\ \E type \in types : storage = StorageOf(type)
     /\ path \in Documented(inv.user, Project, inv.env, flags, "local_path", "")

\* A backup or a connection test exits with 11 just when a binary is missing, though
\* the class of the exception does not reach the backup command: it has the words of
\* the message, which may also be those of a connection failure.
MissingBinaryToldApart ==
  inv.command \in {"backup", "test"} /\ code # None => (code = 11 <=> cause = "binary")

\* No backup dumps a database to find that it has no place for the dump: run_backup
\* looks for the storage only when the dump is there, so whatever it could not use
\* is found before, in whichever way the storage was named.
NoDumpForNothing == inv.command = "backup" => cause # "storage"

-----------------------------------------------------------------------------
(* What the documentation says and the code does not do.                   *)

\* "11: binary missing", "10: validation / config error", of every one-shot command;
\* "Missing/empty --s3-bucket now fails closed (exit 10)".
RestoreCodesDocumented ==
  inv.command = "restore" /\ code # None =>
    /\ cause = "binary" => code = 11
    /\ cause = "storage" => code = 10

\* "--storage local requires --local-path or [storage.local].path in TOML": a backup
\* with --storage local has the path that the project's file gives.
TomlPathSuffices ==
  /\ inv.command = "backup" /\ pc = "check" /\ storage = "local" /\ ~Raises(Config)
  /\ Get(Block(Project), "local_path", "") # ""
  => path # ""

=============================================================================
