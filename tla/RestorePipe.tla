----------------------------- MODULE RestorePipe -----------------------------
(***************************************************************************)
(* adapter.restore, the call with which run_restore hands a decompressed   *)
(* dump to the database: the client process it starts with all three pipes *)
(* (psql, mysql, mongorestore), or sqlite's copy over the target file.     *)
(*                                                                         *)
(*   "mysql", "psql", "mongo"  a client that gets the dump on stdin        *)
(*   "config"  mongorestore with a password, in a temporary --config file  *)
(*   "file"    sqlite: into a temporary file, then over the target         *)
(*                                                                         *)
(* The dump is in memory.  It is written to stdin to its end before        *)
(* anything else happens, and nobody reads what the client writes to       *)
(* stdout and stderr; the two are alike, and one pipe stands for both.     *)
(* The client is external: it takes what it is sent, may complain, may     *)
(* fail at any time, and exits with 0 only after the end of its input.     *)
(***************************************************************************)

EXTENDS Naturals

CONSTANTS
  Kinds,    \* the kinds of adapter, a subset of the five
  Lenient,  \* the kinds whose client goes on after a statement it rejects
  Options,  \* what a caller may say of the database to restore into
  Size,     \* the chunks of the dump
  Noise,    \* bound on the messages the client writes
  InCap,    \* the capacity of the stdin pipe
  OutCap    \* the capacity of the pipe nobody reads

Streams == {"mysql", "psql", "mongo"}

ASSUME KindsAssumption ==
  Kinds \subseteq Streams \union {"config", "file"} /\ Lenient \subseteq Kinds
ASSUME OptionsAssumption ==
  Options \subseteq {"host", "port", "user", "database", "target"}
ASSUME SizeAssumption ==
  Size \in Nat \ {0} /\ Noise \in Nat /\ InCap \in Nat \ {0} /\ OutCap \in Nat

VARIABLES
  kind,      \* the adapter's kind
  asked,     \* the options the caller gave
  given,     \* those of them the client was given
  sticky,    \* whether unlink of a temporary file is refused here
  pc,        \* the next step of adapter.restore
  status,    \* RestoreResult.status, or that dbbackup was killed
  file,      \* whether the temporary config or database file exists
  db,        \* the target file of a "file"
  sent,      \* the chunks written to stdin
  stdin,     \* whether dbbackup holds its end of stdin open
  client,    \* the client process
  pipe,      \* the chunks of them that the client did not take yet
  noise,     \* the messages in the pipe nobody reads
  said,      \* the messages written or begun
  applied,   \* the chunks the database took
  rejected   \* the chunks it refused

restore == <<kind, asked, given, sticky, pc, status, file, db, sent, stdin>>
process == <<client, pipe, noise, said, applied, rejected>>
vars == <<kind, asked, given, sticky, pc, status, file, db, sent, stdin, client, pipe,
          noise, said, applied, rejected>>

Points == {"adapter", "config", "spawn", "feed", "wait", "temp", "replace", "copying",
           "copied", "done"}

\* "talking": about to write a message. "failed": a non-zero exit status or a
\* signal.
ClientStates == {"none", "running", "talking", "exited", "failed"}

Alive == client \in {"running", "talking"}
Gone == client \in {"exited", "failed"}

TypeOK ==
  /\ kind \in Kinds
  /\ asked \in SUBSET Options
  /\ given \in SUBSET Options
  /\ sticky \in BOOLEAN
  /\ pc \in Points
  /\ status \in {"running", "success", "failed", "interrupted", "killed"}
  /\ file \in BOOLEAN
  /\ db \in {"old", "torn", "new"}
  /\ sent \in 0 .. Size
  /\ stdin \in BOOLEAN
  /\ client \in ClientStates
  /\ pipe \in 0 .. InCap
  /\ noise \in 0 .. OutCap
  /\ said \in 0 .. Noise
  /\ applied \in 0 .. Size
  /\ rejected \in 0 .. Size

Init ==
  /\ kind \in Kinds
  /\ asked \in SUBSET Options
  /\ given = {}
  /\ sticky \in BOOLEAN
  /\ pc = "adapter"
  /\ status = "running"
  /\ file = FALSE
  /\ db = "old"
  /\ sent = 0
  /\ stdin = FALSE
  /\ client = "none"
  /\ pipe = 0 /\ noise = 0 /\ said = 0
  /\ applied = 0 /\ rejected = 0

-----------------------------------------------------------------------------
Goto(from, to) ==
  /\ pc = from
  /\ pc' = to
  /\ UNCHANGED <<kind, asked, sticky, status>>

Return(from, s) ==
  /\ pc = from
  /\ pc' = "done"
  /\ status' = s
  /\ UNCHANGED <<kind, asked, sticky>>

\* unlink, best effort
Unlink == file' = (file /\ sticky)

\* What the finally clause of a "config" or a "file" does, at the points
\* inside its try.
Finally == IF kind \in {"config", "file"} THEN Unlink ELSE UNCHANGED file

-----------------------------------------------------------------------------
(* A client with pipes.                                                    *)

\* No binary, no target; Popen, mkdir or mkstemp fails.
AdapterFails ==
  /\ Return("adapter", "failed")
  /\ UNCHANGED <<given, file, db, sent, stdin, process>>

\* What the command line or the config file of a client says of the database:
\* mysql's names one, the target database if there is one.
Passed ==
  CASE kind = "mysql" -> {"host", IF "target" \in asked THEN "target" ELSE "database"}
    [] kind = "config" -> {"host", "port", "user", "database"}
    [] OTHER -> {}

\* Popen(stdin=PIPE, stdout=PIPE, stderr=PIPE)
Started ==
  /\ client' = "running"
  /\ stdin' = TRUE
  /\ given' = asked \intersect Passed
  /\ UNCHANGED <<db, sent, pipe, noise, said, applied, rejected>>

Spawn ==
  /\ kind \in Streams
  /\ Goto("adapter", "feed")
  /\ Started
  /\ UNCHANGED file

MakeConfig ==
  /\ kind = "config"
  /\ Goto("adapter", "config")
  /\ file' = TRUE
  /\ UNCHANGED <<given, db, sent, stdin, process>>

WriteConfig ==
  /\ Goto("config", "spawn")
  /\ UNCHANGED <<given, file, db, sent, stdin, process>>

\* chmod or write_text fails, before the try whose finally removes the file.
WriteConfigFails ==
  /\ Return("config", "failed")
  /\ UNCHANGED <<given, file, db, sent, stdin, process>>

\* Faulty variant: the finally clause covers the start of the process only.
SpawnConfigured_Early ==
  /\ Goto("spawn", "feed")
  /\ Started
  /\ Unlink

SpawnConfigured ==
  /\ Goto("spawn", "feed")
  /\ Started
  /\ UNCHANGED file

SpawnConfiguredFails ==
  /\ Return("spawn", "failed")
  /\ Unlink
  /\ UNCHANGED <<given, db, sent, stdin, process>>

\* Faulty variant: an end of the pipe that is full is not waited for.
Feed_Unbounded ==
  /\ pc = "feed" /\ sent < Size /\ Alive
  /\ sent' = sent + 1
  /\ pipe' = pipe + 1
  /\ UNCHANGED <<kind, asked, given, sticky, pc, status, file, db, stdin, client, noise,
                 said, applied, rejected>>

\* copyfileobj into stdin
Feed ==
  /\ pc = "feed" /\ sent < Size
  /\ Alive /\ pipe < InCap
  /\ sent' = sent + 1
  /\ pipe' = pipe + 1
  /\ UNCHANGED <<kind, asked, given, sticky, pc, status, file, db, stdin, client, noise,
                 said, applied, rejected>>

\* EPIPE, or the flush when stdin is closed.
FeedBroken ==
  /\ Gone
  /\ Return("feed", "failed")
  /\ Finally
  /\ UNCHANGED <<given, db, sent, stdin, process>>

\* Faulty variant: stdin is left open for the process to see its end.
CloseStdin_Forgotten ==
  /\ sent = Size
  /\ Goto("feed", "wait")
  /\ UNCHANGED <<given, file, db, sent, stdin, process>>

CloseStdin ==
  /\ sent = Size
  /\ Goto("feed", "wait")
  /\ stdin' = FALSE
  /\ UNCHANGED <<given, file, db, sent, process>>

\* Faulty variant: a success is returned without looking at returncode.
WaitClient_AnyCode ==
  /\ Gone
  /\ Return("wait", "success")
  /\ Finally
  /\ UNCHANGED <<given, db, sent, stdin, process>>

\* Faulty variant: the process is not waited for.
WaitClient_Detached ==
  /\ Return("wait", IF client = "failed" THEN "failed" ELSE "success")
  /\ Finally
  /\ UNCHANGED <<given, db, sent, stdin, process>>

WaitClient ==
  /\ Gone
  /\ Return("wait", IF client = "failed" THEN "failed" ELSE "success")
  /\ Finally
  /\ UNCHANGED <<given, db, sent, stdin, process>>

-----------------------------------------------------------------------------
(* sqlite                                                                  *)

MakeTemp ==
  /\ kind = "file"
  /\ Goto("adapter", "temp")
  /\ file' = TRUE
  /\ UNCHANGED <<given, db, sent, stdin, process>>

WriteTemp ==
  /\ Goto("temp", "replace")
  /\ UNCHANGED <<given, file, db, sent, stdin, process>>

TempFails ==
  /\ \E p \in {"temp", "replace"} : Return(p, "failed")
  /\ Unlink
  /\ UNCHANGED <<given, db, sent, stdin, process>>

\* copyfile opens the target, which empties it.
Truncate ==
  /\ Goto("replace", "copying")
  /\ db' = "torn"
  /\ UNCHANGED <<given, file, sent, stdin, process>>

CopyFails ==
  /\ Return("copying", "failed")
  /\ Unlink
  /\ UNCHANGED <<given, db, sent, stdin, process>>

Copied ==
  /\ Goto("copying", "copied")
  /\ db' = "new"
  /\ UNCHANGED <<given, file, sent, stdin, process>>

RemoveTemp ==
  /\ Return("copied", "success")
  /\ Unlink
  /\ UNCHANGED <<given, db, sent, stdin, process>>

-----------------------------------------------------------------------------
(* Other ends.                                                             *)

\* Inside the try: from the start of the client or the temporary file on.
Guarded == {"spawn", "feed", "wait", "temp", "replace", "copying", "copied"}

\* Faulty variant: the clean-up is in an except Exception clause.
Interrupt_NotCaught ==
  /\ pc # "done"
  /\ Return(pc, "interrupted")
  /\ UNCHANGED <<given, file, db, sent, stdin, process>>

\* KeyboardInterrupt. A temporary file may exist the instant before its try.
Interrupt ==
  /\ pc # "done"
  /\ Return(pc, "interrupted")
  /\ \/ pc \in Guarded /\ Finally
     \/ pc \in Points \ (Guarded \ {"temp"}) /\ UNCHANGED file
  /\ UNCHANGED <<given, db, sent, stdin, process>>

Kill ==
  /\ pc # "done"
  /\ Return(pc, "killed")
  /\ UNCHANGED <<given, file, db, sent, stdin, process>>

\* dbbackup has ended, and its end of stdin with it.
Leave ==
  /\ pc = "done" /\ stdin
  /\ stdin' = FALSE
  /\ UNCHANGED <<kind, asked, given, sticky, pc, status, file, db, sent, process>>

-----------------------------------------------------------------------------
(* The client (external).                                                  *)

\* Takes a chunk and applies it.
Apply ==
  /\ client = "running" /\ pipe > 0
  /\ pipe' = pipe - 1
  /\ applied' = applied + 1
  /\ UNCHANGED <<restore, client, noise, said, rejected>>

\* Takes a chunk the database refuses.
Reject ==
  /\ client = "running" /\ pipe > 0
  /\ pipe' = pipe - 1
  /\ rejected' = rejected + 1
  /\ client' = IF kind \in Lenient THEN "running" ELSE "failed"
  /\ UNCHANGED <<restore, noise, said, applied>>

Talk ==
  /\ client = "running" /\ said < Noise
  /\ client' = "talking"
  /\ said' = said + 1
  /\ UNCHANGED <<restore, pipe, noise, applied, rejected>>

WriteMessage ==
  /\ client = "talking" /\ noise < OutCap
  /\ client' = "running"
  /\ noise' = noise + 1
  /\ UNCHANGED <<restore, pipe, said, applied, rejected>>

Exit ==
  /\ client = "running" /\ pipe = 0 /\ ~stdin
  /\ client' = "exited"
  /\ UNCHANGED <<restore, pipe, noise, said, applied, rejected>>

\* The server, the network or a signal ends it.
ClientFails ==
  /\ Alive
  /\ client' = "failed"
  /\ UNCHANGED <<restore, pipe, noise, said, applied, rejected>>

-----------------------------------------------------------------------------
RestoreStep ==
  \/ AdapterFails \/ Spawn
  \/ MakeConfig \/ WriteConfig \/ WriteConfigFails
  \/ SpawnConfigured \/ SpawnConfiguredFails
  \/ Feed \/ FeedBroken \/ CloseStdin \/ WaitClient
  \/ MakeTemp \/ WriteTemp \/ TempFails \/ Truncate \/ CopyFails \/ Copied
  \/ RemoveTemp

ClientStep == Apply \/ WriteMessage \/ Exit

Next ==
  \/ RestoreStep \/ Interrupt \/ Kill \/ Leave
  \/ ClientStep \/ Reject \/ Talk \/ ClientFails

Spec == Init /\ [][Next]_vars

\* adapter.restore and the client go on when they can. Nothing makes the
\* client complain or fail, or anybody press Ctrl-C.
FairSpec == Spec /\ WF_vars(RestoreStep) /\ WF_vars(ClientStep)

-----------------------------------------------------------------------------
(* What adapter.restore promises.                                          *)

\* A restore reported as a success has given the client the whole dump, the
\* client has taken all of it and ended well, and the database took all that a
\* client which stops at errors was sent; sqlite's target is the new database.
SuccessIsApplied ==
  status = "success" =>
    IF kind = "file" THEN db = "new"
    ELSE /\ client = "exited"
         /\ applied + rejected = Size
         /\ kind \notin Lenient => rejected = 0

\* While the mongorestore of a restore that goes on runs, the config file with
\* its password is there for it to read.
ConfigOutlivesClient ==
  kind = "config" /\ Alive /\ status = "running" => file

\* When a restore has ended in any way but a kill and its client had been
\* started, no config file with the password is left; no copy of the database is
\* left by a sqlite restore that returned (unless unlink is refused).
NothingLeftBehind ==
  \/ kind = "config" /\ client # "none" /\ status \in {"success", "failed", "interrupted"}
  \/ kind = "file" /\ status \in {"success", "failed"}
  => ~file \/ sticky

\* How much of the dump the database was given.
Progress ==
  CASE kind = "file" /\ db = "old" -> "nothing"
    [] kind = "file" /\ db = "new" -> "all"
    [] kind # "file" /\ applied + rejected = 0 -> "nothing"
    [] kind # "file" /\ applied + rejected = Size -> "all"
    [] OTHER -> "part"

Contract == INSTANCE RestoreContract WITH progress <- Progress

\* An adapter that has returned or raised has stopped: what its pipes and its
\* process do is what RestoreContract allows.
ImplementsContract == Contract!Spec

\* A restore returns unless its client is stuck on a full output pipe, which
\* nobody reads: writing and waiting cannot block each other otherwise.
StallsOnlyOnOutput ==
  \/ <>(pc = "done")
  \/ <>[](client = "talking" /\ noise = OutCap)

\* What is left to be done at most: by adapter.restore, by the client and of its
\* input's end, and of the dump and the messages that the output pipe holds.
StepsOfCall ==
  CASE pc = "adapter" -> 5 [] pc \in {"config", "temp"} -> 4
    [] pc \in {"spawn", "replace"} -> 3 [] pc \in {"feed", "copying"} -> 2
    [] pc \in {"wait", "copied"} -> 1 [] OTHER -> 0

StepsOfClient ==
  (CASE client = "none" -> 3 [] client = "running" -> 2 [] client = "talking" -> 1
     [] OTHER -> 0)
  + (IF stdin THEN 1 ELSE 0)

ChunksLeft == (Size - sent) + (Size - applied - rejected) + 2 * (OutCap - noise)

StepsLeft == StepsOfCall + StepsOfClient + ChunksLeft

\* Every step, whoever takes it, brings the end nearer: no broken pipe, rejected
\* statement or message makes the call or the client begin again.
OnlyForward == [][StepsLeft' < StepsLeft]_vars

\* copyfileobj stands before a full pipe, or Popen.wait before a client that runs.
RestoreWaits ==
  \/ pc = "feed" /\ sent < Size /\ Alive /\ pipe = InCap
  \/ pc = "wait" /\ Alive

ClientGoesOn ==
  \/ client = "running" /\ (pipe > 0 \/ ~stdin)
  \/ client = "talking" /\ noise < OutCap

\* Whenever adapter.restore waits, its client has something to take or the end of
\* its input to see, or stands before the full output pipe: they do not wait for
\* each other on stdin.
WaitsForWorkOrOutput ==
  RestoreWaits => ClientGoesOn \/ (client = "talking" /\ noise = OutCap)

-----------------------------------------------------------------------------
(* What the documentation says and the code does not do.                   *)

\* "Restore from a backup artifact into the target described by opts": whatever
\* the caller said of the place to restore into, the client that is started was told.
RestoresWhereAsked ==
  client # "none" =>
    (IF "target" \in asked THEN asked \ {"database"} ELSE asked) \subseteq given

\* "Replace destination atomically": a restore that has ended, in any way, left the
\* old database or the new one.
ReplacementIsAtomic == status # "running" => db # "torn"

=============================================================================
