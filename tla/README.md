# A verification project for dbbackup

dbbackup is a command line program and a scheduler daemon that dumps a MySQL,
PostgreSQL, MongoDB or SQLite database, compresses the dump and puts it into S3
or a local directory, and restores from there. This directory models the parts of
it whose correctness depends on an order of steps, and says what was checked with
TLC and what was proved with TLAPS. Paths below are relative to `src/dbbackup/`.

## 1. Inventory

| Component | State it keeps | Operations | Interacts through |
|---|---|---|---|
| Local storage (`storage/local.py`) | files under a root: artifacts, sidecars, temporary files | `upload`, `download` | the file system, with other processes and threads |
| Storage contract (`storage/base.py`) | none | `upload`, `download` | called by the pipelines |
| Backup pipeline (`core/backup.py`, `core/compression.py`, `models.py`) | one artifact and its stream | `run_backup` | adapter, storage |
| Restore pipeline (`core/restore.py`) | one open handle, the expected digest | `run_restore` | storage, sidecar, adapter |
| Adapters (`adapters/*.py`) | a dump or restore client, its pipes, a config or database file | `backup`, `restore`, `test_connection` | pipes, files |
| Scheduler daemon (`core/scheduler.py`) | per job a count and a lock; the active-job registry; the shutdown event; the jobs, before and after `start` | `start_scheduler`, the job runner, `wait_for_shutdown`, `shutdown` | APScheduler's pool and store, signals |
| S3 storage (`storage/s3.py`) | none of its own; objects and multipart uploads on the server | `upload`, `download` | boto3, requests that may be repeated or late |
| Configuration (`config.py`) | none | `load_config` | two TOML files, the environment |
| Command line (`cli.py`) | the invocation, until its exit code | `backup`, `restore`, `test-connection`, `schedule` | everything above, once |
| Redaction, URLs, notification, logging, work directories | none | string functions, handlers | everything above |

What is hard in them, and what makes each correct:

- **Local storage.** Several calls publish under one name: scheduled jobs, a
  manual run beside the daemon, two hosts on a shared volume. `upload` writes a
  temporary file and publishes it in one of four ways (`os.replace` with force,
  `os.link` without, and two fallbacks that depend on the errno of `os.link`), then
  writes a sidecar with the digest. It can be killed or fail at each step.
  Correct means: an unforced upload never replaces anything, exactly one of
  several rivals wins, what was acknowledged stays and is described by its own
  sidecar, and a half-written artifact is not visible.
- **Restore.** It opens the artifact, then reads the sidecar, then hashes, then
  decompresses, while uploads go on. Correct means: what is applied under
  `--verify` is the whole artifact; an acknowledged backup can be restored.
- **Backup.** A process writes two pipes of which one is read. Correct means:
  nothing is cut off, files with passwords or data go away and not too early, and
  the pipeline does not stall.
- **Adapter, restoring.** A client has three pipes: one is written to its end first,
  the two others are never read. Correct means: a success was taken to the end by a
  client that ended well, the config file is there for the client and gone
  afterwards, the pipeline does not stall, and the client was told where to restore.
- **S3.** boto3 repeats requests whose answer it missed, aborts what it gave up, and
  reads a large object piece by piece, all while other calls use the same key.
  Correct means: what was acknowledged is not undone by a stray attempt or abort,
  and only another upload to the key can mix or cut off a download.
- **Registration.** A job gets its trigger in one loop over the tables and its options
  in another, and only `start` resolves equal ids. Correct means: a job runs what
  its table says, where its table says, in sight of the drain.
- **Configuration and command line.** Five layers are merged by two mechanisms, each
  command checks its arguments in an order of its own, and an exit code is read
  off the text of a message. Correct means: the documented precedence, a missing
  binary told apart from everything else, and no dump without a place for it.
- **Scheduler.** Pool threads and other callers share a runner whose count is
  guarded on entry and not on exit; the main thread drains by looking at a
  registry while jobs still start. Correct means: no job overlaps itself, no job is
  blocked for ever, exit code 0 means that nothing is running, and a signal ends the
  daemon.

`PROJECT.json` lists the hazards with their lines under `hazards`.

## 2. Modules

| Module | Models | Used by |
|---|---|---|
| `ArtifactStore` | what `StorageBackend.upload` promises: a put in one step, answered later | refined by `LocalStorage` |
| `LocalStorage` | `LocalBackend.upload`, one action per system call that others can see | `LocalRestore`, `MCLocalStorage` |
| `LocalRestore` | `run_restore` from local storage, composed with `LocalStorage` | `MCLocalRestore` |
| `Scheduler` | runner, registry, drain and shutdown, with the APScheduler they rely on | `MCScheduler` |
| `BackupRun` | `run_backup` with its adapter, the dump process and both pipes | `MCBackupRun` |
| `RestoreContract` | what `run_restore` takes for granted of `adapter.restore` | refined by `RestorePipe` |
| `RestorePipe` | `adapter.restore` with its client and pipes, or sqlite's copy | `MCRestorePipe` |
| `S3Store` | `S3Backend` with boto3's attempts, the server, and downloads beside uploads | `MCS3Store` |
| `ConfigLayers` | `load_config` as operators, and the documented precedence as their reference | `JobRegistration`, `CommandLine` |
| `JobRegistration` | `start_scheduler`: from job tables to the jobs that run | `CommandLine` |
| `CommandLine` | one invocation from its flags to its exit code; composes the two above | `MCCommandLine` |
| `*Proofs` | the theorems about the module of that name | |
| `MC*` | the instances TLC checks: values and symmetry sets | the `.cfg` files |

Operators named `<Action>_<Word>` are faulty variants of the action after them. No
specification uses one: each is what the code would do with one plausible
mistake, and shows that a property notices it.

### LocalStorage

The file at a key is the uploader that wrote it (`dest[k]`), which stands for its
inode; `data[u]` says how much of u's dump that inode holds. So a handle that was
opened before a replacement still names the old inode, and a copy in place is seen by
everybody who has the inode open. `pc[u]` is the next step of the call: `begin`
(pre-check, line 134), `open` and `write` (166-184), `publish` (`os.link` or
`os.replace`, 206 and 260), `unlink` (209), `excl`, `copy`, `copied` (the EXDEV fallback,
227-244), `recheck`, `late` (the other errnos, 254-258), `stat` (288), `sidecar`
(299-305), `swap` (306). `fs` is what `os.link` may do on the volume: `hardlink` always links,
`exdev` always raises EXDEV, `nolink` links or raises another errno, each time anew (EPERM
where there are no hard links; EMLINK, EIO or ENOSPC where there are); EEXIST comes first on
all of them. `Fail` is every other exception with the handler at 315-322; `Crash` is a
kill or a `KeyboardInterrupt`, which that handler does not catch.

Left out: key sanitising and the jail check (functions of the key alone), best-effort
`chmod` and directory `fsync`, and the durability of renames across a power failure.

### LocalRestore

`handle[r]` is the inode a restore opened, `expected[r]` the digest in the sidecar it
read, `applied[r]` what it handed to the adapter. Digests are equal just when they
are of the same uploader's whole bytes. An empty file decompresses to nothing
without an error, as Python's gzip does, and a truncated one raises. `settled` is a history
variable for `AcknowledgedIsRestorable`. `adapter.restore` returns or raises in one
step.

### Scheduler

A caller is a pool worker or a thread that calls a runner itself, as the comment at
`scheduler.py:95-98` expects. `pc[c]` walks through the runner: `guard` takes the
lock and reads the count (109-110), `claim` and `register` write (116-117), `body` is
`run_backup`, `clear` and `unregister` are the two lines of the finally clause
(163-165), which run without the lock. The main thread's `mpc` walks through
`wait_for_shutdown`: the loop test, the copy of the registry, the look at the counts
one by one, the second look at 269, and the two ends. APScheduler is external
and modelled from its use: `Fire`, `PickUp`, `Misfire`, `Finish`. Jobs of one firing
time are coalesced there, and a firing at `max_instances` is dropped. Time is
abstract: `Expire` is the deadline, at any moment after the main thread woke. The grace
timer of `shutdown` (225) finds the scheduler stopped whenever it rings, so it has no action.

Two ways of counting meet in the guard: the executor lets a firing in only if the job has no
instance, and the runner only if its count is down. `SkipsHaveARun` says what comes of it: a
trigger is skipped beside a run of its job and never otherwise, and two of the pool's triggers
never meet. `ActiveIsRegistered` rests on the executor alone: the runner lowers its count before
it removes its registration, and that no run starts in between is because the slot is kept until
the runner has returned. With direct callers it can happen, and the property leaves them out.

### BackupRun

Three kinds of adapter: `stream` (mysqldump, pg_dump, mongodump without a password),
`config` (mongodump with a password, in a temporary `--config` file) and `file`
(sqlite's backup API into a temporary file). A chunk is what one read or write
moves. `written`, `out` and `read` are the chunks written so far, in the pipe, and
compressed; `noise` is the messages in the stderr pipe. The dump process is external:
it writes both in any order, fails at any time and exits with 0 after its last
chunk. `sticky` is a file system that refuses the best-effort unlink. `LeftoversAreKnown`
names the exits that leave a temporary file, `TempFilesRemoved` is what the design says of them.

### RestorePipe

Five kinds of adapter: clients that get the dump on stdin (`psql`, `mysql`, `mongo`),
mongorestore with a password (`config`), and sqlite (`file`). `pc` is the next step of
`adapter.restore`: `feed` is the `copyfileobj` into stdin, `wait` is `process.wait`, and
the steps of sqlite end with `copying`, the in-place `copyfile` (sqlite.py:171) that
leaves `db` torn when it fails. `pipe` is what the client has not taken yet, `noise` what it
wrote into the pipe nobody reads; stdout and stderr are alike in that, and one pipe
stands for both. The client is external. A `Lenient` one goes on after a
statement the database refuses (psql without `ON_ERROR_STOP`, mongorestore without
`--stopOnError`); any may fail at any time, and exits with 0 only
after the end of its input. `given` is what its command line or config file says of the
options the caller `asked` for. Dump, client and pipes are measured in chunks.

`RestoreContract` is the same call without adapters: it works on the database, and
returns, raises, or is cut off. That every adapter implements it is
what allows `LocalRestore` to take `adapter.restore` as one step.

### S3Store

`object[k]` is the upload whose artifact is at a key. An upload is of one piece
(one PutObject) or `Large` (parts, then a completion). `attempt[u]` is the attempt
that the client waits for, `late[u]` counts those it gave up on which the server
may still execute; `tries[u]` counts them against `max_attempts` (s3.py:41). `cancel` is
the transfer's own abort of its multipart upload, `handler` is the backend's (s3.py:81-90),
whose `UploadId="multipart"` names no upload. boto3 and the server are external, modelled from
how the backend calls them. A download asks for the size (`head`), then reads one range at a time,
in any order, each of the object of its moment; `got` says which upload each piece is of. A piece
that the object of the moment does not have is refused, the last request has no upper end. What
decompression makes of a mixture (gzip has a checksum) is not modelled.

### JobRegistration, ConfigLayers, CommandLine

`Load` is the schedule block and the size of the pool, `AddJob` a turn of the first loop
(scheduler.py:339-364), `Rewire` one of the second (372-400), `Start` the store that keeps the
last job of an id. A table is a record of the keys that matter; `opts.table` says which table a
job's options come from, `trigger` which one its times come from. `Destined` says where the
backups of a table go, for each way in which it may name a storage: by `storage`, by `storage_type`,
by neither, in capitals or not, with a path of its own or without.

`ConfigLayers` writes a layer as a function from the settings it gives, and a merge as `Over`.
`Merged` is the code, `Documented` the sentence in README.md and `config.py` about precedence.

`CommandLine` walks one invocation through its command: `storage`, `check` and `connect` in
the order of that command, `run` for the pipeline (which ends in any way its result allows),
`load` and `register` for the daemon, `exit`. Of a string the model keeps what the code tells
apart: a storage type has its capitals, since `lower` is applied in some places and not in others. A
failure has a `cause`, and a message of which `words` are those the `backup` command looks for: a missing
binary always says PATH, and any message may speak of a connection. The pipelines' own behaviour is in the
other modules.

## 3. Runs

| Run | Question | Instance |
|---|---|---|
| `local_store` | do uploads implement the store, are their promises kept, and what does a restore beside them get? | 2 calls, 1 restore, 2 keys, both flags, all volumes |
| `scheduler_guard` | does the guard hold against callers of every kind, open again, and skip only what it should? | 1 job, 3 workers, 2 direct callers |
| `scheduler_drain` | what does the exit code of the daemon mean, and does it exit? | 2 jobs, 4 workers |
| `backup_run` | is all that was written stored, which files stay after which exits, can it stall? | 3 chunks, stdout pipe of 1, stderr pipe of 1, 2 messages |
| `restore_run` | is a success applied, are files there and removed, can it stall, is it as `run_restore` needs it? | every kind, 3 chunks, stdin pipe of 2, output pipe of 1, 2 messages |
| `s3_upload` | does S3 keep what it acknowledged, with repeated and late requests, and what can spoil a download beside uploads? | 2 uploads of 1 to 3 pieces, 1 download, 2 keys, 4 attempts |
| `command_line` | are the layers as documented, is a missing binary told apart, is the storage checked before the dump, and does the daemon start with the jobs of its tables? | every pair of TOML files, environments, flags; up to 3 job tables |

and five runs that show a sentence of the documentation or a comment not to hold:

| Run | Violated | What happens |
|---|---|---|
| `local_clobber` | `NeverClobbers` | where `os.link` is refused, the fallback at `local.py:254-258` looks and then replaces: two unforced calls both succeed |
| `scheduler_code` | `InterruptedMeansExpired` | a job that fires between the loop and the second look ends the daemon with 14 before the deadline, and goes on: `shutdown(wait=False)` stops nothing |
| `backup_complete` | `SuccessIsComplete` | a dump process that dies half-way is the end of the file to `run_backup`: status `success` |
| `restore_target` | `RestoresWhereAsked` | psql is started without the host and database the caller named |
| `backup_cleanup` | `TempFilesRemoved` | a failed upload leaves sqlite's copy; a failed write or Ctrl-C leaves mongodump's password |

The modules state seven more such sentences, under *What the documentation says and the code does not
do*. They are of the same kind, and are not among the project's runs; each has an instance of its own,
with which `tlc -config <instance>.cfg <module>` finds it violated:

| Instance | Module | Violated | The sentence | What happens |
|---|---|---|---|---|
| `scheduler_abort` | `MCScheduler` | `ExpiryAbortsRuns` | `README.md:210` of the repository: "if expired, abort subprocess/multipart" | `shutdown(wait=False)` (scheduler.py:271) stops no thread: the daemon returns 14 and the backup goes on |
| `scheduler_bound` | `MCScheduler` | `GraceBoundsShutdown` | `scheduler.py:224`: "Bound the wait by the configured grace period" | a job fires after the second look and hangs; the timer finds the scheduler stopped (235) and does nothing |
| `restore_torn` | `MCRestorePipe` | `ReplacementIsAtomic` | `sqlite.py:170`: "Replace destination atomically" | the in-place copy over the target breaks off (171) |
| `s3_orphans` | `MCS3Store` | `FailedLeavesNoParts` | design 259: "aborted [...] to avoid orphan parts" | the transfer's abort is not heard, the backend's names no upload (s3.py:81): the parts stay |
| `restore_codes` | `MCCommandLine` | `RestoreCodesDocumented` | `README.md:174-175`: 10 configuration, 11 binary missing | `restore` without its binary or bucket exits with 13 (cli.py:390) |
| `storage_flag` | `MCCommandLine` | `TomlPathSuffices` | `cli.py:244`: "requires --local-path or [storage.local].path in TOML" | with `--storage` the file is not read (225), and the backup is refused |
| `job_storage` | `MCCommandLine` | `LocalJobsInheritPath` | `scheduler.py:346`: "also inherit local_path if local" | a job with `storage_type = "local"` beside a global S3, or with `storage = "Local"`, has no path (384) |

**Bounds.** The upload protocol relates two calls of one key at a time: every
guard reads one entry, and every property quantifies over at most two calls; the
second key shows that keys do not interfere. Two calls and a restore reach every
action, each fallback and each error; the restore is for one fixed key, which is no loss where keys are alike. One job and three workers are the pool of one
job; two direct callers are the fewest that contend with each other and with the
pool. Two jobs are the fewest for which the scan of the registry can see one job
idle and another active. A dump of three chunks through a pipe of one or two fills, drains
and refills it; two messages overflow an output pipe of one. `Noise` is the only
bound that cuts the program's behaviour (a process may say more), and no property
depends on it. Two uploads to S3 are the fewest that can disturb
each other, four attempts are the default's first and its three retries; two
pieces are the fewest of which a mixture is made, and a third one lets an artifact be shorter or longer
than the one a download was told of with pieces to spare. Two job tables are the fewest that
collide, and a third one comes before, between or after them; the values in `MCCommandLine` name the
file they come from, so that a wrong layer shows. The theorems cover the other values of the modules
they speak of.

**Symmetry.** `local_clobber` and `s3_upload` permute the calls, `s3_upload`
its keys as well; runs with a liveness property use none.

**Fairness.** Weak fairness only. `LocalStorage`: a call keeps running, since every
system call of it returns; nothing makes it crash, and `Fail` belongs to the steps
because an error is a way of going on. `Scheduler`: pool threads, direct callers and the
main thread run when they can, backups end, and time passes; triggers, signals and
direct calls need not happen, and the lock is not assumed to be fair. `BackupRun` and `RestorePipe`:
dbbackup and the process go on when they can; that a process
complains or fails, or Ctrl-C, is never forced, so no stall is resolved by one. Where the model
assumes that a backup ends (`ShutdownCompletes`, `GuardReopens`), `backup_run` says
under which condition it does: unless the stderr pipe is full. `HangingSpec` is `FairSpec` without that
assumption, for the one instance that asks whether the daemon returns all the same (`scheduler_bound`). `S3Store` and `CommandLine` state
safety only: a request to a server need not be answered, and a command is a handful of steps
without a wait of its own.

**Deadlock** is not checked, because in each of these models everybody may have
returned. Being stuck is what the liveness properties are about.

## 4. Proofs

The theorems hold for any number of calls, keys, jobs, workers and chunks, under the
named assumptions of the modules, and they are all of the form "invariant of `Spec`" or
"every step". Of the assumptions only `WordsAssumption` is about nothing in the code: it says that the words
the code writes are strings, which TLC evaluates to TRUE and the provers do not know.

- **`ArtifactStoreProofs`**: `PutsOnce`, the abstract store, where it is exclusive,
  keeps the one put it acknowledged for a key nobody forces.
- **`LocalStorageProofs`**: all of the safety properties of uploads in `local_store`, and
  `Refinement: Spec => ImplementsStore`, on every kind of volume. Some of the
  properties speak of `Exclusive(k)`: nobody forces k, and `os.link` works or says EXDEV.
  `local_clobber` shows that the second half is needed, and the store that is
  implemented has a flag `exclusive` that says the same. The inductive invariant adds to the
  properties what the program counter says about the files: the content of the
  temporary file by step, that a call's inode is in place from its publication on
  unless a forced call replaced it, that `dest[k]` names only calls for `k`, that the
  metadata of a call describes its own bytes, and that a key with a sidecar has
  an artifact. The properties are not inductive alone, since
  none of them says anything of a call between its link and its sidecar. For the
  refinement each step is mapped to a put, an answer or a stutter; the invariant
  is what makes `Link` a legal put and `LinkExists` a legal rejection. Through the refinement
  `PublishedStays` carries `PutsOnce` over to the files, so that an unforced artifact
  stays from its publication on, which is before anybody was told. `NothingElseLeft` says
  which temporary files may stay (`LeftoversExplained`): a whole copy behind the loser of a race or
  a copy that broke off, a second name behind a link, and parts only behind a call that failed
  otherwise or died. It needs to know that a call which comes to the sidecar with
  its temporary file still there has linked it.
- **`LocalRestoreProofs`**: `RestoreTypeCorrect`, `VerifiedIsWhole`, `RefusalsTouchNothing`,
  `UnverifiedIsWhole` and `AcknowledgedRestores`. Once an inode is whole it stays
  whole, so what the hash saw is what is decompressed; an acknowledged upload fixes
  what a later restore of its key can open. `VerifiedIsWhole` speaks of everything a
  restore hands to the adapter, whether or not the adapter then succeeds.
- **`SchedulerProofs`**: type correctness and the safety properties of both runs. The
  invariant relates lock, count and program counters: a runner between `claim` and
  `register` holds the lock, the count of a job is 1 just while one caller is past
  `claim` and not past `clear`, and the one instance of a job is in the queue or
  at one worker. `WorkerForEverySubmission` follows by counting: at most one
  instance per job and two workers more than jobs. A second invariant, `Owned`, says who is behind
  each count, lock and registration. It gives `SkipsAreJustified` (`SkipsHaveARun`): a count that
  is up has a caller in the run, and if both were the pool's, the executor would have two instances of one
  job. It also gives `NoGuardLeftShut`, `NoDeadlock` and `RegistryExact`
  (below), and `NoInterruptWithoutRun`.
- **`BackupRunProofs`**: type correctness, the safety properties, among them `LeftoversNamed`
  (`LeftoversAreKnown`, which exits leave a file, and that no other does), and
  `CompleteUnlessDumpFails`, `NoMutualWait` and `EveryStepCounts` (below). The
  invariant says that the chunks written are those read and those in the pipe, and
  for each kind where the temporary file is at each step.
- **`RestorePipeProofs`**: type correctness, the three safety properties and
  `Refinement: Spec => ImplementsContract`. The invariant says that every chunk sent is
  in the pipe, applied or refused; which points of the program belong to which kind, and that
  a client exists just from `feed` on; that stdin is open while it is fed and a client that has ended
  well has emptied its pipe; and where the config file and the target are at each step.
  For the refinement a step of the program or of the client is mapped to work, a
  return or a stutter; the invariant is what shows that no client works on after a return.
  `NoMutualWait` and `EveryStepCounts`: below.
- **`S3StoreProofs`**: type correctness (which bounds the requests under way), `AcknowledgedIsStored`,
  `RivalsUntouched` and `ReadsWhole` (`WholeUnlessReplaced`). The invariant says that an object is at the key it was
  uploaded to, that a request the server executed leaves something at its key, that nothing takes it
  away again, and that each piece of a download is in its place in an artifact of its key. For `ReadsWhole`: while
  a download has met nobody but the upload it was told of, every piece it has is that upload's, the object is
  still there, and so no range is refused and the last one makes the artifact whole. `NothingInPieces` (`StoredIsWhole`) adds what a restore takes for granted of an
  object, that all parts of a large one are there: a completion is asked for only when all
  parts are sent, a late one is of the same upload, and what was aborted is never completed.
- **`CommandLineProofs`**: all that `command_line` checks, and `StorageComesFirst` (`NoDumpForNothing`, which
  TLC confirmed on the run's instance), for any invocation and any job tables. A
  lemma says that `Merged` is `Documented` for all layers. The invariant of the registration says of each
  pending job which table its id, trigger and options come from, and carries along that the searches for the first
  table and the last job of an id find one: as a state is extended by one job at a time, that is proved step by
  step and needs no induction over the tables. That the first search finds the least
  table and the second one the last is what `TablesRun` says of equal ids. `SecondLoopDestines` says of the second loop, for every table and global block, where the backups go.
  `MissingBinaryIsTold` needs that a message which says PATH has that cause, and `StorageComesFirst` that whatever comes
  to `run` in a backup has passed the check of its storage. Since `Scheduler` assumes wired runners and a pool with two
  workers more than jobs, `SchedulerAssumptionsHold` is what joins the two.

**Where a refuted sentence holds.** The violation runs and instances refute a sentence in some corner. For seven of the twelve
a theorem says what holds outside it:

| Refuted | Holds | Theorem |
|---|---|---|
| `NeverClobbers` | wherever `os.link` works or says EXDEV | `ClobbersOnlyWithoutLinks` |
| `SuccessIsComplete` | unless the dump process failed | `CompleteUnlessDumpFails` |
| `InterruptedMeansExpired` | so far that code 14 is decided on while a run is under way | `NoInterruptWithoutRun` |
| `ExpiryAbortsRuns` | for code 0, with which nothing runs or waits | `ZeroIsQuiet` |
| `TempFilesRemoved` | after every exit that `LeftoversAreKnown` does not name, success among them | `LeftoversNamed` |
| `FailedLeavesNoParts` | for an acknowledged upload, whose parts are all completed | `NothingInPieces` |
| `LocalJobsInheritPath` | except for the tables that `Destined` names | `TablesRun` |

**Why things end.** Under fairness, liveness is out of the proof system's reach; its two
safety halves are not. One is that nobody waits in vain, the other that no step is
a step back:

- `BackupRun`, `RestorePipe`: `NoMutualWait`, whenever dbbackup waits for its
  process, that one can go on or stands before the one pipe nobody reads; `EveryStepCounts`,
  every step of either lowers `StepsLeft`, which twice the chunks and the messages bound. Together: a
  run that stops has ended or stands there, which is what `StallsOnlyOnStderr` and
  `StallsOnlyOnOutput` say with fairness.
- `LocalStorage`: `NoCallRetries`, a step of a call lowers its own `StepsLeft`, of eleven at most, and
  leaves its rivals' alone; a call never waits. (`Copy` may flush more often than the measure counts, which
  changes nothing after the first time.)
- `Scheduler`: `NoDeadlock`, a caller in a runner can go on or waits for a lock whose holder can, and a
  submission has a worker; `NoGuardLeftShut`, a count is up only while somebody is in that run;
  `RegistryExact`, the drain waits only for jobs in a run, and without direct callers for all of
  them. Triggers may fire for ever, so there is no measure.

These formulas are not in the runs' properties, which say the same with fairness; TLC
confirmed each of them on the runs' instances before it was proved.

**Only model-checked:** liveness (`EveryCallReturns`, `GuardReopens`,
`ShutdownCompletes`, `StallsOnlyOnStderr`, `StallsOnlyOnOutput`), which is out of the proof
system's reach under fairness. No module declares a RECURSIVE operator, and nothing is proved by
induction over data; both are out of reach as well.

## 5. What is not modelled, and known limits

- Redaction, URL parsing, notification: string processing without state or order. `CommandLine` takes
  a URL as good or bad. Logging and work directories: handler set-up, and a context
  manager that no backup or restore uses. Reading a password has no outcome but the password.
  Of `test_connection` only the outcome is modelled, and the settings that
  `load_config` merges but no command reads are left out.
- Threads of one process and processes of one host are treated alike. Power failures,
  and what a missing directory `fsync` loses, are outside the model.
- What the documentation says otherwise is in the tables of section 3. Observed while reading and shown by actions
  of the models, without a property against it:
  - two forced uploads of one key can leave the artifact of one with the sidecar of the other
    (`local.py:260`, 306), and the EXDEV fallback publishes an empty file that a restore
    without `--verify` applies as nothing (227); a failed copy there leaves its
    own half-written artifact (247); the loser of a race leaves its temporary file (313), and the
    sidecar's is never cleaned up (319), the extent of which is `NothingElseLeft`;
  - after Ctrl-C the client's stdin stays open until dbbackup ends, and the client then
    takes the cut-off dump for the whole;
  - psql and mongorestore without a password get no connection option, and the mysql client neither port
    nor user (`postgres.py:70`, `mongo.py:189`, `mysql.py:76`);
  - an S3 upload replaces an object with or without `--force`, and a request of a failed upload that is
    executed late may replace a later artifact;
  - the configuration's bucket is never read; a `DBBACKUP_PORT` that is no number makes the command
    forget the configuration (`config.py:159`); an unknown `--db` without a URL is found only by the
    pipeline (13, or 12 for `test-connection`);
  - `schedule` reads one file, not the layers, and another one when the file that `--config` names is missing;
    a broken file or job table ends it with a traceback and 1; of two jobs with one id the last one's
    trigger and the first one's options are used (`scheduler.py:362`, 372; `JobsRunTheirTable` says so).
- Observed and not in a model: a firing missed during a run is dropped, while
  `scheduler.py:8-9` speaks of one deferred execution; the whole compressed dump is held in
  memory (`backup.py:55`); whether gzip notices a mixture of two S3 artifacts that a download put
  together is gzip's matter, so that `S3Store` says what may be mixed, not what comes of it.

## 6. Plan

Done, in this order: `ArtifactStore`, `LocalStorage`, `LocalRestore`, `Scheduler`, `BackupRun`,
`RestoreContract`, `RestorePipe`, `S3Store`, `ConfigLayers`, `JobRegistration`, `CommandLine`, with their
runs, and the proofs of their safety properties. To do:

1. **`LocalRestore` with `RestoreContract`** in place of its one-step `adapter.restore`: that
   `AcknowledgedIsRestorable` survives the composition (`VerifiedIsWhole` does not depend on how the
   adapter ends).
2. **`Scheduler`**: a firing at the limit and a misfire as outcomes a property can speak of.
