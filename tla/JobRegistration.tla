--------------------------- MODULE JobRegistration ---------------------------
(***************************************************************************)
(* start_scheduler (core/scheduler.py): from the [[schedule.jobs]] tables  *)
(* of a TOML file to the jobs that the daemon runs.  A first loop adds a   *)
(* job for each table to a scheduler that is not running yet; a second one *)
(* gives each job a new runner that knows the daemon's registry; start     *)
(* then puts the jobs into the store, where the last one of an id stays.   *)
(*                                                                         *)
(* A table is a record of what it gives; "" is a key it does not give.     *)
(* "valid": it has a trigger, and its numbers are numbers.                 *)
(***************************************************************************)

EXTENDS Naturals, Sequences, FiniteSets, ConfigLayers

JobTable ==
  [id : STRING, database : STRING, storage : STRING, storage_type : STRING,
   local_path : STRING, valid : BOOLEAN]

VARIABLES
  phase,    \* where start_scheduler is
  tables,   \* the job tables
  global,   \* the [storage] block of the same file
  workers,  \* the size of the pool
  pending,  \* the jobs added before start
  rewired,  \* how many of them have their new runner
  jobs      \* the running scheduler's jobs, by id

registration == <<phase, tables, global, workers, pending, rewired, jobs>>

Phases == {"idle", "add", "rewire", "running", "raised"}

RegistrationInit ==
  /\ phase = "idle"
  /\ tables = <<>>
  /\ global = [type |-> "", path |-> ""]
  /\ workers = 0
  /\ pending = <<>>
  /\ rewired = 0
  /\ jobs = [i \in {} |-> ""]

-----------------------------------------------------------------------------
Or(a, b) == IF a # "" THEN a ELSE b

JobId(t) == Or(t.id, Or(t.database, "job"))

\* The global [storage] fills in what a table that names no storage lacks.
InheritType(t, g) ==
  IF t.storage = "" /\ t.storage_type = "" /\ Known(g.type)
    THEN [t EXCEPT !.storage = Lower(g.type)]
    ELSE t

InheritPath(t, g) ==
  IF Or(t.storage, Lower(g.type)) = "local" /\ t.local_path = ""
    THEN [t EXCEPT !.local_path = g.path]
    ELSE t

\* The first loop leaves alone a table that names a storage, the second one
\* gives it the global path all the same.
FirstLoop(t, g) ==
  IF t.storage = "" /\ t.storage_type = "" THEN InheritPath(InheritType(t, g), g) ELSE t
SecondLoop(t, g) == InheritPath(InheritType(t, g), g)

\* Faulty variant: the type is taken as it was written.
Options_Raw(n, t) ==
  [table |-> n, type |-> Or(Or(t.storage, t.storage_type), "s3"), local_path |-> t.local_path]

\* Faulty variant: a table names its storage by one key only.
Options_IgnoresType(n, t) ==
  [table |-> n, type |-> StorageOf(t.storage), local_path |-> t.local_path]

\* _job_to_opts
Options(n, t) ==
  [table |-> n, type |-> StorageOf(Or(t.storage, t.storage_type)), local_path |-> t.local_path]

-----------------------------------------------------------------------------
PoolSize(n) == IF n + 2 > 2 THEN n + 2 ELSE 2

\* The schedule block of a file; the pool.
Load(ts, g) ==
  /\ phase = "idle"
  /\ phase' = "add"
  /\ tables' = ts
  /\ global' = g
  /\ workers' = PoolSize(Len(ts))
  /\ UNCHANGED <<pending, rewired, jobs>>

Adding == phase = "add" /\ Len(pending) < Len(tables)

AddJob ==
  LET n == Len(pending) + 1 IN
  /\ Adding
  /\ tables[n].valid
  /\ pending' = Append(pending,
       [id |-> JobId(tables[n]), trigger |-> n, wired |-> FALSE,
        opts |-> Options(n, FirstLoop(tables[n], global))])
  /\ UNCHANGED <<phase, tables, global, workers, rewired, jobs>>

\* _build_trigger or _job_to_opts raises, and start_scheduler with it.
AddJobRaises ==
  /\ Adding
  /\ ~tables[Len(pending) + 1].valid
  /\ phase' = "raised"
  /\ UNCHANGED <<tables, global, workers, pending, rewired, jobs>>

AllAdded ==
  /\ phase = "add" /\ Len(pending) = Len(tables)
  /\ phase' = "rewire"
  /\ UNCHANGED <<tables, global, workers, pending, rewired, jobs>>

\* next(j for j in jobs if ... == jid)
FirstTable(id) ==
  CHOOSE n \in DOMAIN tables :
    JobId(tables[n]) = id /\ \A m \in 1 .. n - 1 : JobId(tables[m]) # id

\* Faulty variant: a job's table is looked up by its id key alone.
Rewire_ByIdKey ==
  LET n == rewired + 1
      same == {m \in DOMAIN tables : tables[m].id = pending[n].id} IN
  /\ phase = "rewire" /\ n <= Len(pending)
  /\ IF same = {} THEN UNCHANGED pending
     ELSE \E m \in same :
       pending' = [pending EXCEPT ![n].wired = TRUE,
                                  ![n].opts = Options(m, SecondLoop(tables[m], global))]
  /\ rewired' = n
  /\ UNCHANGED <<phase, tables, global, workers, jobs>>

Rewire ==
  LET n == rewired + 1 IN
  /\ phase = "rewire" /\ n <= Len(pending)
  /\ LET m == FirstTable(pending[n].id) IN
     pending' = [pending EXCEPT ![n].wired = TRUE,
                                ![n].opts = Options(m, SecondLoop(tables[m], global))]
  /\ rewired' = n
  /\ UNCHANGED <<phase, tables, global, workers, jobs>>

\* replace_existing
LastPending(id) ==
  CHOOSE n \in DOMAIN pending :
    pending[n].id = id /\ \A m \in n + 1 .. Len(pending) : pending[m].id # id

Start ==
  /\ phase = "rewire" /\ rewired = Len(pending)
  /\ phase' = "running"
  /\ jobs' = [id \in {pending[n].id : n \in DOMAIN pending} |-> pending[LastPending(id)]]
  /\ UNCHANGED <<tables, global, workers, pending, rewired>>

RegistrationStep == AddJob \/ AddJobRaises \/ AllAdded \/ Rewire \/ Start

-----------------------------------------------------------------------------
(* What the daemon starts with.                                            *)

RegistrationTypeOK ==
  /\ phase \in Phases
  /\ Len(pending) <= Len(tables) /\ rewired <= Len(pending)
  /\ \A n \in DOMAIN pending :
       /\ pending[n].opts.table \in DOMAIN tables
       /\ pending[n].opts.type \in {"s3", "local"}
       /\ pending[n].wired <=> n <= rewired
  /\ DOMAIN jobs # {} => phase = "running"

SameId(n) == {m \in DOMAIN tables : JobId(tables[m]) = JobId(tables[n])}

\* Where the backups of a table go: to the storage that its storage, its storage_type
\* or the global [storage] names, the first of them that is given; and there to the
\* local path of the table, or else the global one. The exception: a table that names
\* the local storage as "Local", or by storage_type where the global storage is not
\* local, has no path but its own (see LocalJobsInheritPath).
Destined(t, opts) ==
  /\ opts.type = StorageOf(Or(t.storage, Or(t.storage_type, global.type)))
  /\ opts.type = "local" =>
       opts.local_path =
         IF t.storage = "local" \/ (t.storage = "" /\ Lower(global.type) = "local")
           THEN Or(t.local_path, global.path)
           ELSE t.local_path

\* A daemon that runs has a job for every table, and for the tables of one id it is
\* one job: it runs at the times of the last of them and does what the first of them
\* describes, which for an id of its own is the same table. Every job's backups go
\* where Destined says, whichever of its keys a table uses and whatever the first
\* of the two loops made of it.
JobsRunTheirTable ==
  phase = "running" =>
    \A n \in DOMAIN tables :
      LET id == JobId(tables[n]) IN
      /\ id \in DOMAIN jobs
      /\ {jobs[id].opts.table, jobs[id].trigger} \subseteq SameId(n)
      /\ jobs[id].opts.table <= n /\ n <= jobs[id].trigger
      /\ Destined(tables[jobs[id].opts.table], jobs[id].opts)

\* What Scheduler takes for granted: every runner has the daemon's registry, so
\* that the drain sees its runs, and the pool has two workers more than jobs.
DaemonIsAsModelled ==
  phase = "running" =>
    /\ \A id \in DOMAIN jobs : jobs[id].wired
    /\ workers >= Cardinality(DOMAIN jobs) + 2

-----------------------------------------------------------------------------
(* What the code and README.md say and the code does not do.               *)

\* "inherit global storage if job doesn't specify storage", "also inherit local_path
\* if local": a job whose backups go to the local storage has the path of its table,
\* or else that of the global [storage.local].
LocalJobsInheritPath ==
  phase = "running" =>
    \A id \in DOMAIN jobs :
      LET opts == jobs[id].opts IN
      opts.type = "local" => opts.local_path = Or(tables[opts.table].local_path, global.path)

=============================================================================
