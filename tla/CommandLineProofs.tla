-------------------------- MODULE CommandLineProofs --------------------------
(***************************************************************************)
(* Proofs about CommandLine and the modules it composes: for any job       *)
(* tables, any files, environments and flags.                              *)
(***************************************************************************)

EXTENDS CommandLine, SequenceTheorems, FiniteSetTheorems, TLAPS

(* Registration.                                                           *)

JobOptions == [table : Nat, type : STRING, local_path : STRING]
PendingJob == [id : STRING, trigger : Nat, wired : BOOLEAN, opts : JobOptions]

RegistrationTypes ==
  /\ phase \in Phases
  /\ tables \in Seq(JobTable)
  /\ global \in [type : STRING, path : STRING]
  /\ workers \in Nat
  /\ pending \in Seq(PendingJob)
  /\ rewired \in Nat

\* The n-th job comes from the n-th table until its runner is replaced; then its
\* options come from the first table with its id.
PendingFromTables ==
  \A n \in 1 .. Len(pending) :
    /\ pending[n].id = JobId(tables[n])
    /\ pending[n].trigger = n
    /\ pending[n].wired <=> n <= rewired
    /\ pending[n].opts.table \in 1 .. Len(tables)
    /\ pending[n].opts.type \in {"s3", "local"}
    /\ n <= rewired =>
         LET m == FirstTable(pending[n].id) IN
         pending[n].opts = Options(m, SecondLoop(tables[m], global))

\* The searches for the first table and the last job of an id find one.
FirstExists ==
  \A n \in 1 .. Len(pending) :
    \E k \in 1 .. n :
      /\ JobId(tables[k]) = pending[n].id
      /\ \A m \in 1 .. k - 1 : JobId(tables[m]) # pending[n].id

LastExists ==
  \A n \in 1 .. Len(pending) :
    \E k \in 1 .. Len(pending) :
      /\ pending[k].id = pending[n].id
      /\ \A m \in k + 1 .. Len(pending) : pending[m].id # pending[n].id

PhasesInOrder ==
  /\ Len(pending) <= Len(tables) /\ rewired <= Len(pending)
  /\ phase = "idle" => tables = <<>> /\ pending = <<>>
  /\ phase \in {"idle", "add"} => rewired = 0
  /\ phase \in {"rewire", "running"} => Len(pending) = Len(tables)
  /\ phase # "idle" => workers = PoolSize(Len(tables))
  /\ phase # "running" => DOMAIN jobs = {}
  /\ phase = "running" =>
       /\ rewired = Len(pending)
       /\ jobs = [id \in {pending[n].id : n \in DOMAIN pending} |-> pending[LastPending(id)]]

Registered ==
  RegistrationTypes /\ PendingFromTables /\ FirstExists /\ LastExists /\ PhasesInOrder

-----------------------------------------------------------------------------
(* A job's options.                                                        *)

LEMMA OptionsTypes ==
  ASSUME NEW t \in JobTable, NEW g \in [type : STRING, path : STRING], NEW n \in Nat
  PROVE  /\ JobId(t) \in STRING
         /\ FirstLoop(t, g) \in JobTable /\ SecondLoop(t, g) \in JobTable
         /\ Options(n, t) \in JobOptions
         /\ Options(n, t).table = n
         /\ Options(n, t).type \in {"s3", "local"}
<1> USE WordsAssumption
<1> DEFINE inherited == [t EXCEPT !.storage = Lower(g.type)]
<1>1. Lower(g.type) \in STRING
  BY DEF Lower
<1>2. inherited \in JobTable
  BY <1>1 DEF JobTable
<1>3. InheritType(t, g) \in JobTable
  BY <1>2 DEF InheritType
<1>4. ASSUME NEW s \in JobTable
      PROVE  InheritPath(s, g) \in JobTable
  <2>1. [s EXCEPT !.local_path = g.path] \in JobTable
    BY DEF JobTable
  <2>2. QED
    BY <2>1 DEF InheritPath
<1>5. JobId(t) \in STRING
  BY DEF JobId, Or, JobTable
<1>6. /\ Options(n, t) \in JobOptions
      /\ Options(n, t).table = n
      /\ Options(n, t).type \in {"s3", "local"}
  <2>1. t.local_path \in STRING
    BY DEF JobTable
  <2>2. QED
    BY <2>1 DEF Options, StorageOf, Known, Lower, JobOptions
<1>7. QED
  BY <1>3, <1>4, <1>5, <1>6 DEF FirstLoop, SecondLoop

\* Whatever the tables say, the second loop sends the backups where the table or
\* else the global storage does.
LEMMA SecondLoopDestines ==
  ASSUME NEW t \in JobTable, NEW n \in Nat, global \in [type : STRING, path : STRING]
  PROVE  Destined(t, Options(n, SecondLoop(t, global)))
<1> DEFINE s == InheritType(t, global)
           o == Options(n, SecondLoop(t, global))
<1>1. /\ SecondLoop(t, global).storage = s.storage
      /\ SecondLoop(t, global).storage_type = s.storage_type
      /\ s.local_path = t.local_path
      /\ SecondLoop(t, global).local_path =
           IF Or(s.storage, Lower(global.type)) = "local" /\ t.local_path = ""
             THEN global.path ELSE t.local_path
  BY DEF SecondLoop, InheritPath, InheritType, JobTable
<1>2. /\ o.type = StorageOf(Or(s.storage, s.storage_type))
      /\ o.local_path = SecondLoop(t, global).local_path
  BY <1>1 DEF Options
<1>3. CASE t.storage = "" /\ t.storage_type = "" /\ Known(global.type)
  <2>1. s.storage = Lower(global.type) /\ Lower(global.type) \in {"s3", "local"}
    BY <1>3 DEF InheritType, JobTable, Known
  <2>2. o.type = StorageOf(global.type) /\ StorageOf(global.type) = Lower(global.type)
    <3>1. Or(s.storage, s.storage_type) = Lower(global.type)
      BY <2>1 DEF Or
    <3>2. Lower(Lower(global.type)) = Lower(global.type)
      BY <2>1 DEF Lower
    <3>3. QED
      BY <1>2, <2>1, <3>1, <3>2 DEF Known, StorageOf
  <2>3. QED
    BY <1>1, <1>2, <1>3, <2>1, <2>2 DEF Destined, Or, Known
<1>4. CASE ~(t.storage = "" /\ t.storage_type = "" /\ Known(global.type))
  <2>1. s = t
    BY <1>4 DEF InheritType
  <2>2. o.type = StorageOf(Or(t.storage, Or(t.storage_type, global.type)))
    BY <1>2, <1>4, <2>1 DEF Or, Known, Lower, StorageOf
  <2>3. QED
    BY <1>1, <1>2, <1>4, <2>1, <2>2 DEF Destined, Or, Known, Lower, StorageOf
<1>5. QED
  BY <1>3, <1>4

-----------------------------------------------------------------------------
(* Each step of start_scheduler.                                           *)

LEMMA FirstTableFound ==
  ASSUME Registered, NEW n \in 1 .. Len(pending)
  PROVE  /\ FirstTable(pending[n].id) \in 1 .. Len(tables)
         /\ JobId(tables[FirstTable(pending[n].id)]) = pending[n].id
         /\ \A m \in 1 .. FirstTable(pending[n].id) - 1 : JobId(tables[m]) # pending[n].id
<1>1. PICK k \in 1 .. n :
        /\ JobId(tables[k]) = pending[n].id
        /\ \A m \in 1 .. k - 1 : JobId(tables[m]) # pending[n].id
  BY DEF Registered, FirstExists
<1>2. k \in DOMAIN tables /\ DOMAIN tables = 1 .. Len(tables)
  BY DEF Registered, RegistrationTypes, PhasesInOrder
<1>3. QED
  BY <1>1, <1>2, Zenon DEF FirstTable

LEMMA LastPendingFound ==
  ASSUME Registered, NEW n \in 1 .. Len(pending)
  PROVE  /\ LastPending(pending[n].id) \in 1 .. Len(pending)
         /\ pending[LastPending(pending[n].id)].id = pending[n].id
         /\ \A m \in LastPending(pending[n].id) + 1 .. Len(pending) :
              pending[m].id # pending[n].id
<1>1. PICK k \in 1 .. Len(pending) :
        /\ pending[k].id = pending[n].id
        /\ \A m \in k + 1 .. Len(pending) : pending[m].id # pending[n].id
  BY DEF Registered, LastExists
<1>2. DOMAIN pending = 1 .. Len(pending)
  BY DEF Registered, RegistrationTypes
<1>3. QED
  BY <1>1, <1>2, Zenon DEF LastPending

LEMMA AddJobKeeps ==
  ASSUME Registered, AddJob
  PROVE  Registered'
<1> DEFINE n == Len(pending) + 1
           opts == Options(n, FirstLoop(tables[n], global))
           job == [id |-> JobId(tables[n]), trigger |-> n, wired |-> FALSE, opts |-> opts]
<1>1. /\ phase = "add" /\ Len(pending) < Len(tables)
      /\ pending' = Append(pending, job)
      /\ UNCHANGED <<phase, tables, global, workers, rewired, jobs>>
      /\ rewired = 0
  BY DEF AddJob, Adding, Registered, PhasesInOrder
<1>2. n \in 1 .. Len(tables) /\ tables[n] \in JobTable
  BY <1>1 DEF Registered, RegistrationTypes
<1>3. /\ JobId(tables[n]) \in STRING /\ opts \in JobOptions
      /\ opts.table = n /\ opts.type \in {"s3", "local"}
  <2>1. FirstLoop(tables[n], global) \in JobTable /\ JobId(tables[n]) \in STRING
    BY <1>2, OptionsTypes DEF Registered, RegistrationTypes
  <2>2. QED
    BY <1>2, <2>1, OptionsTypes DEF Registered, RegistrationTypes
<1>4. job \in PendingJob /\ job.id = JobId(tables[n]) /\ job.trigger = n
      /\ job.wired = FALSE /\ job.opts = opts
  BY <1>2, <1>3 DEF PendingJob
<1> HIDE DEF job, opts
<1>5. /\ pending' \in Seq(PendingJob)
      /\ Len(pending') = n
      /\ \A i \in 1 .. Len(pending) : pending'[i] = pending[i]
      /\ pending'[n] = job
  BY <1>1, <1>4, AppendProperties DEF Registered, RegistrationTypes
<1>6. RegistrationTypes'
  BY <1>1, <1>5 DEF Registered, RegistrationTypes
<1>7. PendingFromTables'
  BY <1>1, <1>2, <1>3, <1>4, <1>5 DEF Registered, RegistrationTypes, PendingFromTables
<1>8. FirstExists'
  <2>1. ASSUME NEW i \in 1 .. Len(pending)
        PROVE  \E k \in 1 .. i :
                 /\ JobId(tables'[k]) = pending'[i].id
                 /\ \A m \in 1 .. k - 1 : JobId(tables'[m]) # pending'[i].id
    BY <1>1, <1>5 DEF Registered, FirstExists
  <2>2. CASE \E i \in 1 .. Len(pending) : pending[i].id = job.id
    <3>1. PICK i \in 1 .. Len(pending) : pending[i].id = job.id
      BY <2>2
    <3>2. PICK k \in 1 .. i :
            /\ JobId(tables[k]) = pending[i].id
            /\ \A m \in 1 .. k - 1 : JobId(tables[m]) # pending[i].id
      BY DEF Registered, FirstExists
    <3>3. k \in 1 .. n
      BY <1>2
    <3>4. QED
      BY <1>1, <1>5, <2>1, <3>1, <3>2, <3>3 DEF FirstExists
  <2>3. CASE \A i \in 1 .. Len(pending) : pending[i].id # job.id
    <3>1. \A m \in 1 .. n - 1 : JobId(tables[m]) # job.id
      BY <1>2, <2>3 DEF Registered, PendingFromTables, RegistrationTypes
    <3>2. n \in 1 .. n /\ JobId(tables[n]) = job.id
      BY <1>2, <1>4
    <3>3. QED
      BY <1>1, <1>5, <2>1, <3>1, <3>2 DEF FirstExists
  <2>4. QED
    BY <2>2, <2>3
<1>9. LastExists'
  <2> SUFFICES ASSUME NEW i \in 1 .. n
               PROVE  \E k \in 1 .. n :
                        /\ pending'[k].id = pending'[i].id
                        /\ \A m \in k + 1 .. n : pending'[m].id # pending'[i].id
    BY <1>5 DEF LastExists
  <2>1. CASE pending'[i].id = job.id
    BY <1>2, <1>5, <2>1
  <2>2. CASE pending'[i].id # job.id
    <3>1. i \in 1 .. Len(pending) /\ pending'[i] = pending[i]
      BY <1>2, <1>5, <2>2
    <3>2. PICK k \in 1 .. Len(pending) :
            /\ pending[k].id = pending[i].id
            /\ \A m \in k + 1 .. Len(pending) : pending[m].id # pending[i].id
      BY <3>1 DEF Registered, LastExists
    <3>3. \A m \in k + 1 .. n : pending'[m].id # pending'[i].id
      BY <1>2, <1>5, <2>2, <3>1, <3>2
    <3>4. k \in 1 .. n /\ pending'[k].id = pending'[i].id
      BY <1>2, <1>5, <3>1, <3>2
    <3>5. QED
      BY <3>3, <3>4
  <2>3. QED
    BY <2>1, <2>2
<1>10. PhasesInOrder'
  BY <1>1, <1>2, <1>5 DEF Registered, RegistrationTypes, PhasesInOrder
<1>11. QED
  BY <1>6, <1>7, <1>8, <1>9, <1>10 DEF Registered

LEMMA RewireKeeps ==
  ASSUME Registered, Rewire
  PROVE  Registered'
<1> DEFINE n == rewired + 1
           m == FirstTable(pending[n].id)
           opts == Options(m, SecondLoop(tables[m], global))
           job == [pending[n] EXCEPT !.wired = TRUE, !.opts = opts]
<1>1. /\ phase = "rewire" /\ n <= Len(pending) /\ rewired' = n
      /\ UNCHANGED <<phase, tables, global, workers, jobs>>
      /\ pending' = [pending EXCEPT ![n].wired = TRUE, ![n].opts = opts]
  BY DEF Rewire
<1>2. n \in 1 .. Len(pending) /\ pending[n] \in PendingJob
  BY <1>1 DEF Registered, RegistrationTypes
<1>3. m \in 1 .. Len(tables) /\ tables[m] \in JobTable
  BY <1>2, FirstTableFound DEF Registered, RegistrationTypes
<1>4. opts \in JobOptions /\ opts.table = m /\ opts.type \in {"s3", "local"}
  <2>1. SecondLoop(tables[m], global) \in JobTable
    BY <1>3, OptionsTypes DEF Registered, RegistrationTypes
  <2>2. QED
    BY <1>3, <2>1, OptionsTypes DEF Registered, RegistrationTypes
<1> HIDE DEF m, opts
<1>5. /\ job \in PendingJob /\ job.id = pending[n].id /\ job.trigger = pending[n].trigger
      /\ job.wired = TRUE /\ job.opts = opts
  BY <1>2, <1>4 DEF PendingJob
<1>6. pending' = [pending EXCEPT ![n] = job]
  BY <1>1, <1>2 DEF Registered, RegistrationTypes, PendingJob
<1> HIDE DEF job
<1>7. /\ pending' \in Seq(PendingJob) /\ Len(pending') = Len(pending)
      /\ pending'[n] = job
      /\ \A i \in 1 .. Len(pending) : i # n => pending'[i] = pending[i]
      /\ \A i \in 1 .. Len(pending) : pending'[i].id = pending[i].id
  BY <1>2, <1>5, <1>6 DEF Registered, RegistrationTypes
<1>8. RegistrationTypes' /\ PhasesInOrder'
  BY <1>1, <1>2, <1>7 DEF Registered, RegistrationTypes, PhasesInOrder
<1>9. \A id : FirstTable(id)' = FirstTable(id)
  BY <1>1 DEF FirstTable
<1>10. PendingFromTables'
  <2> SUFFICES ASSUME NEW i \in 1 .. Len(pending)
               PROVE  /\ pending'[i].id = JobId(tables[i])
                      /\ pending'[i].trigger = i
                      /\ pending'[i].wired <=> i <= n
                      /\ pending'[i].opts.table \in 1 .. Len(tables)
                      /\ pending'[i].opts.type \in {"s3", "local"}
                      /\ i <= n =>
                           pending'[i].opts =
                             Options(FirstTable(pending'[i].id),
                                     SecondLoop(tables[FirstTable(pending'[i].id)], global))
    BY <1>1, <1>7, <1>9 DEF PendingFromTables
  <2>1. CASE i = n
    BY <1>2, <1>3, <1>4, <1>5, <1>7, <2>1
       DEF Registered, PendingFromTables, m, opts
  <2>2. CASE i # n
    BY <1>1, <1>2, <1>7, <2>2 DEF Registered, RegistrationTypes, PendingFromTables
  <2>3. QED
    BY <2>1, <2>2
<1>11. FirstExists' /\ LastExists'
  <2>1. FirstExists'
    BY <1>1, <1>7 DEF Registered, FirstExists
  <2>2. \A k \in 1 .. Len(pending) : \A i \in k + 1 .. Len(pending) :
          i \in 1 .. Len(pending) /\ pending'[i].id = pending[i].id
    BY <1>7 DEF Registered, RegistrationTypes
  <2>3. ASSUME NEW i \in 1 .. Len(pending)
        PROVE  \E k \in 1 .. Len(pending) :
                 /\ pending'[k].id = pending'[i].id
                 /\ \A l \in k + 1 .. Len(pending) : pending'[l].id # pending'[i].id
    <3>1. PICK k \in 1 .. Len(pending) :
            /\ pending[k].id = pending[i].id
            /\ \A l \in k + 1 .. Len(pending) : pending[l].id # pending[i].id
      BY DEF Registered, LastExists
    <3>2. \A l \in k + 1 .. Len(pending) : pending'[l].id # pending'[i].id
      BY <1>7, <2>2, <3>1
    <3>3. pending'[k].id = pending'[i].id
      BY <1>7, <3>1
    <3>4. QED
      BY <3>2, <3>3
  <2>4. LastExists'
    BY <1>7, <2>3 DEF LastExists
  <2>5. QED
    BY <2>1, <2>4
<1>12. QED
  BY <1>8, <1>10, <1>11 DEF Registered

LEMMA RegistrationKeeps ==
  ASSUME Registered, RegistrationStep
  PROVE  Registered'
<1>1. ASSUME UNCHANGED <<tables, global, pending, rewired>>
      PROVE  PendingFromTables' /\ FirstExists' /\ LastExists'
  <2>1. \A id : FirstTable(id)' = FirstTable(id)
    BY <1>1 DEF FirstTable
  <2>2. QED
    BY <1>1, <2>1 DEF Registered, PendingFromTables, FirstExists, LastExists
<1>2. CASE AddJobRaises
  <2>1. RegistrationTypes' /\ PhasesInOrder'
    BY <1>2 DEF AddJobRaises, Adding, Registered, RegistrationTypes, PhasesInOrder, Phases
  <2>2. QED
    BY <1>1, <1>2, <2>1 DEF AddJobRaises, Registered
<1>3. CASE AllAdded
  <2>1. RegistrationTypes' /\ PhasesInOrder'
    BY <1>3 DEF AllAdded, Registered, RegistrationTypes, PhasesInOrder, Phases
  <2>2. QED
    BY <1>1, <1>3, <2>1 DEF AllAdded, Registered
<1>4. CASE Start
  <2>1. /\ phase = "rewire" /\ phase' = "running" /\ rewired = Len(pending)
        /\ jobs' = [id \in {pending[n].id : n \in DOMAIN pending} |-> pending[LastPending(id)]]
        /\ UNCHANGED <<tables, global, workers, pending, rewired>>
    BY <1>4 DEF Start
  <2>2. \A id : LastPending(id)' = LastPending(id)
    BY <2>1 DEF LastPending
  <2>3. RegistrationTypes'
    BY <2>1 DEF Registered, RegistrationTypes, Phases
  <2>4. PhasesInOrder'
    BY <2>1, <2>2 DEF Registered, PhasesInOrder
  <2>5. QED
    BY <1>1, <2>1, <2>3, <2>4 DEF Registered
<1>5. QED
  BY <1>2, <1>3, <1>4, AddJobKeeps, RewireKeeps DEF RegistrationStep

LEMMA LoadKeeps ==
  ASSUME Registered, NEW ts \in Seq(JobTable), NEW g \in [type : STRING, path : STRING],
         Load(ts, g)
  PROVE  Registered'
<1>1. Len(ts) \in Nat /\ PoolSize(Len(ts)) \in Nat
  BY DEF PoolSize
<1>2. pending = <<>> /\ Len(pending) = 0 /\ rewired = 0
  BY DEF Load, Registered, PhasesInOrder
<1>3. QED
  BY <1>1, <1>2 DEF Load, Registered, RegistrationTypes, PendingFromTables, FirstExists,
                    LastExists, PhasesInOrder, Phases

-----------------------------------------------------------------------------
(* The layers of the configuration.                                        *)

\* load_config merges as it is documented, for all files, environments and flags.
LEMMA MergedIsDocumented ==
  ASSUME NEW user, NEW project, NEW env, NEW flags, NEW s, NEW default
  PROVE  Get(Merged(user, project, env, flags), s, default) \in
           Documented(user, project, env, flags, s, default)
<1> DEFINE files == Over(Over(Block(project), Over(Flat(project), Flat(user))), Block(user))
           given == DOMAIN Flat(user) \union DOMAIN Block(user)
                      \union DOMAIN Flat(project) \union DOMAIN Block(project)
<1>1. /\ DOMAIN files = given
      /\ s \in DOMAIN Block(project) => files[s] = Block(project)[s]
      /\ s \in DOMAIN Flat(project) \ DOMAIN Block(project) => files[s] = Flat(project)[s]
      /\ s \in DOMAIN Flat(user) \ (DOMAIN Flat(project) \union DOMAIN Block(project))
           => files[s] = Flat(user)[s]
      /\ s \in given \ (DOMAIN Flat(user) \union DOMAIN Flat(project) \union DOMAIN Block(project))
           => files[s] = Block(user)[s]
  BY DEF Over
<1>2. Merged(user, project, env, flags) = Over(flags, Over(env, files))
  BY DEF Merged
<1> HIDE DEF files
<1>3. /\ DOMAIN Over(flags, Over(env, files)) = DOMAIN flags \union DOMAIN env \union given
      /\ s \in DOMAIN flags => Over(flags, Over(env, files))[s] = flags[s]
      /\ s \in DOMAIN env \ DOMAIN flags => Over(flags, Over(env, files))[s] = env[s]
      /\ s \in given \ (DOMAIN env \union DOMAIN flags)
           => Over(flags, Over(env, files))[s] = files[s]
  BY <1>1 DEF Over
<1>4. CASE s \in DOMAIN flags \union DOMAIN env
  BY <1>2, <1>3, <1>4 DEF Get, Documented, Given
<1>5. CASE s \notin DOMAIN flags \union DOMAIN env
  <2>1. Given(flags, s) = {} /\ Given(env, s) = {}
    BY <1>5 DEF Given
  <2>2. CASE s \in DOMAIN Flat(project) \union DOMAIN Block(project)
    <3>1. files[s] \in Layer(project, s)
      BY <1>1, <2>2 DEF Layer
    <3>2. QED
      BY <1>2, <1>3, <1>5, <2>1, <2>2, <3>1 DEF Get, Documented
  <2>3. CASE s \in given \ (DOMAIN Flat(project) \union DOMAIN Block(project))
    <3>1. Layer(project, s) = {} /\ files[s] \in Layer(user, s)
      BY <1>1, <2>3 DEF Layer
    <3>2. QED
      BY <1>2, <1>3, <1>5, <2>1, <2>3, <3>1 DEF Get, Documented
  <2>4. CASE s \notin given
    <3>1. Layer(project, s) = {} /\ Layer(user, s) = {}
      BY <2>4 DEF Layer
    <3>2. QED
      BY <1>2, <1>3, <1>5, <2>1, <2>4, <3>1 DEF Get, Documented
  <2>5. QED
    BY <2>2, <2>3, <2>4
<1>6. QED
  BY <1>4, <1>5

-----------------------------------------------------------------------------
(* The command.                                                            *)

CommandTypes ==
  /\ inv \in Invocations
  /\ pc \in Points
  /\ storage \in STRING
  /\ path \in STRING
  /\ started \in BOOLEAN
  /\ status \in {"none", "success", "failed", "interrupted"}
  /\ cause \in Causes \union {"none"}
  /\ words \subseteq {"PATH", "connection"}
  /\ code \in Codes \union {None}

\* Which command is at which point, and what has happened by then.
Progress ==
  /\ pc \in {"load", "register"} => ~OneShot
  /\ pc \in {"storage", "check", "connect", "run"} => OneShot
  /\ pc = "storage" => inv.command # "test"
  /\ pc = "check" => inv.command = "backup"
  /\ code # None <=> pc = "done"
  /\ pc \notin {"exit", "done"} => ~started
  /\ pc = "exit" => started
  /\ OneShot => (started <=> status # "none")
  /\ cause # "none" => status = "failed"
  /\ "PATH" \in words <=> cause = "binary"
  /\ inv.command = "backup" /\ pc \in {"connect", "run"} => StorageUsable
  /\ MissingBinaryToldApart /\ NoDumpForNothing

\* Before the storage is looked for, only the flags are known; afterwards it is
\* what the layers say.
Flags == IF inv.path = "" THEN Nothing ELSE [s \in {"local_path"} |-> inv.path]

AsDocumented ==
  LET types == Documented(inv.user, Project, inv.env, Flags, "storage_type", "s3") IN
  /\ \E type \in types : storage = StorageOf(type)
  /\ path \in Documented(inv.user, Project, inv.env, Flags, "local_path", "")

Resolved ==
  \/ pc \in {"check", "run", "exit"}
  \/ pc = "connect" /\ inv.command = "backup"

Layers ==
  /\ pc \in {"start", "storage"} => storage = inv.storage /\ path = inv.path
  /\ pc = "connect" /\ inv.command = "restore" => storage = inv.storage /\ path = inv.path
  /\ Resolved /\ inv.command \in {"backup", "restore"} /\ inv.storage = "" /\ ~Raises(Config)
       => AsDocumented

Inv == CommandTypes /\ Progress /\ Layers /\ Registered

LEMMA ConfigDocumented ==
  ASSUME CommandTypes, storage' = StorageType(Config), path' = Or(path, LocalPath(Config)),
         path = inv.path, UNCHANGED inv
  PROVE  AsDocumented'
<1> DEFINE types == Documented(inv.user, Project, inv.env, Flags, "storage_type", "s3")
           v == Get(Config, "storage_type", "s3")
<1>1. v \in types
  <2>1. v \in Documented(inv.user, Project, inv.env, Nothing, "storage_type", "s3")
    BY MergedIsDocumented DEF Config
  <2>2. Given(Flags, "storage_type") = {} /\ Given(Nothing, "storage_type") = {}
    BY DEF Flags, Given, Nothing
  <2>3. QED
    BY <2>1, <2>2 DEF Documented
<1>2. \E type \in types : storage' = StorageOf(type)
  BY <1>1 DEF StorageType
<1>3. path' \in Documented(inv.user, Project, inv.env, Flags, "local_path", "")
  <2>1. CASE inv.path = ""
    <3>1. path' = Get(Config, "local_path", "") /\ Flags = Nothing
      BY <2>1 DEF Or, LocalPath, Flags
    <3>2. QED
      BY <3>1, MergedIsDocumented DEF Config
  <2>2. CASE inv.path # ""
    <3>1. path' = inv.path /\ Given(Flags, "local_path") = {inv.path}
      BY <2>2 DEF Or, Flags, Given
    <3>2. QED
      BY <3>1 DEF Documented
  <2>3. QED
    BY <2>1, <2>2
<1>4. QED
  BY <1>2, <1>3 DEF AsDocumented, Flags, Project

-----------------------------------------------------------------------------
(* Each step of a command.                                                 *)

LEMMA RegistrationStays ==
  ASSUME Registered, UNCHANGED registration
  PROVE  Registered'
<1>1. /\ \A id : FirstTable(id)' = FirstTable(id)
      /\ \A id : LastPending(id)' = LastPending(id)
  BY DEF registration, FirstTable, LastPending
<1>2. RegistrationTypes' /\ PhasesInOrder'
  BY <1>1 DEF registration, Registered, RegistrationTypes, PhasesInOrder
<1>3. PendingFromTables' /\ FirstExists' /\ LastExists'
  BY <1>1 DEF registration, Registered, PendingFromTables, FirstExists, LastExists
<1>4. QED
  BY <1>2, <1>3 DEF Registered

LEMMA PathIsString ==
  ASSUME inv \in Invocations
  PROVE  LocalPath(Config) \in STRING
<1>1. /\ IsFile(inv.user) /\ IsFile(Project) /\ IsLayer(inv.env)
      /\ IsLayer(Nothing)
  BY InvocationsAssumption DEF Project, IsLayer, Nothing
<1>2. ASSUME NEW f, IsFile(f)
      PROVE  IsLayer(Flat(f)) /\ IsLayer(Block(f))
  BY <1>1, <1>2 DEF Flat, Block, IsFile
<1>3. ASSUME NEW f, NEW g, IsLayer(f), IsLayer(g)
      PROVE  IsLayer(Over(f, g))
  BY <1>3 DEF IsLayer, Over
<1>4. IsLayer(Config)
  BY <1>1, <1>2, <1>3 DEF Config, Merged
<1>5. QED
  BY <1>4, WordsAssumption DEF LocalPath, Get, IsLayer

LEMMA ResolveKeeps ==
  ASSUME Inv, StorageFromFlags \/ StorageFromConfig
  PROVE  Inv'
<1> USE NoneAssumption, WordsAssumption
<1>1. /\ pc = "storage" /\ pc' = AfterStorage
      /\ UNCHANGED <<inv, code, started, status, cause, words, registration>>
      /\ storage = inv.storage /\ path = inv.path
      /\ inv.command \in {"backup", "restore"}
  BY DEF Inv, StorageFromFlags, StorageFromConfig, Goto, outcome, Layers, Progress, OneShot
<1>2. Registered'
  BY <1>1, RegistrationStays DEF Inv
<1>3. Progress'
  BY <1>1 DEF Inv, Progress, OneShot, AfterStorage, MissingBinaryToldApart, NoDumpForNothing
<1>4. storage' \in STRING /\ path' \in STRING
  <2>1. CASE StorageFromFlags
    BY <1>1, <2>1, InvocationsAssumption DEF StorageFromFlags, Or, Lower, Inv, CommandTypes
  <2>2. CASE StorageFromConfig
    BY <1>1, <2>2, PathIsString, InvocationsAssumption
       DEF StorageFromConfig, Or, StorageType, StorageOf, Known, Lower, Inv, CommandTypes
  <2>3. QED
    BY <2>1, <2>2
<1>5. CommandTypes'
  BY <1>1, <1>4 DEF Inv, CommandTypes, AfterStorage, Points
<1>6. Layers'
  <2>1. CASE StorageFromFlags
    BY <1>1, <2>1 DEF StorageFromFlags, Layers, AfterStorage, Config, Project
  <2>2. CASE StorageFromConfig
    <3>1. AsDocumented'
      BY <1>1, <2>2, ConfigDocumented DEF StorageFromConfig, Inv
    <3>2. QED
      BY <1>1, <3>1 DEF Layers, AfterStorage
  <2>3. QED
    BY <2>1, <2>2
<1>7. QED
  BY <1>2, <1>3, <1>5, <1>6 DEF Inv

\* The steps that neither look for the storage nor register a job.
OtherStep ==
  \/ Begin \/ KeyMissing \/ DaemonMissing \/ CheckStorage \/ StorageRejected
  \/ ResolveConnection \/ ConnectionRejected
  \/ Succeeds \/ Fails \/ Interrupted \/ ExitWithResult
  \/ ReadTablesRaises \/ RegisterRaises \/ Serve \/ ExitDaemon

LEMMA OtherKeeps ==
  ASSUME Inv, OtherStep
  PROVE  Inv'
<1> USE NoneAssumption
<1>1. UNCHANGED <<inv, storage, path, registration>>
  BY DEF OtherStep, Begin, KeyMissing, DaemonMissing, CheckStorage, StorageRejected,
         ResolveConnection, ConnectionRejected, Succeeds, Fails, Interrupted, ExitWithResult,
         ReadTablesRaises, RegisterRaises, Serve, ExitDaemon, UsageError, Traceback, Ended,
         invocation
<1>2. Registered'
  BY <1>1, RegistrationStays DEF Inv
<1>3. /\ CommandTypes' /\ Progress'
      /\ pc' \in {"start", "storage"} =>
           pc = "start" \/ (pc = "connect" /\ inv.command = "restore")
      /\ pc' = "connect" /\ inv.command = "restore" => pc = "start"
      /\ Resolved' /\ inv.command \in {"backup", "restore"} => Resolved
  <2>0. StorageUsable' <=> StorageUsable
    BY <1>1 DEF StorageUsable
  <2> USE <1>1, <2>0, InvocationsAssumption
      DEF Inv, CommandTypes, Progress, Resolved, OneShot, MissingBinaryToldApart,
          NoDumpForNothing, Codes, Causes, Points,
          Goto, Exit, UsageError, Traceback, Ended, outcome, invocation
  <2>1. CASE Begin              BY <2>1 DEF Begin
  <2>2. CASE KeyMissing         BY <2>2 DEF KeyMissing
  <2>3. CASE DaemonMissing      BY <2>3 DEF DaemonMissing
  <2>4. CASE CheckStorage       BY <2>4 DEF CheckStorage
  <2>5. CASE StorageRejected    BY <2>5 DEF StorageRejected
  <2>6. CASE ResolveConnection  BY <2>6 DEF ResolveConnection
  <2>7. CASE ConnectionRejected BY <2>7 DEF ConnectionRejected
  <2>8. CASE Succeeds           BY <2>8 DEF Succeeds
  <2>9. CASE Fails              BY <2>9 DEF Fails, MayFail, Message, BackendExists, StorageUsable
  <2>10. CASE Interrupted       BY <2>10 DEF Interrupted
  <2>11. CASE ExitWithResult    BY <2>11 DEF ExitWithResult, FailureCode
  <2>12. CASE ReadTablesRaises  BY <2>12 DEF ReadTablesRaises
  <2>13. CASE RegisterRaises    BY <2>13 DEF RegisterRaises
  <2>14. CASE Serve             BY <2>14 DEF Serve
  <2>15. CASE ExitDaemon        BY <2>15 DEF ExitDaemon
  <2>16. QED
    BY <2>1, <2>2, <2>3, <2>4, <2>5, <2>6, <2>7, <2>8, <2>9, <2>10, <2>11, <2>12, <2>13,
       <2>14, <2>15 DEF OtherStep
<1>4. Layers'
  <2>1. AsDocumented' <=> AsDocumented
    BY <1>1 DEF AsDocumented, Flags, Project
  <2>2. Raises(Config)' <=> Raises(Config)
    BY <1>1 DEF Config, Project
  <2>3. QED
    BY <1>1, <1>3, <2>1, <2>2 DEF Inv, Layers
<1>5. QED
  BY <1>2, <1>3, <1>4 DEF Inv

LEMMA DaemonKeeps ==
  ASSUME Inv, ReadTables \/ Register
  PROVE  Inv'
<1> USE NoneAssumption, WordsAssumption
<1>1. /\ UNCHANGED <<inv, storage, path, started, status, cause, words, code>>
      /\ pc \in {"load", "register"} /\ pc' = "register"
  BY DEF ReadTables, Register, Goto, invocation, outcome
<1>2. CommandTypes' /\ Progress'
  BY <1>1 DEF Inv, CommandTypes, Progress, OneShot, MissingBinaryToldApart, NoDumpForNothing,
              Points
<1>3. Layers'
  BY <1>1 DEF Layers, Resolved
<1>4. CASE Register
  BY <1>2, <1>3, <1>4, RegistrationKeeps DEF Register, Inv
<1>5. CASE ReadTables
  <2> DEFINE f == ScheduleFile
             ts == IF Readable(f) THEN f.tables ELSE <<>>
             g == [type |-> Get(Block(f), "storage_type", ""),
                   path |-> Get(Block(f), "local_path", "")]
  <2>1. IsFile(f)
    BY InvocationsAssumption DEF Inv, CommandTypes, ScheduleFile
  <2>2. IsLayer(Block(f)) /\ ts \in Seq(JobTable)
    <3>1. IsLayer(Nothing)
      BY DEF IsLayer, Nothing
    <3>2. <<>> \in Seq(JobTable)
      BY EmptySeq
    <3>3. QED
      BY <2>1, <3>1, <3>2 DEF IsFile, Block
  <2>3. Get(Block(f), "storage_type", "") \in STRING /\ Get(Block(f), "local_path", "") \in STRING
    BY <2>2 DEF IsLayer, Get
  <2>4. g \in [type : STRING, path : STRING]
    BY <2>3
  <2>5. Load(ts, g)
    BY <1>5 DEF ReadTables
  <2>6. Registered'
    BY <2>2, <2>4, <2>5, LoadKeeps DEF Inv
  <2>7. QED
    BY <1>2, <1>3, <2>6 DEF Inv
<1>6. QED
  BY <1>4, <1>5

LEMMA InvInvariant == Spec => []Inv
<1>1. Init => Inv
  <2> SUFFICES ASSUME Init PROVE Inv
    OBVIOUS
  <2>1. Registered
    <3>1. /\ phase = "idle" /\ tables = <<>> /\ pending = <<>> /\ rewired = 0
          /\ global = [type |-> "", path |-> ""] /\ workers = 0 /\ DOMAIN jobs = {}
      BY DEF Init, RegistrationInit
    <3>2. global \in [type : STRING, path : STRING]
      BY <3>1, WordsAssumption
    <3>3. RegistrationTypes
      BY <3>1, <3>2, EmptySeq DEF RegistrationTypes, Phases
    <3>4. Len(pending) = 0 /\ Len(tables) = 0
      BY <3>1, EmptySeq
    <3>5. \A n \in 1 .. Len(pending) : FALSE
      BY <3>4
    <3>6. PendingFromTables /\ FirstExists /\ LastExists
      BY <3>5 DEF PendingFromTables, FirstExists, LastExists
    <3>7. PhasesInOrder
      <4>1. phase = "idle" /\ tables = <<>> /\ pending = <<>> /\ rewired = 0 /\ DOMAIN jobs = {}
        BY <3>1
      <4>2. rewired = 0
        BY <4>1
      <4>3. Len(pending) <= Len(tables) /\ rewired <= Len(pending)
        BY <3>4, <4>2
      <4>4. QED
        BY <4>1, <4>3, Zenon DEF PhasesInOrder
    <3>8. QED
      BY <3>3, <3>6, <3>7 DEF Registered
  <2>2. CommandTypes /\ Progress /\ Layers
    BY InvocationsAssumption, NoneAssumption
       DEF Init, CommandTypes, Progress, Layers, Resolved, OneShot, MissingBinaryToldApart,
           NoDumpForNothing, Points
  <2>3. QED
    BY <2>1, <2>2 DEF Inv
<1>2. Inv /\ [Next]_vars => Inv'
  <2> SUFFICES ASSUME Inv, [Next]_vars PROVE Inv'
    OBVIOUS
  <2>1. CASE UNCHANGED vars
    <3>1. Registered'
      BY <2>1, RegistrationStays DEF vars, Inv
    <3>2. CommandTypes' /\ Progress'
      BY <2>1 DEF vars, Inv, CommandTypes, Progress, OneShot, MissingBinaryToldApart,
                  NoDumpForNothing, StorageUsable
    <3>3. (AsDocumented' <=> AsDocumented) /\ (Raises(Config)' <=> Raises(Config))
      BY <2>1 DEF vars, AsDocumented, Flags, Project, Config
    <3>4. Layers'
      BY <2>1, <3>3 DEF vars, Inv, Layers, Resolved
    <3>5. QED
      BY <3>1, <3>2, <3>4 DEF Inv
  <2>2. QED
    BY <2>1, ResolveKeeps, OtherKeeps, DaemonKeeps DEF Next, OtherStep
<1>3. QED
  BY <1>1, <1>2, PTL DEF Spec

-----------------------------------------------------------------------------
\* Every variable keeps its type; a job's options are of a table that exists, and
\* just the jobs with a new runner are wired.
THEOREM TypeCorrect == Spec => []TypeOK
<1>1. Inv => TypeOK
  BY DEF Inv, CommandTypes, TypeOK, Registered, RegistrationTypes, PendingFromTables,
         PhasesInOrder, RegistrationTypeOK
<1>2. QED
  BY <1>1, InvInvariant, PTL

\* The documented precedence holds for every file, environment and flag.
THEOREM PrecedenceHolds == Spec => []LayersRespected
<1>1. Inv => LayersRespected
  BY DEF Inv, Layers, Resolved, AsDocumented, Flags, LayersRespected
<1>2. QED
  BY <1>1, InvInvariant, PTL

\* The exit code of a backup or a connection test tells a missing binary from all
\* else, whatever other words the message has.
THEOREM MissingBinaryIsTold == Spec => []MissingBinaryToldApart
<1>1. Inv => MissingBinaryToldApart
  BY DEF Inv, Progress
<1>2. QED
  BY <1>1, InvInvariant, PTL

\* For any flags, files and environment: a backup that was started has a storage.
THEOREM StorageComesFirst == Spec => []NoDumpForNothing
<1>1. Inv => NoDumpForNothing
  BY DEF Inv, Progress
<1>2. QED
  BY <1>1, InvInvariant, PTL

\* The job of an id, once the daemon runs.
LEMMA RunningJob ==
  ASSUME Registered, phase = "running", NEW n \in 1 .. Len(tables)
  PROVE  LET id == JobId(tables[n]) IN
         /\ id \in DOMAIN jobs
         /\ \E l \in 1 .. Len(tables), m \in 1 .. Len(tables) :
              /\ JobId(tables[l]) = id /\ JobId(tables[m]) = id
              /\ \A k \in 1 .. Len(tables) : JobId(tables[k]) = id => m <= k /\ k <= l
              /\ jobs[id].trigger = l
              /\ jobs[id].wired
              /\ jobs[id].opts = Options(m, SecondLoop(tables[m], global))
<1> DEFINE id == JobId(tables[n])
           l == LastPending(id)
           m == FirstTable(id)
<1>1. Len(pending) = Len(tables) /\ rewired = Len(pending) /\ Len(tables) \in Nat
  BY DEF Registered, RegistrationTypes, PhasesInOrder
<1>2. pending[n].id = id
  BY <1>1 DEF Registered, PendingFromTables
<1>3. /\ l \in 1 .. Len(pending) /\ pending[l].id = id
      /\ \A k \in l + 1 .. Len(pending) : pending[k].id # id
  BY <1>1, <1>2, LastPendingFound
<1>4. /\ m \in 1 .. Len(tables) /\ JobId(tables[m]) = id
      /\ \A k \in 1 .. m - 1 : JobId(tables[k]) # id
  BY <1>1, <1>2, FirstTableFound
<1> HIDE DEF l, m, id
<1>5. /\ JobId(tables[l]) = id /\ pending[l].trigger = l /\ pending[l].wired
      /\ pending[l].opts = Options(m, SecondLoop(tables[m], global))
  BY <1>1, <1>3 DEF Registered, PendingFromTables, m
<1>6. id \in DOMAIN jobs /\ jobs[id] = pending[l]
  <2>1. n \in DOMAIN pending
    BY <1>1 DEF Registered, RegistrationTypes
  <2>2. jobs = [i \in {pending[k].id : k \in DOMAIN pending} |-> pending[LastPending(i)]]
    BY DEF Registered, PhasesInOrder
  <2>3. QED
    BY <1>2, <2>1, <2>2 DEF l
<1>7. ASSUME NEW k \in 1 .. Len(tables), JobId(tables[k]) = id
      PROVE  m <= k /\ k <= l
  <2>1. pending[k].id = id
    BY <1>1, <1>7 DEF Registered, PendingFromTables
  <2>2. k \notin l + 1 .. Len(pending) /\ k \notin 1 .. m - 1
    BY <1>3, <1>4, <1>7, <2>1
  <2>3. QED
    BY <1>1, <1>3, <1>4, <2>2
<1>8. QED
  BY <1>1, <1>3, <1>4, <1>5, <1>6, <1>7 DEF id

\* For any tables: every table has its job, and tables of one id share one, with the
\* last one's times and what the first one describes; its backups go to the storage
\* that table or else the global [storage] names, by whichever key, and to the local
\* path that Destined says.
THEOREM TablesRun == Spec => []JobsRunTheirTable
<1>1. ASSUME Registered, phase = "running", NEW n \in 1 .. Len(tables)
      PROVE  LET id == JobId(tables[n]) IN
             /\ id \in DOMAIN jobs
             /\ {jobs[id].opts.table, jobs[id].trigger} \subseteq SameId(n)
             /\ jobs[id].opts.table <= n /\ n <= jobs[id].trigger
             /\ Destined(tables[jobs[id].opts.table], jobs[id].opts)
  <2> DEFINE id == JobId(tables[n])
  <2>1. PICK l \in 1 .. Len(tables), m \in 1 .. Len(tables) :
          /\ JobId(tables[l]) = id /\ JobId(tables[m]) = id
          /\ m <= n /\ n <= l
          /\ jobs[id].trigger = l
          /\ jobs[id].opts = Options(m, SecondLoop(tables[m], global))
    BY <1>1, RunningJob
  <2>2. tables[m] \in JobTable /\ global \in [type : STRING, path : STRING] /\ m \in Nat
    BY <1>1 DEF Registered, RegistrationTypes
  <2>3. jobs[id].opts.table = m
    BY <2>1 DEF Options
  <2>4. Destined(tables[m], jobs[id].opts)
    BY <2>1, <2>2, SecondLoopDestines
  <2>5. {m, l} \subseteq SameId(n)
    BY <1>1, <2>1 DEF SameId, Registered, RegistrationTypes
  <2>6. id \in DOMAIN jobs
    BY <1>1, RunningJob
  <2>7. QED
    BY <2>1, <2>3, <2>4, <2>5, <2>6
<1>2. Inv => JobsRunTheirTable
  BY <1>1 DEF Inv, Registered, RegistrationTypes, JobsRunTheirTable
<1>3. QED
  BY <1>2, InvInvariant, PTL

Ids(ps) == {ps[k].id : k \in 1 .. Len(ps)}

\* There are no more ids than jobs.
LEMMA IdsAreFew ==
  ASSUME NEW ps \in Seq(PendingJob)
  PROVE  Cardinality(Ids(ps)) \in Nat /\ Cardinality(Ids(ps)) <= Len(ps)
<1> DEFINE n == Len(ps)
           Id == [k \in 1 .. n |-> ps[k].id]
<1>1. n \in Nat
  OBVIOUS
<1>2. Id \in Surjection(1 .. n, Ids(ps))
  BY DEF Surjection, Ids
<1> HIDE DEF n, Id
<1>3. IsFiniteSet(1 .. n) /\ Cardinality(1 .. n) = n
  BY <1>1, FS_Interval
<1>4. IsFiniteSet(Ids(ps)) /\ Cardinality(Ids(ps)) <= Cardinality(1 .. n)
  BY <1>2, <1>3, FS_Surjection
<1>5. Cardinality(Ids(ps)) \in Nat
  BY <1>4, FS_CardinalityType
<1>6. QED
  BY <1>1, <1>3, <1>4, <1>5 DEF n

\* For any tables: no runner is left without the daemon's registry, and the pool
\* has two workers more than jobs, as Scheduler assumes.
THEOREM SchedulerAssumptionsHold == Spec => []DaemonIsAsModelled
<1>1. ASSUME Registered, phase = "running"
      PROVE  DaemonIsAsModelled
  <2>1. /\ Len(pending) = Len(tables) /\ Len(tables) \in Nat
        /\ DOMAIN pending = 1 .. Len(pending)
        /\ workers = PoolSize(Len(tables))
        /\ jobs = [i \in {pending[k].id : k \in DOMAIN pending} |-> pending[LastPending(i)]]
    BY <1>1 DEF Registered, RegistrationTypes, PhasesInOrder
  <2>2. DOMAIN jobs = Ids(pending)
    BY <2>1 DEF Ids
  <2>3. ASSUME NEW id \in DOMAIN jobs
        PROVE  jobs[id].wired
    <3>1. PICK n \in 1 .. Len(tables) : id = JobId(tables[n])
      BY <1>1, <2>1, <2>3 DEF Registered, PendingFromTables
    <3>2. QED
      BY <1>1, <3>1, RunningJob
  <2>4. Cardinality(Ids(pending)) \in Nat /\ Cardinality(Ids(pending)) <= Len(pending)
    BY <1>1, IdsAreFew DEF Registered, RegistrationTypes
  <2>5. workers = Len(tables) + 2
    BY <2>1 DEF PoolSize
  <2>6. workers >= Cardinality(DOMAIN jobs) + 2
    <3> DEFINE few == Cardinality(Ids(pending))
    <3>1. few \in Nat /\ few <= Len(tables) /\ Cardinality(DOMAIN jobs) = few
      BY <2>1, <2>2, <2>4
    <3> HIDE DEF few
    <3>2. QED
      BY <2>1, <2>5, <3>1
  <2>7. QED
    BY <2>3, <2>6 DEF DaemonIsAsModelled
<1>2. Inv => DaemonIsAsModelled
  BY <1>1 DEF Inv, DaemonIsAsModelled
<1>3. QED
  BY <1>2, InvInvariant, PTL

=============================================================================
