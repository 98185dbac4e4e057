------------------------------ MODULE Scheduler ------------------------------
(***************************************************************************)
(* The scheduler daemon (core/scheduler.py): the job runner with its       *)
(* overlap guard and active-job registry, and the main thread's drain and  *)
(* shutdown, on top of APScheduler, which is external.                     *)
(*                                                                         *)
(* Of APScheduler 3 the module keeps what the daemon relies on: a due      *)
(* firing is submitted to the thread pool unless the job already has       *)
(* max_instances instances, in which case it is dropped; an instance ends  *)
(* when its worker is through with it; shutdown marks the scheduler        *)
(* stopped at once, then closes the pool, and with wait=True returns when  *)
(* the pool has worked off its queue.  Several firings of a job that come  *)
(* due together are one (coalesce), and one that is picked up too late is  *)
(* not run (misfire_grace_time).                                           *)
(*                                                                         *)
(* Time is abstract: a backup takes any time, and the grace period ends    *)
(* at some point after the signal.                                         *)
(***************************************************************************)

EXTENDS Naturals, Sequences, FiniteSets

CONSTANTS
  Jobs,      \* the ids of the scheduled jobs
  Workers,   \* the threads of the executor's pool
  Direct,    \* threads that call a job's runner themselves
  None       \* no thread, no exit code, no job

Callers == Workers \union Direct

\* Faulty variant: overlapping instances are left to the runner's guard.
MaxInstances_Three == 3

MaxInstances == 1

EXIT_INTERRUPTED == 14

\* ThreadPoolExecutor(max_workers=max(2, len(jobs) + 2))
ASSUME PoolAssumption ==
  /\ IsFiniteSet(Jobs) /\ IsFiniteSet(Workers)
  /\ Cardinality(Workers) = Cardinality(Jobs) + 2

ASSUME NamesAssumption ==
  /\ Workers \intersect Direct = {}
  /\ None \notin Callers \union Jobs \union {0, EXIT_INTERRUPTED}

VARIABLES
  running,    \* APScheduler's state is not STATE_STOPPED
  instances,  \* instances[j]: the executor's count of instances of job j
  queue,      \* the job ids submitted and not yet picked up by a worker
  pc,         \* pc[c]: the next step of caller c in the runner
  job,        \* job[c]: the job whose runner c is in
  lock,       \* lock[j]: the caller holding the runner's _local lock
  count,      \* count[j]: _active["count"] of the runner
  registry,   \* the keys of the daemon's _active_jobs
  signalled,  \* _shutdown_event is set
  expired,    \* the grace period since the main thread woke is over
  mpc,        \* the next step of the main thread in wait_for_shutdown
  scan,       \* the registered jobs _any_job_running has still to look at
  code        \* what wait_for_shutdown returned

pool == <<instances, queue>>
runner == <<pc, job, lock, count, registry>>
daemon == <<running, signalled, expired, mpc, scan, code>>
vars == <<running, instances, queue, pc, job, lock, count, registry, signalled,
          expired, mpc, scan, code>>

RunnerPoints == {"idle", "guard", "claim", "register", "skip", "body", "clear",
                 "unregister", "return"}

MainPoints == {"wait", "test", "snap", "scan", "resnap", "rescan", "abort",
               "shutdown", "join", "returned"}

TypeOK ==
  /\ running \in BOOLEAN
  /\ instances \in [Jobs -> Nat]
  /\ queue \in Seq(Jobs)
  /\ pc \in [Callers -> RunnerPoints]
  /\ job \in [Callers -> Jobs \union {None}]
  /\ lock \in [Jobs -> Callers \union {None}]
  /\ count \in [Jobs -> {0, 1}]
  /\ registry \subseteq Jobs
  /\ signalled \in BOOLEAN
  /\ expired \in BOOLEAN
  /\ mpc \in MainPoints
  /\ scan \subseteq Jobs
  /\ code \in {None, 0, EXIT_INTERRUPTED}

\* start_scheduler has returned: the jobs are registered, APScheduler runs.
Init ==
  /\ running = TRUE
  /\ instances = [j \in Jobs |-> 0]
  /\ queue = <<>>
  /\ pc = [c \in Callers |-> "idle"]
  /\ job = [c \in Callers |-> None]
  /\ lock = [j \in Jobs |-> None]
  /\ count = [j \in Jobs |-> 0]
  /\ registry = {}
  /\ signalled = FALSE
  /\ expired = FALSE
  /\ mpc = "wait"
  /\ scan = {}
  /\ code = None

-----------------------------------------------------------------------------
(* APScheduler and its pool (external).                                    *)

\* A firing of j comes due. At the limit submit_job raises
\* MaxInstancesReachedError and the firing is dropped: nothing changes.
Fire(j) ==
  /\ running
  /\ instances[j] < MaxInstances
  /\ instances' = [instances EXCEPT ![j] = @ + 1]
  /\ queue' = Append(queue, j)
  /\ UNCHANGED <<runner, daemon>>

\* An idle worker takes the oldest submission and calls the job's runner.
PickUp(w) ==
  /\ pc[w] = "idle" /\ queue # <<>>
  /\ queue' = Tail(queue)
  /\ pc' = [pc EXCEPT ![w] = "guard"]
  /\ job' = [job EXCEPT ![w] = Head(queue)]
  /\ UNCHANGED <<instances, lock, count, registry, daemon>>

\* The submission is older than misfire_grace_time: the runner is not called.
Misfire(w) ==
  /\ pc[w] = "idle" /\ queue # <<>>
  /\ queue' = Tail(queue)
  /\ pc' = [pc EXCEPT ![w] = "return"]
  /\ job' = [job EXCEPT ![w] = Head(queue)]
  /\ UNCHANGED <<instances, lock, count, registry, daemon>>

\* The worker is through with the instance.
Finish(w) ==
  /\ pc[w] = "return"
  /\ instances' = [instances EXCEPT ![job[w]] = @ - 1]
  /\ pc' = [pc EXCEPT ![w] = "idle"]
  /\ job' = [job EXCEPT ![w] = None]
  /\ UNCHANGED <<queue, lock, count, registry, daemon>>

-----------------------------------------------------------------------------
(* The runner (_make_job_runner), with the daemon's registry.              *)

\* A thread that is not the pool's calls j's runner, and later returns.
Call(d, j) ==
  /\ pc[d] = "idle"
  /\ pc' = [pc EXCEPT ![d] = "guard"]
  /\ job' = [job EXCEPT ![d] = j]
  /\ UNCHANGED <<pool, lock, count, registry, daemon>>

Returned(d) ==
  /\ pc[d] = "return"
  /\ pc' = [pc EXCEPT ![d] = "idle"]
  /\ job' = [job EXCEPT ![d] = None]
  /\ UNCHANGED <<pool, lock, count, registry, daemon>>

\* Faulty variant: the guard reads the count before it takes the lock.
Guard_Unlocked(c) ==
  /\ pc[c] = "guard"
  /\ pc' = [pc EXCEPT ![c] = IF count[job[c]] = 0 THEN "claim" ELSE "return"]
  /\ UNCHANGED <<pool, job, lock, count, registry, daemon>>

\* with _local: the previous run is still active, or it is not.
Guard(c) ==
  /\ pc[c] = "guard"
  /\ lock[job[c]] = None
  /\ lock' = [lock EXCEPT ![job[c]] = c]
  /\ pc' = [pc EXCEPT ![c] = IF count[job[c]] = 0 THEN "claim" ELSE "skip"]
  /\ UNCHANGED <<pool, job, count, registry, daemon>>

\* The trigger is skipped, with a warning; the lock is released.
Skip(c) ==
  /\ pc[c] = "skip"
  /\ lock' = [lock EXCEPT ![job[c]] = None]
  /\ pc' = [pc EXCEPT ![c] = "return"]
  /\ UNCHANGED <<pool, job, count, registry, daemon>>

Claim(c) ==
  /\ pc[c] = "claim"
  /\ count' = [count EXCEPT ![job[c]] = 1]
  /\ pc' = [pc EXCEPT ![c] = "register"]
  /\ UNCHANGED <<pool, job, lock, registry, daemon>>

\* Faulty variant: the run is entered under its thread.
Register_ByThread(c) ==
  /\ pc[c] = "register"
  /\ registry' = registry \union {c}
  /\ lock' = [lock EXCEPT ![job[c]] = None]
  /\ pc' = [pc EXCEPT ![c] = "body"]
  /\ UNCHANGED <<pool, job, count, daemon>>

\* Faulty variant: the runner was made without the daemon's registry.
Register_Unwired(c) ==
  /\ pc[c] = "register"
  /\ lock' = [lock EXCEPT ![job[c]] = None]
  /\ pc' = [pc EXCEPT ![c] = "body"]
  /\ UNCHANGED <<pool, job, count, registry, daemon>>

Register(c) ==
  /\ pc[c] = "register"
  /\ registry' = registry \union {job[c]}
  /\ lock' = [lock EXCEPT ![job[c]] = None]
  /\ pc' = [pc EXCEPT ![c] = "body"]
  /\ UNCHANGED <<pool, job, count, daemon>>

\* Faulty variant: the count is reset on the normal path only, not in a
\* finally clause.
Body_NoFinally(c) ==
  /\ pc[c] = "body"
  /\ pc' \in {[pc EXCEPT ![c] = p] : p \in {"clear", "return"}}
  /\ UNCHANGED <<pool, job, lock, count, registry, daemon>>

\* run_backup returns a result of any status, or raises.
Body(c) ==
  /\ pc[c] = "body"
  /\ pc' = [pc EXCEPT ![c] = "clear"]
  /\ UNCHANGED <<pool, job, lock, count, registry, daemon>>

\* The finally clause, without the lock: two steps.
Clear(c) ==
  /\ pc[c] = "clear"
  /\ count' = [count EXCEPT ![job[c]] = 0]
  /\ pc' = [pc EXCEPT ![c] = "unregister"]
  /\ UNCHANGED <<pool, job, lock, registry, daemon>>

Unregister(c) ==
  /\ pc[c] = "unregister"
  /\ registry' = registry \ {job[c]}
  /\ pc' = [pc EXCEPT ![c] = "return"]
  /\ UNCHANGED <<pool, job, lock, count, daemon>>

RunnerStep(c) ==
  \/ Guard(c) \/ Skip(c) \/ Claim(c) \/ Register(c) \/ Body(c)
  \/ Clear(c) \/ Unregister(c)

-----------------------------------------------------------------------------
(* The daemon's main thread (wait_for_shutdown) and its signal handler.    *)

MainGoto(from, to) ==
  /\ mpc = from
  /\ mpc' = to
  /\ UNCHANGED <<pool, runner, signalled, expired>>

\* SIGINT or SIGTERM: the handler calls request_shutdown.
Signal ==
  /\ ~signalled
  /\ signalled' = TRUE
  /\ UNCHANGED <<pool, runner, running, expired, mpc, scan, code>>

\* The deadline passes; it is set when the main thread wakes.
Expire ==
  /\ mpc # "wait" /\ ~expired
  /\ expired' = TRUE
  /\ UNCHANGED <<pool, runner, running, signalled, mpc, scan, code>>

Wake ==
  /\ signalled
  /\ MainGoto("wait", "test")
  /\ UNCHANGED <<running, scan, code>>

\* Faulty variant: the loop drains without a deadline.
LoopTest_NoDeadline ==
  /\ \/ running /\ MainGoto("test", "snap")
     \/ ~running /\ MainGoto("test", "resnap")
  /\ UNCHANGED <<running, scan, code>>

\* while self.scheduler.running and time.monotonic() < deadline
LoopTest ==
  /\ \/ running /\ ~expired /\ MainGoto("test", "snap")
     \/ (~running \/ expired) /\ MainGoto("test", "resnap")
  /\ UNCHANGED <<running, scan, code>>

\* _any_job_running copies the registry, then looks at the counts one by one.
Snapshot ==
  /\ MainGoto("snap", "scan") \/ MainGoto("resnap", "rescan")
  /\ scan' = registry
  /\ UNCHANGED <<running, code>>

\* A finished run's count, or a count that is cleared already, is passed over.
ScanIdle ==
  /\ \E j \in scan : count[j] = 0 /\ scan' = scan \ {j}
  /\ MainGoto("scan", "scan") \/ MainGoto("rescan", "rescan")
  /\ UNCHANGED <<running, code>>

\* A run is active: sleep and test again, or, past the loop, abort.
ScanActive ==
  /\ \E j \in scan : count[j] # 0
  /\ scan' = {}
  /\ MainGoto("scan", "test") \/ MainGoto("rescan", "abort")
  /\ UNCHANGED <<running, code>>

\* None is active: leave the loop, or shut down.
ScanNone ==
  /\ scan = {}
  /\ MainGoto("scan", "resnap") \/ MainGoto("rescan", "shutdown")
  /\ UNCHANGED <<running, scan, code>>

\* scheduler.shutdown(wait=False); return EXIT_INTERRUPTED
Abort ==
  /\ MainGoto("abort", "returned")
  /\ running' = FALSE
  /\ code' = EXIT_INTERRUPTED
  /\ UNCHANGED scan

\* Faulty variant: the clean path does not wait either.
Shutdown_NoWait ==
  /\ MainGoto("shutdown", "returned")
  /\ running' = FALSE
  /\ code' = 0
  /\ UNCHANGED scan

\* shutdown(wait=True). The grace timer it starts first is armed for at least
\* a second; when it rings, scheduler.running is already false, so
\* _abort_if_still_running does nothing and has no action here.
Shutdown ==
  /\ MainGoto("shutdown", "join")
  /\ running' = FALSE
  /\ UNCHANGED <<scan, code>>

\* The pool has worked off its queue and its threads have ended; return 0.
Join ==
  /\ queue = <<>>
  /\ \A w \in Workers : pc[w] = "idle"
  /\ MainGoto("join", "returned")
  /\ code' = 0
  /\ UNCHANGED <<running, scan>>

MainStep ==
  \/ Wake \/ LoopTest \/ Snapshot \/ ScanIdle \/ ScanActive \/ ScanNone
  \/ Abort \/ Shutdown \/ Join

-----------------------------------------------------------------------------
PoolStep(w) == PickUp(w) \/ Misfire(w) \/ RunnerStep(w) \/ Finish(w)

DirectStep(d) == RunnerStep(d) \/ Returned(d)

Next ==
  \/ \E j \in Jobs : Fire(j)
  \/ \E w \in Workers : PoolStep(w)
  \/ \E d \in Direct : DirectStep(d) \/ \E j \in Jobs : Call(d, j)
  \/ Signal \/ Expire \/ MainStep

Spec == Init /\ [][Next]_vars

\* Threads that can run do, backups end, and time passes. Nothing makes a
\* trigger fire, a signal arrive or another thread call a runner, and nothing
\* makes the lock fair.
Fairness ==
  /\ \A w \in Workers : WF_vars(PoolStep(w))
  /\ \A d \in Direct : WF_vars(DirectStep(d))
  /\ WF_vars(MainStep)
  /\ WF_vars(Expire)

FairSpec == Spec /\ Fairness

\* The same, but nothing makes a backup end: a dump may hang.
HangingSpec ==
  /\ Spec
  /\ \A w \in Workers : WF_vars(PoolStep(w) /\ pc[w] # "body")
  /\ \A d \in Direct : WF_vars(DirectStep(d) /\ pc[d] # "body")
  /\ WF_vars(MainStep)
  /\ WF_vars(Expire)

-----------------------------------------------------------------------------
(* What the daemon promises.                                               *)

Active(c) == pc[c] \in {"claim", "register", "body", "clear"}

\* "No concurrent execution of the same scheduled job, ever": two threads are
\* never both in a run of one job, however they came to call its runner.
NoOverlap ==
  \A c, d \in Callers : Active(c) /\ Active(d) /\ job[c] = job[d] => c = d

\* With len(jobs) + 2 workers a submitted job never waits for another one's
\* backup to end: there is an idle worker for every submission.
WorkerForEverySubmission ==
  Len(queue) <= Cardinality({w \in Workers : pc[w] = "idle"})

\* Exit code 0 is returned only when no scheduled backup is under way or
\* waiting, including one that started while the daemon was draining.
ZeroMeansIdle ==
  code = 0 => queue = <<>> /\ \A w \in Workers : pc[w] = "idle"

\* A run of the pool is visible to the drain loop while it is under way,
\* unless other threads call runners too: the registration of a run is never
\* undone by the end of the one before it. The runner does not see to that (its
\* count is down before the registration is removed); that the executor keeps the
\* job's slot until the runner has returned does.
ActiveIsRegistered ==
  Direct = {} =>
    \A w \in Workers : pc[w] = "body" => job[w] \in registry /\ count[job[w]] = 1

\* "previous run still active, skipped": a trigger is skipped only while another
\* run of its job is under way, and that is never one of the pool's when the trigger
\* is, since the executor has let only one of them in. So neither a run that ended
\* in an error nor the gap between the two ways of counting loses a backup.
SkipsHaveARun ==
  [][\A c \in Callers :
       pc[c] = "guard" /\ pc'[c] = "skip" =>
         \E d \in Callers \ {c} :
           Active(d) /\ job[d] = job[c] /\ {c, d} \intersect Direct # {}]_vars

\* The guard of a job opens again after every run, whatever the run did.
GuardReopens == \A j \in Jobs : count[j] = 1 ~> count[j] = 0

\* A signal leads to wait_for_shutdown returning, because backups end.
ShutdownCompletes == signalled ~> mpc = "returned"

\* A guard is shut only while somebody is in a run of its job, who will open it:
\* no way out of a run leaves the count behind.
ShutOnlyByRun ==
  \A j \in Jobs : count[j] = 1 => \E c \in Callers : Active(c) /\ job[c] = j

CanGoOn(c) == pc[c] # "idle" /\ (pc[c] = "guard" => lock[job[c]] = None)

\* A caller in a runner can go on, or waits for a lock whose holder can; and a
\* submission has a worker to take it. So the pool a shutdown joins moves on.
NobodyStuck ==
  /\ \A c \in Callers :
       pc[c] # "idle" => \/ CanGoOn(c)
                        \/ \E d \in Callers : lock[job[c]] = d /\ CanGoOn(d)
  /\ queue # <<>> => \E w \in Workers : pc[w] = "idle"

\* The drain loop never waits for a run that has ended: whatever is registered is
\* in its run or leaving it, and where only the pool calls runners, that is also
\* registered.
RegistryIsExact ==
  LET entered == {job[c] : c \in {d \in Callers :
                                   pc[d] \in {"body", "clear", "unregister"}}}
  IN  registry \subseteq entered /\ (Direct = {} => registry = entered)

\* The daemon gives up only in a moment when some scheduled run is under way.
InterruptsRuns ==
  [][mpc # "abort" /\ mpc' = "abort" => \E c \in Callers : Active(c)]_vars

-----------------------------------------------------------------------------
(* What the documentation says and the code does not do.                   *)

\* "EXIT_INTERRUPTED (14) if the grace period expired before active jobs
\* finished": the code is returned only then.
InterruptedMeansExpired == code = EXIT_INTERRUPTED => expired

\* "if expired, abort subprocess/multipart, clean temp files, [...] exit 14": when
\* the daemon has given up, no scheduled backup is under way any more.
ExpiryAbortsRuns ==
  code = EXIT_INTERRUPTED /\ expired => \A w \in Workers : pc[w] # "body"

\* "Bound the wait by the configured grace period": the daemon returns after a
\* signal whether or not its backups end.
GraceBoundsShutdown == signalled ~> mpc = "returned"

=============================================================================
