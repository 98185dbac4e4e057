--------------------------- MODULE SchedulerProofs ---------------------------
(***************************************************************************)
(* Proofs about Scheduler, for every set of jobs, every pool of            *)
(* len(jobs) + 2 workers and every set of threads beside it.               *)
(***************************************************************************)

EXTENDS Scheduler, FiniteSetTheorems, TLAPS

(* Slots: where the one instance of a job is.                              *)

Placed == \A c \in Callers : pc[c] = "idle" <=> job[c] = None

Queued(j) == \E i \in 1 .. Len(queue) : queue[i] = j
Running(j) == \E w \in Workers : job[w] = j

\* A job is in the queue once, or with one worker, or nowhere.
OnePlace ==
  /\ \A i, k \in 1 .. Len(queue) : queue[i] = queue[k] => i = k
  /\ \A v, w \in Workers : job[v] = job[w] /\ job[v] # None => v = w
  /\ \A j \in Jobs : ~(Queued(j) /\ Running(j))

Counts ==
  /\ instances \in [Jobs -> {0, 1}]
  /\ \A j \in Jobs : instances[j] = 1 <=> Queued(j) \/ Running(j)

Slots == TypeOK /\ Placed /\ OnePlace /\ Counts

LEMMA RunnerTypes ==
  ASSUME Slots, NEW c \in Callers, RunnerStep(c)
  PROVE  /\ TypeOK' /\ Placed'
         /\ UNCHANGED <<instances, queue, job, daemon>>
         /\ pc[c] # "idle" /\ job[c] \in Jobs
<1> USE NamesAssumption
<1> USE DEF Slots, TypeOK, Placed, RunnerPoints, pool, daemon, Callers
<1>1. CASE Guard(c)      BY <1>1 DEF Guard
<1>2. CASE Skip(c)       BY <1>2 DEF Skip
<1>3. CASE Claim(c)      BY <1>3 DEF Claim
<1>4. CASE Register(c)   BY <1>4 DEF Register
<1>5. CASE Body(c)       BY <1>5 DEF Body
<1>6. CASE Clear(c)      BY <1>6 DEF Clear
<1>7. CASE Unregister(c) BY <1>7 DEF Unregister
<1>8. QED
  BY <1>1, <1>2, <1>3, <1>4, <1>5, <1>6, <1>7 DEF RunnerStep

\* The main thread, the signal and the clock leave pool and runners alone.
LEMMA DaemonTypes ==
  ASSUME TypeOK, Signal \/ Expire \/ MainStep
  PROVE  /\ TypeOK'
         /\ UNCHANGED <<pool, runner>>
<1> USE DEF TypeOK, MainPoints, MainGoto, EXIT_INTERRUPTED, pool, runner
<1>1. CASE Signal     BY <1>1 DEF Signal
<1>2. CASE Expire     BY <1>2 DEF Expire
<1>3. CASE Wake       BY <1>3 DEF Wake
<1>4. CASE LoopTest   BY <1>4 DEF LoopTest
<1>5. CASE Snapshot   BY <1>5 DEF Snapshot
<1>6. CASE ScanIdle   BY <1>6 DEF ScanIdle
<1>7. CASE ScanActive BY <1>7 DEF ScanActive
<1>8. CASE ScanNone   BY <1>8 DEF ScanNone
<1>9. CASE Abort      BY <1>9 DEF Abort
<1>10. CASE Shutdown  BY <1>10 DEF Shutdown
<1>11. CASE Join      BY <1>11 DEF Join
<1>12. QED
  BY <1>1, <1>2, <1>3, <1>4, <1>5, <1>6, <1>7, <1>8, <1>9, <1>10, <1>11
     DEF MainStep

\* Firing a job whose slot is free puts it in the queue, its only place.
LEMMA FireKeepsSlots ==
  ASSUME Slots, NEW j \in Jobs, Fire(j)
  PROVE  Slots'
<1> USE DEF Slots
<1>1. /\ queue \in Seq(Jobs) /\ queue' = Append(queue, j)
      /\ instances[j] = 0 /\ instances' = [instances EXCEPT ![j] = 1]
      /\ UNCHANGED <<runner, daemon>>
  <2>1. instances[j] \in {0, 1} /\ instances[j] < 1
    BY DEF Fire, Counts, MaxInstances
  <2>2. instances[j] = 0 /\ instances[j] + 1 = 1
    BY <2>1
  <2>3. QED
    BY <2>2 DEF Fire, TypeOK
<1>2. /\ Len(queue') = Len(queue) + 1
      /\ queue'[Len(queue) + 1] = j
      /\ \A i \in 1 .. Len(queue) : queue'[i] = queue[i]
      /\ Len(queue) \in Nat
  BY <1>1
<1>3. TypeOK' /\ Placed'
  BY <1>1 DEF TypeOK, Placed, Counts, runner, daemon
<1>4. \A k \in Jobs : Queued(k)' <=> Queued(k) \/ k = j
  BY <1>2 DEF Queued
<1>5. \A k \in Jobs : Running(k)' <=> Running(k)
  BY <1>1 DEF Running, runner
<1>6. ~Queued(j) /\ ~Running(j)
  BY <1>1 DEF Counts
<1>7. OnePlace'
  <2>1. \A i, k \in 1 .. Len(queue') : queue'[i] = queue'[k] => i = k
    BY <1>2, <1>6 DEF OnePlace, Queued
  <2>2. QED
    BY <2>1, <1>1, <1>4, <1>5, <1>6 DEF OnePlace, runner
<1>8. Counts'
  BY <1>1, <1>4, <1>5 DEF Counts, TypeOK
<1>9. QED
  BY <1>3, <1>7, <1>8

\* An idle worker that takes the head of the queue becomes its only place.
LEMMA TakeKeepsSlots ==
  ASSUME Slots, NEW w \in Workers, PickUp(w) \/ Misfire(w)
  PROVE  Slots'
<1> USE DEF Slots, Callers
<1> DEFINE h == Head(queue)
<1>1. /\ queue \in Seq(Jobs) /\ queue # <<>> /\ queue' = Tail(queue)
      /\ pc[w] = "idle" /\ job[w] = None
      /\ \E p \in {"guard", "return"} : pc' = [pc EXCEPT ![w] = p]
      /\ job' = [job EXCEPT ![w] = h]
      /\ UNCHANGED <<instances, lock, count, registry, daemon>>
  BY DEF PickUp, Misfire, TypeOK, Placed
<1>2. /\ h \in Jobs /\ h = queue[1]
      /\ Len(queue) \in Nat \ {0} /\ Len(queue') = Len(queue) - 1
      /\ \A i \in 1 .. Len(queue') : queue'[i] = queue[i + 1]
  BY <1>1
<1>3. TypeOK'
  BY <1>1, <1>2 DEF TypeOK, RunnerPoints, daemon
<1>4. Placed'
  BY <1>1, <1>2, NamesAssumption DEF TypeOK, Placed
<1>5. \A k \in Jobs : Queued(k)' <=> Queued(k) /\ k # h
  <2>1. ASSUME NEW k \in Jobs, Queued(k)' PROVE Queued(k) /\ k # h
    <3>1. PICK i \in 1 .. Len(queue') : queue'[i] = k
      BY <2>1 DEF Queued
    <3>2. i + 1 \in 1 .. Len(queue) /\ queue[i + 1] = k /\ i + 1 # 1
      BY <3>1, <1>2
    <3>3. QED
      BY <3>2, <1>2 DEF Queued, OnePlace
  <2>2. ASSUME NEW k \in Jobs, Queued(k), k # h PROVE Queued(k)'
    <3>1. PICK i \in 1 .. Len(queue) : queue[i] = k
      BY <2>2 DEF Queued
    <3>2. i - 1 \in 1 .. Len(queue') /\ queue'[i - 1] = k
      BY <3>1, <2>2, <1>2
    <3>3. QED
      BY <3>2 DEF Queued
  <2>3. QED
    BY <2>1, <2>2
<1>6. \A k \in Jobs : Running(k)' <=> Running(k) \/ k = h
  BY <1>1, <1>2, NamesAssumption DEF Running, TypeOK
<1>7. Queued(h) /\ ~Running(h)
  BY <1>2 DEF Queued, OnePlace
<1>8. OnePlace'
  <2>1. \A i, k \in 1 .. Len(queue') : queue'[i] = queue'[k] => i = k
    <3> SUFFICES ASSUME NEW i \in 1 .. Len(queue'), NEW k \in 1 .. Len(queue'),
                        queue'[i] = queue'[k]
                 PROVE  i = k
      OBVIOUS
    <3>1. i + 1 \in 1 .. Len(queue) /\ k + 1 \in 1 .. Len(queue)
      BY <1>2
    <3>2. i + 1 = k + 1
      BY <1>2, <3>1 DEF OnePlace
    <3>3. QED
      BY <3>2, <1>2
  <2>2. \A u, v \in Workers : job'[u] = job'[v] /\ job'[u] # None => u = v
    BY <1>1, <1>7 DEF OnePlace, Running, TypeOK
  <2>3. QED
    BY <2>1, <2>2, <1>5, <1>6 DEF OnePlace
<1>9. Counts'
  BY <1>1, <1>5, <1>6, <1>7 DEF Counts
<1>10. QED
  BY <1>3, <1>4, <1>8, <1>9

\* A worker that finishes frees its job's slot, which nobody else holds.
LEMMA FinishKeepsSlots ==
  ASSUME Slots, NEW w \in Workers, Finish(w)
  PROVE  Slots'
<1> USE DEF Slots, Callers
<1> DEFINE j == job[w]
<1>1. /\ j \in Jobs /\ Running(j) /\ ~Queued(j)
      /\ \A v \in Workers : job[v] = j => v = w
  BY NamesAssumption DEF Finish, TypeOK, Placed, OnePlace, Running
<1>2. /\ instances[j] = 1
      /\ instances' = [instances EXCEPT ![j] = 0]
  <2>1. instances[j] = 1
    BY <1>1 DEF Counts
  <2>2. instances[j] - 1 = 0
    BY <2>1
  <2>3. QED
    BY <2>1, <2>2 DEF Finish
<1>3. TypeOK' /\ Placed'
  BY <1>1, <1>2, NamesAssumption DEF Finish, TypeOK, Placed, Counts, RunnerPoints, daemon
<1>4. \A k \in Jobs : Queued(k)' <=> Queued(k)
  BY DEF Finish, Queued
<1>5. \A k \in Jobs : Running(k)' <=> Running(k) /\ k # j
  BY <1>1, NamesAssumption DEF Finish, Running, TypeOK
<1>6. OnePlace'
  BY <1>4, <1>5, NamesAssumption DEF Finish, OnePlace, TypeOK
<1>7. Counts'
  BY <1>1, <1>2, <1>4, <1>5 DEF Counts
<1>8. QED
  BY <1>3, <1>6, <1>7

\* A thread beside the pool has no slot.
LEMMA DirectKeepsSlots ==
  ASSUME Slots, NEW d \in Direct, Returned(d) \/ \E j \in Jobs : Call(d, j)
  PROVE  Slots'
<1> USE DEF Slots, Callers
<1>1. TypeOK' /\ Placed'
  <2>1. CASE Returned(d)
    BY <2>1, NamesAssumption
       DEF Returned, TypeOK, Placed, RunnerPoints, pool, daemon
  <2>2. ASSUME NEW j \in Jobs, Call(d, j) PROVE TypeOK' /\ Placed'
    BY <2>2, NamesAssumption
       DEF Call, TypeOK, Placed, RunnerPoints, pool, daemon
  <2>3. QED
    BY <2>1, <2>2
<1>2. UNCHANGED pool /\ \A w \in Workers : job'[w] = job[w]
  BY NamesAssumption DEF Returned, Call, TypeOK
<1>3. \A k \in Jobs : (Queued(k)' <=> Queued(k)) /\ (Running(k)' <=> Running(k))
  BY <1>2 DEF Queued, Running, pool
<1>4. OnePlace' /\ Counts'
  BY <1>2, <1>3 DEF OnePlace, Counts, pool
<1>5. QED
  BY <1>1, <1>4

LEMMA SlotsInvariant == Spec => []Slots
<1>1. Init => Slots
  <2> SUFFICES ASSUME Init PROVE Slots
    OBVIOUS
  <2>1. TypeOK /\ Placed
    <3>1. queue \in Seq(Jobs)
      BY DEF Init
    <3>2. pc \in [Callers -> RunnerPoints]
      BY DEF Init, RunnerPoints
    <3>3. job \in [Callers -> Jobs \union {None}]
      BY DEF Init
    <3>4. QED
      BY <3>1, <3>2, <3>3 DEF Init, TypeOK, Placed, MainPoints
  <2>2. Len(queue) = 0 /\ \A w \in Workers : job[w] = None
    BY DEF Init, Callers
  <2>3. \A j \in Jobs : ~Queued(j) /\ ~Running(j)
    BY <2>2, NamesAssumption DEF Queued, Running
  <2>4. OnePlace
    BY <2>2, <2>3 DEF OnePlace
  <2>5. Counts
    BY <2>3 DEF Counts, Init
  <2>6. QED
    BY <2>1, <2>4, <2>5 DEF Slots
<1>2. Slots /\ [Next]_vars => Slots'
  <2> SUFFICES ASSUME Slots, [Next]_vars PROVE Slots'
    OBVIOUS
  <2>1. ASSUME NEW j \in Jobs, Fire(j) PROVE Slots'
    BY <2>1, FireKeepsSlots
  <2>2. ASSUME NEW w \in Workers, PickUp(w) \/ Misfire(w) PROVE Slots'
    BY <2>2, TakeKeepsSlots
  <2>3. ASSUME NEW c \in Callers, RunnerStep(c) PROVE Slots'
    <3>1. TypeOK' /\ Placed' /\ UNCHANGED <<instances, queue, job>>
      BY <2>3, RunnerTypes
    <3>2. QED
      BY <3>1 DEF Slots, OnePlace, Counts, Queued, Running
  <2>4. ASSUME NEW w \in Workers, Finish(w) PROVE Slots'
    BY <2>4, FinishKeepsSlots
  <2>5. ASSUME NEW d \in Direct, Returned(d) \/ \E j \in Jobs : Call(d, j)
        PROVE  Slots'
    BY <2>5, DirectKeepsSlots
  <2>6. CASE Signal \/ Expire \/ MainStep
    <3>1. TypeOK' /\ UNCHANGED <<pool, runner>>
      BY <2>6, DaemonTypes DEF Slots
    <3>2. QED
      BY <3>1 DEF Slots, Placed, OnePlace, Counts, Queued, Running, pool, runner
  <2>7. CASE UNCHANGED vars
    BY <2>7 DEF vars, Slots, TypeOK, Placed, OnePlace, Counts, Queued, Running
  <2>8. QED
    BY <2>1, <2>2, <2>3, <2>4, <2>5, <2>6, <2>7
       DEF Next, PoolStep, DirectStep, Callers
<1>3. QED
  BY <1>1, <1>2, PTL DEF Spec

\* Every variable keeps its type: in particular, a slot is never given back
\* twice and a runner always has a job.
THEOREM TypeCorrect == Spec => []TypeOK
BY SlotsInvariant, PTL DEF Slots

\* Queued and running jobs are different ones, so they are no more than the
\* jobs, and two workers are always to spare.
THEOREM PoolSuffices == Spec => []WorkerForEverySubmission
<1>1. ASSUME Slots PROVE WorkerForEverySubmission
  <2> USE <1>1 DEF Slots
  <2> DEFINE Idle == {w \in Workers : pc[w] = "idle"}
             Busy == Workers \ Idle
             jobs == {job[w] : w \in Busy}
             f == [w \in Busy |-> job[w]]
             g == [i \in 1 .. Len(queue) |-> queue[i]]
  <2>1. Len(queue) \in Nat /\ \A i \in 1 .. Len(queue) : queue[i] \in Jobs
    BY DEF TypeOK
  <2>2. \A w \in Busy : job[w] \in Jobs
    BY DEF TypeOK, Placed, Callers
  <2>3. IsFiniteSet(Idle) /\ IsFiniteSet(Busy) /\ IsFiniteSet(jobs)
    <3>1. Idle \in SUBSET Workers /\ Busy \in SUBSET Workers
      OBVIOUS
    <3>2. jobs \in SUBSET Jobs
      BY <2>2
    <3>3. QED
      BY <3>1, <3>2, FS_Subset, PoolAssumption, Zenon
  <2>4. Cardinality(jobs) = Cardinality(Busy)
    <3>1. \A v, w \in Busy : job[v] = job[w] => v = w
      BY <2>2, NamesAssumption DEF OnePlace
    <3>2. f \in Surjection(Busy, jobs) /\ f \in Injection(Busy, jobs)
      BY <3>1 DEF Surjection, Injection, IsInjective
    <3>3. QED
      BY <2>3, <3>2, FS_Surjection
  <2>5. Len(queue) <= Cardinality(Jobs \ jobs)
    <3>1. \A i \in 1 .. Len(queue) : queue[i] \in Jobs \ jobs
      BY <2>1 DEF OnePlace, Queued, Running
    <3>2. g \in Injection(1 .. Len(queue), Jobs \ jobs)
      BY <3>1 DEF Injection, IsInjective, OnePlace
    <3>3. IsFiniteSet(Jobs \ jobs)
      BY FS_Subset, PoolAssumption
    <3>4. Cardinality(1 .. Len(queue)) <= Cardinality(Jobs \ jobs)
      BY <3>2, <3>3, FS_Injection
    <3>5. Cardinality(1 .. Len(queue)) = Len(queue)
      <4>1. Cardinality(1 .. Len(queue)) = IF 1 > Len(queue) THEN 0 ELSE Len(queue) - 1 + 1
        BY <2>1, FS_Interval
      <4>2. QED
        BY <4>1, <2>1
    <3>6. QED
      BY <3>4, <3>5
  <2>6. Cardinality(Jobs \ jobs) = Cardinality(Jobs) - Cardinality(jobs)
    <3>1. Jobs \cap jobs = jobs
      BY <2>2
    <3>2. Cardinality(Jobs \ jobs) = Cardinality(Jobs) - Cardinality(Jobs \cap jobs)
      BY FS_Difference, PoolAssumption, Zenon
    <3>3. QED
      BY <3>1, <3>2, Zenon
  <2>7. Cardinality(Idle) = Cardinality(Workers) - Cardinality(Busy)
    <3>1. Idle = Workers \ Busy /\ Workers \cap Busy = Busy
      OBVIOUS
    <3> HIDE DEF Idle, Busy
    <3>2. Cardinality(Workers \ Busy)
          = Cardinality(Workers) - Cardinality(Workers \cap Busy)
      BY FS_Difference, PoolAssumption, Zenon
    <3>3. QED
      BY <3>1, <3>2, Zenon
  <2>8. /\ Cardinality(Jobs) \in Nat /\ Cardinality(Busy) \in Nat
        /\ Cardinality(Workers) = Cardinality(Jobs) + 2
    BY <2>3, FS_CardinalityType, PoolAssumption
  <2>9. Len(queue) <= Cardinality(Idle)
    BY <2>1, <2>4, <2>5, <2>6, <2>7, <2>8
  <2>10. QED
    BY <2>9 DEF WorkerForEverySubmission
<1>2. QED
  BY <1>1, SlotsInvariant, PTL

(* The overlap guard.                                                      *)

Holding(c) == pc[c] \in {"claim", "register", "skip"}
Counted(c) == pc[c] \in {"register", "body", "clear"}

\* A thread between Guard and Register or Skip holds its job's lock; count[j]
\* is 1 while a run of j is counted, which one run at a time is.
Guarded ==
  /\ \A c \in Callers : Holding(c) => lock[job[c]] = c
  /\ \A c \in Callers : Counted(c) => count[job[c]] = 1
  /\ \A c \in Callers : pc[c] = "claim" => count[job[c]] = 0
  /\ \A c, d \in Callers : Counted(c) /\ Counted(d) /\ job[c] = job[d] => c = d

\* A thread that is not in a run, before and after, does not matter.
LEMMA OutsideRun ==
  ASSUME TypeOK, Guarded, NEW c \in Callers,
         ~Holding(c)' /\ ~Counted(c)',
         \A d \in Callers \ {c} : pc'[d] = pc[d] /\ job'[d] = job[d],
         UNCHANGED <<lock, count>>
  PROVE  Guarded'
<1>1. \A d \in Callers :
        Holding(d)' \/ Counted(d)' => d # c /\ pc'[d] = pc[d] /\ job'[d] = job[d]
  BY DEF Holding, Counted
<1>2. \A d \in Callers : pc'[d] = "claim" => d # c /\ pc[d] = "claim" /\ job'[d] = job[d]
  BY <1>1 DEF Holding
<1>3. \A d \in Callers : Holding(d)' => Holding(d) /\ job'[d] = job[d]
  BY <1>1 DEF Holding
<1>4. \A d \in Callers : Counted(d)' => Counted(d) /\ job'[d] = job[d]
  BY <1>1 DEF Counted
<1>5. QED
  BY <1>2, <1>3, <1>4 DEF Guarded

LEMMA RunnerKeepsGuarded ==
  ASSUME Slots, Guarded, NEW c \in Callers, RunnerStep(c)
  PROVE  Guarded'
<1>1. TypeOK /\ job[c] \in Jobs /\ job' = job
  BY RunnerTypes DEF Slots
<1>2. c # None
  BY NamesAssumption
<1> USE <1>1, <1>2 DEF Guarded, Holding, Counted, TypeOK
<1>3. CASE Guard(c)      BY <1>3, NamesAssumption DEF Guard
<1>4. CASE Skip(c)       BY <1>4 DEF Skip
<1>5. CASE Claim(c)      BY <1>5 DEF Claim
<1>6. CASE Register(c)   BY <1>6 DEF Register
<1>7. CASE Body(c)       BY <1>7 DEF Body
<1>8. CASE Clear(c)      BY <1>8 DEF Clear
<1>9. CASE Unregister(c) BY <1>9 DEF Unregister
<1>10. QED
  BY <1>3, <1>4, <1>5, <1>6, <1>7, <1>8, <1>9 DEF RunnerStep

LEMMA GuardedInvariant == Spec => []Guarded
<1>1. Init => Guarded
  BY DEF Init, Guarded, Holding, Counted
<1>2. Slots /\ Guarded /\ [Next]_vars => Guarded'
  <2> SUFFICES ASSUME Slots, Guarded, [Next]_vars PROVE Guarded'
    OBVIOUS
  <2>0. TypeOK
    BY DEF Slots
  <2>1. ASSUME NEW j \in Jobs, Fire(j) PROVE Guarded'
    BY <2>1 DEF Fire, Guarded, Holding, Counted, runner
  <2>2. ASSUME NEW w \in Workers, PickUp(w) \/ Misfire(w) \/ Finish(w)
        PROVE  Guarded'
    <3>1. w \in Callers
      BY DEF Callers
    <3>2. ~Holding(w)' /\ ~Counted(w)'
      BY <2>0, <2>2, <3>1 DEF PickUp, Misfire, Finish, Holding, Counted, TypeOK
    <3>3. /\ \A d \in Callers \ {w} : pc'[d] = pc[d] /\ job'[d] = job[d]
          /\ UNCHANGED <<lock, count>>
      BY <2>0, <2>2, <3>1 DEF PickUp, Misfire, Finish, TypeOK
    <3>4. QED
      BY <2>0, <3>1, <3>2, <3>3, OutsideRun
  <2>3. ASSUME NEW c \in Callers, RunnerStep(c) PROVE Guarded'
    BY <2>3, RunnerKeepsGuarded
  <2>4. ASSUME NEW d \in Direct, Returned(d) \/ \E j \in Jobs : Call(d, j)
        PROVE  Guarded'
    <3>1. d \in Callers
      BY DEF Callers
    <3>2. ~Holding(d)' /\ ~Counted(d)'
      BY <2>0, <2>4, <3>1 DEF Returned, Call, Holding, Counted, TypeOK
    <3>3. /\ \A c \in Callers \ {d} : pc'[c] = pc[c] /\ job'[c] = job[c]
          /\ UNCHANGED <<lock, count>>
      BY <2>0, <2>4, <3>1 DEF Returned, Call, TypeOK
    <3>4. QED
      BY <2>0, <3>1, <3>2, <3>3, OutsideRun
  <2>5. CASE Signal \/ Expire \/ MainStep
    <3>1. UNCHANGED runner
      BY <2>0, <2>5, DaemonTypes
    <3>2. QED
      BY <3>1 DEF Guarded, Holding, Counted, runner
  <2>6. CASE UNCHANGED vars
    BY <2>6 DEF vars, Guarded, Holding, Counted
  <2>7. QED
    BY <2>1, <2>2, <2>3, <2>4, <2>5, <2>6
       DEF Next, PoolStep, DirectStep, Callers
<1>3. QED
  BY <1>1, <1>2, SlotsInvariant, PTL DEF Spec

\* "No concurrent execution of the same scheduled job, ever", also for threads
\* that call the runner beside the pool.
THEOREM NoTwoRuns == Spec => []NoOverlap
<1>1. Guarded => NoOverlap
  BY DEF Guarded, Holding, Counted, NoOverlap, Active
<1>2. QED
  BY <1>1, GuardedInvariant, PTL

(* The registry and the drain.                                             *)

Registered ==
  \A w \in Workers : pc[w] \in {"body", "clear", "unregister"} => job[w] \in registry

\* Where only the pool calls runners, a job has one run at a time, so nobody else
\* takes a run off the registry.
LEMMA RunsAreRegistered == Spec => [](Direct = {} => Registered)
<1>1. ASSUME Direct = {} PROVE Init => Registered
  BY DEF Init, Registered, Callers
<1>2. ASSUME Direct = {} PROVE Slots /\ Registered /\ [Next]_vars => Registered'
  <2> SUFFICES ASSUME Slots, Registered, [Next]_vars PROVE Registered'
    OBVIOUS
  <2>0. TypeOK /\ Workers = Callers /\ \A w \in Workers : job[w] # None => job[w] \in Jobs
    BY <1>2 DEF Slots, TypeOK, Callers
  <2>1. ASSUME NEW w \in Workers, RunnerStep(w) PROVE Registered'
    <3>1. job' = job /\ job[w] \in Jobs
      BY <2>0, <2>1, RunnerTypes
    <3> USE <2>0, <3>1 DEF Registered, TypeOK
    <3>2. CASE Guard(w)    BY <3>2 DEF Guard
    <3>3. CASE Skip(w)     BY <3>3 DEF Skip
    <3>4. CASE Claim(w)    BY <3>4 DEF Claim
    <3>5. CASE Register(w) BY <3>5 DEF Register
    <3>6. CASE Body(w)     BY <3>6 DEF Body
    <3>7. CASE Clear(w)    BY <3>7 DEF Clear
    <3>8. CASE Unregister(w)
      <4>1. \A v \in Workers : job[v] = job[w] => v = w
        BY NamesAssumption DEF Slots, OnePlace
      <4>2. QED
        BY <3>8, <4>1 DEF Unregister
    <3>9. QED
      BY <2>1, <3>2, <3>3, <3>4, <3>5, <3>6, <3>7, <3>8 DEF RunnerStep
  <2>2. ASSUME NEW w \in Workers, PickUp(w) \/ Misfire(w) \/ Finish(w)
        PROVE  Registered'
    BY <2>0, <2>2 DEF PickUp, Misfire, Finish, Registered, TypeOK
  <2>3. ASSUME NEW j \in Jobs, Fire(j) PROVE Registered'
    BY <2>3 DEF Fire, Registered, runner
  <2>4. CASE Signal \/ Expire \/ MainStep
    <3>1. UNCHANGED runner
      BY <2>0, <2>4, DaemonTypes
    <3>2. QED
      BY <3>1 DEF Registered, runner
  <2>5. CASE UNCHANGED vars
    BY <2>5 DEF vars, Registered
  <2>6. QED
    BY <1>2, <2>1, <2>2, <2>3, <2>4, <2>5 DEF Next, PoolStep
<1>3. CASE Direct = {}
  <2>1. Spec => []Registered
    BY <1>3, <1>1, <1>2, SlotsInvariant, PTL DEF Spec
  <2>2. QED
    BY <2>1, PTL
<1>4. CASE Direct # {}
  <2>1. Direct = {} => Registered
    BY <1>4
  <2>2. QED
    BY <2>1, PTL
<1>5. QED
  BY <1>3, <1>4

\* In the daemon as it is started, where only the pool calls runners, a run
\* stays visible to the drain loop until its own end.
THEOREM RunsAreVisible == Spec => []ActiveIsRegistered
<1>1. Guarded /\ (Direct = {} => Registered) => ActiveIsRegistered
  BY DEF Guarded, Counted, Registered, ActiveIsRegistered, Callers
<1>2. QED
  BY <1>1, GuardedInvariant, RunsAreRegistered, PTL

\* What holds of the main thread at and after the shutdown it waits for.
Stopped ==
  /\ code # None => mpc = "returned"
  /\ mpc \in {"join", "returned"} => ~running
  /\ ZeroMeansIdle

\* Triggers and runners find the scheduler stopped, or the code not yet 0.
LEMMA RunnersKeepStopped ==
  ASSUME Slots, Stopped,
         \/ \E j \in Jobs : Fire(j)
         \/ \E w \in Workers : PoolStep(w)
         \/ \E d \in Direct : DirectStep(d) \/ \E j \in Jobs : Call(d, j)
  PROVE  Stopped'
<1>1. TypeOK /\ (code = 0 => ~running)
  BY NamesAssumption DEF Slots, Stopped
<1> USE DEF Stopped, ZeroMeansIdle
<1>2. ASSUME NEW j \in Jobs, Fire(j)
      PROVE  Stopped'
  BY <1>1, <1>2 DEF Fire, runner, daemon
<1>3. ASSUME NEW w \in Workers, PoolStep(w)
      PROVE  Stopped'
  <2>1. UNCHANGED daemon /\ code # 0
    BY <1>3 DEF PoolStep, RunnerStep, PickUp, Misfire, Finish, Guard, Skip,
                Claim, Register, Body, Clear, Unregister
  <2>2. QED
    BY <2>1 DEF daemon
<1>4. ASSUME NEW d \in Direct, DirectStep(d) \/ \E j \in Jobs : Call(d, j)
      PROVE  Stopped'
  <2>1. UNCHANGED <<daemon, queue>> /\ \A w \in Workers : pc'[w] = pc[w]
    BY <1>1, <1>4, NamesAssumption
       DEF DirectStep, RunnerStep, Returned, Call, Guard, Skip, Claim, Register,
           Body, Clear, Unregister, TypeOK, pool, Callers
  <2>2. QED
    BY <2>1 DEF daemon
<1>5. QED
  BY <1>2, <1>3, <1>4

\* The main thread sets the code to 0 only when it has joined the idle pool.
LEMMA MainKeepsStopped ==
  ASSUME Slots, Stopped, Signal \/ Expire \/ MainStep
  PROVE  Stopped'
<1> USE NamesAssumption DEF Slots, Stopped, ZeroMeansIdle, MainGoto, TypeOK,
        MainPoints, pool, runner
<1>1. CASE MainStep
  BY <1>1 DEF MainStep, Wake, LoopTest, Snapshot, ScanIdle, ScanActive,
              ScanNone, Abort, Shutdown, Join, EXIT_INTERRUPTED
<1>2. QED
  BY <1>1 DEF Signal, Expire

\* Exit code 0 means that nothing is under way and nothing is waiting, for
\* ever: no firing is submitted any more once the pool has drained.
THEOREM ZeroIsQuiet == Spec => []ZeroMeansIdle
<1>1. Slots /\ Stopped /\ Next => Stopped'
  BY RunnersKeepStopped, MainKeepsStopped DEF Next
<1>2. Stopped /\ UNCHANGED vars => Stopped'
  BY DEF Stopped, ZeroMeansIdle, vars
<1>3. Init => Stopped
  BY NamesAssumption DEF Init, Stopped, ZeroMeansIdle
<1>4. Stopped => ZeroMeansIdle
  BY DEF Stopped
<1>5. QED
  BY <1>1, <1>2, <1>3, <1>4, SlotsInvariant, PTL DEF Spec

-----------------------------------------------------------------------------
(* Why guards open again and a drain ends: whatever is marked is somebody's *)
(* who goes on to unmark it.                                               *)

Entered(c) == pc[c] \in {"body", "clear", "unregister"}

\* Of every count, lock and entry of the registry there is an owner.
Owned ==
  /\ \A j \in Jobs : count[j] = 1 => \E c \in Callers : Counted(c) /\ job[c] = j
  /\ \A j \in Jobs : lock[j] # None => Holding(lock[j]) /\ job[lock[j]] = j
  /\ \A j \in registry : \E c \in Callers : Entered(c) /\ job[c] = j

\* A thread that owns nothing, before and after, does not matter.
LEMMA OwnsNothing ==
  ASSUME TypeOK, Owned, NEW c \in Callers,
         pc[c] \in {"idle", "return"},
         \A d \in Callers \ {c} : pc'[d] = pc[d] /\ job'[d] = job[d],
         UNCHANGED <<lock, count, registry>>
  PROVE  Owned'
<1>1. \A d \in Callers : Holding(d) \/ Counted(d) \/ Entered(d)
        => d # c /\ pc'[d] = pc[d] /\ job'[d] = job[d]
  BY DEF Holding, Counted, Entered
<1>2. \A d \in Callers : Holding(d) => Holding(d)' /\ job'[d] = job[d]
  BY <1>1 DEF Holding
<1>3. \A d \in Callers : Counted(d) => Counted(d)' /\ job'[d] = job[d]
  BY <1>1 DEF Counted
<1>4. \A d \in Callers : Entered(d) => Entered(d)' /\ job'[d] = job[d]
  BY <1>1 DEF Entered
<1>5. \A j \in Jobs : lock[j] # None => lock[j] \in Callers
  BY DEF TypeOK
<1>6. QED
  BY <1>2, <1>3, <1>4, <1>5 DEF Owned

\* A runner that gives something up is its only owner.
LEMMA RunnerKeepsOwned ==
  ASSUME Slots, Owned, NEW c \in Callers, RunnerStep(c)
  PROVE  Owned'
<1>1. TypeOK /\ job[c] \in Jobs /\ job' = job
  BY RunnerTypes DEF Slots
<1> USE <1>1 DEF Owned, Holding, Counted, Entered, TypeOK
<1>2. CASE Guard(c)      BY <1>2 DEF Guard
<1>3. CASE Skip(c)
  <2>1. UNCHANGED <<count, registry>> /\ \A d \in Callers \ {c} : pc'[d] = pc[d]
    BY <1>3 DEF Skip
  <2>2. lock'[job[c]] = None /\ \A j \in Jobs \ {job[c]} : lock'[j] = lock[j]
    BY <1>3 DEF Skip
  <2>3. \A d \in Callers : (Counted(d) => Counted(d)') /\ (Entered(d) => Entered(d)')
                           /\ (Holding(d) /\ d # c => Holding(d)')
    BY <1>3, <2>1 DEF Skip
  <2>4. QED
    <3> HIDE DEF Holding, Counted, Entered
    <3> QED
      BY <2>1, <2>2, <2>3
<1>4. CASE Claim(c)
  <2>1. Counted(c)' /\ Holding(c)' /\ UNCHANGED <<lock, registry>>
    BY <1>4 DEF Claim
  <2>2. \A d \in Callers \ {c} : pc'[d] = pc[d]
    BY <1>4 DEF Claim
  <2>3. \A j \in Jobs \ {job[c]} : count'[j] = count[j]
    BY <1>4 DEF Claim
  <2>4. \A d \in Callers : (Counted(d) => Counted(d)') /\ (Entered(d) => Entered(d)')
                           /\ (Holding(d) => Holding(d)')
    BY <1>4, <2>1, <2>2 DEF Claim
  <2>5. QED
    <3> HIDE DEF Holding, Counted, Entered
    <3> QED
      BY <2>1, <2>3, <2>4
<1>5. CASE Register(c)
  <2>1. /\ Counted(c)' /\ Entered(c)' /\ count' = count
        /\ registry' = registry \union {job[c]}
    BY <1>5 DEF Register
  <2>2. \A d \in Callers \ {c} : pc'[d] = pc[d]
    BY <1>5 DEF Register
  <2>3. lock'[job[c]] = None /\ \A j \in Jobs \ {job[c]} : lock'[j] = lock[j]
    BY <1>5 DEF Register
  <2>4. \A d \in Callers : (Counted(d) => Counted(d)') /\ (Entered(d) => Entered(d)')
                           /\ (Holding(d) /\ d # c => Holding(d)')
    BY <1>5, <2>1, <2>2 DEF Register
  <2>5. QED
    <3> HIDE DEF Holding, Counted, Entered
    <3> QED
      BY <2>1, <2>3, <2>4
<1>6. CASE Body(c)       BY <1>6 DEF Body
<1>7. CASE Clear(c)      BY <1>7 DEF Clear
<1>8. CASE Unregister(c) BY <1>8 DEF Unregister
<1>9. QED
  BY <1>2, <1>3, <1>4, <1>5, <1>6, <1>7, <1>8 DEF RunnerStep

LEMMA OwnedInvariant == Spec => []Owned
<1>1. Init => Owned
  BY DEF Init, Owned
<1>2. Slots /\ Owned /\ [Next]_vars => Owned'
  <2> SUFFICES ASSUME Slots, Owned, [Next]_vars PROVE Owned'
    OBVIOUS
  <2>0. TypeOK
    BY DEF Slots
  <2>1. ASSUME NEW j \in Jobs, Fire(j) PROVE Owned'
    BY <2>1 DEF Fire, Owned, Holding, Counted, Entered, runner
  <2>2. ASSUME NEW w \in Workers, PickUp(w) \/ Misfire(w) \/ Finish(w)
        PROVE  Owned'
    <3>1. w \in Callers /\ pc[w] \in {"idle", "return"}
      BY <2>2 DEF PickUp, Misfire, Finish, Callers
    <3>2. /\ \A d \in Callers \ {w} : pc'[d] = pc[d] /\ job'[d] = job[d]
          /\ UNCHANGED <<lock, count, registry>>
      BY <2>0, <2>2, <3>1 DEF PickUp, Misfire, Finish, TypeOK
    <3>3. QED
      BY <2>0, <3>1, <3>2, OwnsNothing
  <2>3. ASSUME NEW c \in Callers, RunnerStep(c) PROVE Owned'
    BY <2>3, RunnerKeepsOwned
  <2>4. ASSUME NEW d \in Direct, Returned(d) \/ \E j \in Jobs : Call(d, j)
        PROVE  Owned'
    <3>1. d \in Callers /\ pc[d] \in {"idle", "return"}
      BY <2>4 DEF Returned, Call, Callers
    <3>2. /\ \A c \in Callers \ {d} : pc'[c] = pc[c] /\ job'[c] = job[c]
          /\ UNCHANGED <<lock, count, registry>>
      BY <2>0, <2>4, <3>1 DEF Returned, Call, TypeOK
    <3>3. QED
      BY <2>0, <3>1, <3>2, OwnsNothing
  <2>5. CASE Signal \/ Expire \/ MainStep
    <3>1. UNCHANGED runner
      BY <2>0, <2>5, DaemonTypes
    <3>2. QED
      BY <3>1 DEF Owned, Holding, Counted, Entered, runner
  <2>6. CASE UNCHANGED vars
    BY <2>6 DEF vars, Owned, Holding, Counted, Entered
  <2>7. QED
    BY <2>1, <2>2, <2>3, <2>4, <2>5, <2>6
       DEF Next, PoolStep, DirectStep, Callers
<1>3. QED
  BY <1>1, <1>2, SlotsInvariant, PTL DEF Spec

\* The guard of a job cannot stay shut behind a run that is over.
THEOREM NoGuardLeftShut == Spec => []ShutOnlyByRun
<1>1. Owned => ShutOnlyByRun
  BY DEF Owned, Counted, ShutOnlyByRun, Active
<1>2. QED
  BY <1>1, OwnedInvariant, PTL

\* A trigger gives way only to a run that is really under way, and one of the two
\* came from beside the pool: the executor's slot, which a run has for longer than it
\* is counted, keeps a job's pool runs from meeting.
THEOREM SkipsAreJustified == Spec => SkipsHaveARun
<1>1. ASSUME Slots, Owned, [Next]_vars, NEW c \in Callers, pc[c] = "guard", pc'[c] = "skip"
      PROVE  \E d \in Callers \ {c} :
               Active(d) /\ job[d] = job[c] /\ {c, d} \intersect Direct # {}
  <2>0. TypeOK /\ Placed
    BY <1>1 DEF Slots
  <2>1. job[c] \in Jobs
    BY <1>1, <2>0 DEF Placed, TypeOK
  <2>2. count[job[c]] = 1
    <3>1. PICK b \in Callers : RunnerStep(b)
      <4>1. ASSUME NEW j \in Jobs PROVE ~Fire(j)
        BY <1>1, <4>1 DEF Fire, runner
      <4>2. ASSUME NEW w \in Workers PROVE ~PickUp(w) /\ ~Misfire(w) /\ ~Finish(w)
        BY <1>1, <2>0, <4>2 DEF PickUp, Misfire, Finish, TypeOK, Callers
      <4>3. ASSUME NEW d \in Direct
            PROVE  ~Returned(d) /\ \A j \in Jobs : ~Call(d, j)
        BY <1>1, <2>0, <4>3 DEF Returned, Call, TypeOK, Callers
      <4>4. ~(Signal \/ Expire \/ MainStep)
        BY <1>1, <2>0, DaemonTypes DEF runner
      <4>5. ~UNCHANGED vars
        BY <1>1 DEF vars
      <4>6. QED
        BY <1>1, <4>1, <4>2, <4>3, <4>4, <4>5 DEF Next, PoolStep, DirectStep, Callers
    <3>2. Guard(c)
      BY <1>1, <2>0, <3>1
         DEF RunnerStep, Guard, Skip, Claim, Register, Body, Clear, Unregister, TypeOK
    <3>3. count[job[c]] # 0
      BY <1>1, <2>0, <3>2 DEF Guard, TypeOK
    <3>4. QED
      BY <2>0, <2>1, <3>3 DEF TypeOK
  <2>3. PICK d \in Callers : Counted(d) /\ job[d] = job[c]
    BY <1>1, <2>1, <2>2 DEF Owned
  <2>4. d # c /\ Active(d)
    BY <1>1, <2>3 DEF Counted, Active
  <2>5. ~(c \in Workers /\ d \in Workers)
    BY <1>1, <2>1, <2>3, <2>4, NamesAssumption DEF Slots, OnePlace
  <2>6. QED
    BY <2>3, <2>4, <2>5 DEF Callers
<1>2. Slots /\ Owned /\ [Next]_vars =>
        [\A c \in Callers :
           pc[c] = "guard" /\ pc'[c] = "skip" =>
             \E d \in Callers \ {c} :
               Active(d) /\ job[d] = job[c] /\ {c, d} \intersect Direct # {}]_vars
  BY <1>1
<1>3. QED
  BY <1>2, SlotsInvariant, OwnedInvariant, PTL DEF Spec, SkipsHaveARun

\* No lock is waited for in vain and no submission lacks a worker.
THEOREM NoDeadlock == Spec => []NobodyStuck
<1>1. ASSUME Slots, Owned, NEW c \in Callers, pc[c] # "idle"
      PROVE  CanGoOn(c) \/ \E d \in Callers : lock[job[c]] = d /\ CanGoOn(d)
  <2>1. CASE pc[c] = "guard" /\ lock[job[c]] # None
    <3> DEFINE d == lock[job[c]]
    <3>1. job[c] \in Jobs
      BY <1>1, <2>1 DEF Slots, TypeOK, Placed
    <3>2. d \in Callers /\ Holding(d)
      BY <1>1, <2>1, <3>1 DEF Slots, TypeOK, Owned
    <3>3. CanGoOn(d)
      BY <3>2 DEF Holding, CanGoOn
    <3>4. QED
      BY <3>2, <3>3
  <2>2. QED
    BY <1>1, <2>1 DEF CanGoOn
<1>2. ASSUME WorkerForEverySubmission, Slots, queue # <<>>
      PROVE  \E w \in Workers : pc[w] = "idle"
  <2> DEFINE Idle == {w \in Workers : pc[w] = "idle"}
  <2>1. Len(queue) \in Nat /\ Len(queue) > 0
    BY <1>2 DEF Slots, TypeOK
  <2>2. Idle # {}
    <3> SUFFICES ASSUME Idle = {} PROVE FALSE
      OBVIOUS
    <3>1. Cardinality(Idle) = 0
      BY FS_EmptySet, Zenon
    <3>2. Len(queue) <= 0
      BY <1>2, <3>1 DEF WorkerForEverySubmission
    <3>3. QED
      BY <2>1, <3>2
  <2>3. QED
    BY <2>2
<1>3. Slots /\ Owned /\ WorkerForEverySubmission => NobodyStuck
  BY <1>1, <1>2 DEF NobodyStuck
<1>4. QED
  BY <1>3, SlotsInvariant, OwnedInvariant, PoolSuffices, PTL

\* What the drain loop waits for is a run, and no run of the pool escapes it.
THEOREM RegistryExact == Spec => []RegistryIsExact
<1> DEFINE entered == {job[c] : c \in {d \in Callers :
                                       pc[d] \in {"body", "clear", "unregister"}}}
<1>1. TypeOK /\ Owned => registry \subseteq entered
  BY DEF TypeOK, Owned, Entered
<1>2. (Direct = {} => Registered) => (Direct = {} => entered \subseteq registry)
  BY DEF Registered, Callers
<1>3. TypeOK /\ Owned /\ (Direct = {} => Registered) => RegistryIsExact
  BY <1>1, <1>2 DEF RegistryIsExact
<1>4. QED
  BY <1>3, TypeCorrect, OwnedInvariant, RunsAreRegistered, PTL

\* The exit code 14 is decided on while a run is under way, if perhaps not one
\* that the grace period was waited for.
THEOREM NoInterruptWithoutRun == Spec => InterruptsRuns
<1>1. ASSUME TypeOK, Owned, [Next]_vars, mpc # "abort", mpc' = "abort"
      PROVE  \E c \in Callers : Active(c)
  <2>1. ScanActive
    <3>1. \A j \in Jobs : ~Fire(j)
      BY <1>1 DEF Fire, daemon
    <3>2. \A w \in Workers : ~PoolStep(w)
      BY <1>1 DEF PoolStep, PickUp, Misfire, Finish, RunnerStep, Guard, Skip, Claim,
                  Register, Body, Clear, Unregister, daemon
    <3>3. \A d \in Direct : ~DirectStep(d) /\ \A j \in Jobs : ~Call(d, j)
      BY <1>1 DEF DirectStep, Call, Returned, RunnerStep, Guard, Skip, Claim, Register,
                  Body, Clear, Unregister, daemon
    <3>4. ~Signal /\ ~Expire /\ ~UNCHANGED vars
      BY <1>1 DEF Signal, Expire, vars
    <3>5. MainStep
      BY <1>1, <3>1, <3>2, <3>3, <3>4 DEF Next
    <3>6. QED
      BY <1>1, <3>5 DEF MainStep, Wake, LoopTest, Snapshot, ScanIdle, ScanNone, Abort,
                        Shutdown, Join, MainGoto
  <2>2. PICK j \in scan : count[j] # 0
    BY <2>1 DEF ScanActive
  <2>3. j \in Jobs /\ count[j] = 1
    BY <1>1, <2>2 DEF TypeOK
  <2>4. QED
    BY <1>1, <2>3 DEF Owned, Counted, Active
<1>2. QED
  BY <1>1, TypeCorrect, OwnedInvariant, PTL DEF Spec, InterruptsRuns

=============================================================================
