--------------------------- MODULE BackupRunProofs ---------------------------
(***************************************************************************)
(* Proofs about BackupRun, for dumps and pipes of every size.              *)
(***************************************************************************)

EXTENDS BackupRun, TLAPS

BeforeProcess == pc \in {"adapter", "config", "spawn", "source", "snapshot"}
AfterRead == pc \in {"upload", "release"} \/ status = "success"

\* Nothing is in the pipe but what was written and not read.
Conserved == written = read + out

\* The steps of run_backup and the state of the process it reads from.
Phases ==
  /\ status = "running" <=> pc # "done"
  /\ BeforeProcess => dumper = "none" /\ ~open /\ written = 0
  /\ pc = "compress" => open /\ dumper # "none"
  /\ AfterRead => out = 0 /\ dumper \in {"exited", "failed"} /\ ~open
  /\ pc = "release" \/ status = "success" => stored = read

\* Where the temporary file is.
Files ==
  /\ pc = "config" => kind = "config" /\ file
  /\ pc = "spawn" => kind = "config" /\ file
  /\ pc \in {"source", "snapshot"} => kind = "file"
  /\ pc = "adapter" => ~file
  /\ kind = "stream" => ~file
  /\ kind = "config" /\ pc = "compress" => file
  /\ kind = "config" /\ AfterRead => ~file \/ sticky
  /\ ConfigStaysForProcess

Inv == TypeOK /\ Conserved /\ Phases /\ Files

LEMMA AdapterKeeps ==
  ASSUME Inv, AdapterStep
  PROVE  Inv'
<1> USE SizeAssumption DEF Inv, TypeOK, Points, DumperStates, Conserved, Phases,
        Files, BeforeProcess, AfterRead, ConfigStaysForProcess,
        Goto, Return, Unlink, Started,
        process
<1>1. CASE AdapterFails          BY <1>1 DEF AdapterFails
<1>2. CASE Spawn                 BY <1>2 DEF Spawn
<1>3. CASE MakeConfig            BY <1>3 DEF MakeConfig
<1>4. CASE WriteConfig           BY <1>4 DEF WriteConfig
<1>5. CASE WriteConfigFails      BY <1>5 DEF WriteConfigFails
<1>6. CASE SpawnConfigured       BY <1>6 DEF SpawnConfigured
<1>7. CASE SpawnConfiguredFails  BY <1>7 DEF SpawnConfiguredFails
<1>8. CASE MakeSnapshotFile      BY <1>8 DEF MakeSnapshotFile
<1>9. CASE OpenSource            BY <1>9 DEF OpenSource
<1>10. CASE OpenSourceFails      BY <1>10 DEF OpenSourceFails
<1>11. CASE Snapshot             BY <1>11 DEF Snapshot
<1>12. CASE SnapshotFails        BY <1>12 DEF SnapshotFails
<1>13. QED
  BY <1>1, <1>2, <1>3, <1>4, <1>5, <1>6, <1>7, <1>8, <1>9, <1>10, <1>11, <1>12
     DEF AdapterStep

LEMMA PipelineKeeps ==
  ASSUME Inv,
         \/ ReadChunk \/ ReadEof \/ CompressFails
         \/ Upload \/ UploadFails \/ Release \/ Interrupt
  PROVE  Inv'
<1> USE SizeAssumption DEF Inv, TypeOK, Points, DumperStates, Conserved, Phases,
        Files, BeforeProcess, AfterRead, ConfigStaysForProcess,
        Goto, Return, Unlink, CloseStream,
        process
<1>1. CASE ReadChunk      BY <1>1 DEF ReadChunk
<1>2. CASE ReadEof        BY <1>2 DEF ReadEof
<1>3. CASE CompressFails  BY <1>3 DEF CompressFails
<1>4. CASE Upload         BY <1>4 DEF Upload
<1>5. CASE UploadFails    BY <1>5 DEF UploadFails
<1>6. CASE Release        BY <1>6 DEF Release
<1>7. CASE Interrupt
  <2>1. CASE pc = "compress" /\ CloseStream
    BY <1>7, <2>1 DEF Interrupt
  <2>2. CASE UNCHANGED <<file, open>>
    <3>1. /\ pc' = "done" /\ status' = "interrupted"
          /\ UNCHANGED <<kind, sticky, file, open, read, stored>>
          /\ UNCHANGED <<dumper, written, out, noise>>
      BY <1>7, <2>2 DEF Interrupt
    <3>2. QED
      BY <3>1
  <2>3. QED
    BY <1>7, <2>1, <2>2 DEF Interrupt
<1>8. QED
  BY <1>1, <1>2, <1>3, <1>4, <1>5, <1>6, <1>7

LEMMA ProcessKeeps ==
  ASSUME Inv, DumperStep \/ Warn \/ DumpFails
  PROVE  Inv'
<1> USE SizeAssumption DEF Inv, TypeOK, Points, DumperStates, Conserved, Phases,
        Files, BeforeProcess, AfterRead, ConfigStaysForProcess,
        backup
<1>1. CASE Write
  <2>1. written + 1 \in 0 .. Size /\ out + 1 \in 0 .. Size
    BY <1>1 DEF Write
  <2>2. written' = read' + out'
    BY <1>1 DEF Write
  <2>3. QED
    BY <1>1, <2>1, <2>2 DEF Write
<1>2. CASE BrokenPipe    BY <1>2 DEF BrokenPipe
<1>3. CASE WriteWarning  BY <1>3 DEF WriteWarning
<1>4. CASE Exit          BY <1>4 DEF Exit
<1>5. CASE Warn          BY <1>5 DEF Warn
<1>6. CASE DumpFails     BY <1>6 DEF DumpFails
<1>7. QED
  BY <1>1, <1>2, <1>3, <1>4, <1>5, <1>6 DEF DumperStep

LEMMA Invariant == Spec => []Inv
<1>1. Init => Inv
  <2> SUFFICES ASSUME Init PROVE Inv
    OBVIOUS
  <2>1. TypeOK
    <3>1. 0 \in 0 .. Size /\ 0 \in 0 .. ErrCap
      BY SizeAssumption
    <3>2. QED
      BY <3>1, Zenon DEF Init, TypeOK, Points, DumperStates
  <2>2. Conserved /\ Phases
    BY DEF Init, Conserved, Phases, BeforeProcess, AfterRead
  <2>3. Files
    BY DEF Init, Files, AfterRead, ConfigStaysForProcess
  <2>4. QED
    BY <2>1, <2>2, <2>3 DEF Inv
<1>2. Inv /\ [Next]_vars => Inv'
  <2> SUFFICES ASSUME Inv, [Next]_vars PROVE Inv'
    OBVIOUS
  <2>1. CASE AdapterStep
    BY <2>1, AdapterKeeps
  <2>2. CASE \/ ReadChunk \/ ReadEof \/ CompressFails
             \/ Upload \/ UploadFails \/ Release \/ Interrupt
    BY <2>2, PipelineKeeps
  <2>3. CASE DumperStep \/ Warn \/ DumpFails
    BY <2>3, ProcessKeeps
  <2>4. CASE UNCHANGED vars
    BY <2>4
       DEF vars, Inv, TypeOK, Conserved, Phases, Files, BeforeProcess, AfterRead,
           ConfigStaysForProcess
  <2>5. QED
    BY <2>1, <2>2, <2>3, <2>4 DEF Next, BackupStep
<1>3. QED
  BY <1>1, <1>2, PTL DEF Spec

\* No counter leaves its range: no pipe overflows, no chunk is read twice.
THEOREM TypeCorrect == Spec => []TypeOK
BY Invariant, PTL DEF Inv

\* A success stored all that was written before the dump process ended.
THEOREM EverythingStored == Spec => []NothingLost
<1>1. Inv => NothingLost
  BY SizeAssumption DEF Inv, TypeOK, Conserved, Phases, AfterRead, NothingLost
<1>2. QED
  BY <1>1, Invariant, PTL

\* The config file is there until mongodump has ended.
THEOREM ConfigOutlivesProcess == Spec => []ConfigStaysForProcess
BY Invariant, PTL DEF Inv, Files

\* Every way in which a backup that ends leaves a temporary file behind.
THEOREM LeftoversNamed == Spec => LeftoversAreKnown
<1> DEFINE Known ==
      status' # status /\ file' /\ ~sticky =>
        \/ kind = "config" /\ pc = "config"
        \/ kind = "config" /\ pc \in {"spawn", "compress"} /\ status' = "interrupted"
        \/ kind = "file" /\ pc \in {"snapshot", "compress", "upload"} /\ status' = "failed"
        \/ kind = "file" /\ status' = "interrupted"
<1>1. ASSUME Inv, [Next]_vars PROVE Known
  <2> USE <1>1 DEF Inv, TypeOK, Points, Phases, Files, AfterRead, Goto, Return, Unlink,
                   CloseStream
  <2>1. CASE AdapterStep
    BY <2>1, KindsAssumption
       DEF AdapterStep, AdapterFails, Spawn, MakeConfig, WriteConfig, WriteConfigFails,
           SpawnConfigured, SpawnConfiguredFails, MakeSnapshotFile, OpenSource,
           OpenSourceFails, Snapshot, SnapshotFails
  <2>2. CASE ReadChunk \/ ReadEof \/ Upload
    BY <2>2 DEF ReadChunk, ReadEof, Upload
  <2>3. CASE CompressFails \/ UploadFails \/ Release
    BY <2>3, KindsAssumption DEF CompressFails, UploadFails, Release
  <2>4. CASE Interrupt
    BY <2>4, KindsAssumption DEF Interrupt
  <2>5. CASE DumperStep \/ Warn \/ DumpFails
    BY <2>5 DEF DumperStep, Write, BrokenPipe, WriteWarning, Exit, Warn, DumpFails, backup
  <2>6. CASE UNCHANGED vars
    BY <2>6 DEF vars
  <2>7. QED
    BY <2>1, <2>2, <2>3, <2>4, <2>5, <2>6 DEF Next, BackupStep
<1>2. Inv /\ [Next]_vars => [Known]_vars
  BY <1>1
<1>3. QED
  BY <1>2, Invariant, PTL DEF Spec, LeftoversAreKnown

-----------------------------------------------------------------------------
(* How far the documented sentence goes, and that a backup ends.           *)

\* A process that exits with 0 has written all of its dump.
LEMMA ExitIsComplete == Spec => [](dumper = "exited" => written = Size)
<1> DEFINE E == dumper = "exited" => written = Size
<1>1. Init => E
  BY DEF Init
<1>2. E /\ [Next]_vars => E'
  <2> USE DEF Goto, Return, Started, process, backup
  <2>1. E /\ AdapterStep => E'
    BY DEF AdapterStep, AdapterFails, Spawn, MakeConfig, WriteConfig, WriteConfigFails,
           SpawnConfigured, SpawnConfiguredFails, MakeSnapshotFile, OpenSource,
           OpenSourceFails, Snapshot, SnapshotFails
  <2>2. E /\ (\/ ReadChunk \/ ReadEof \/ CompressFails
              \/ Upload \/ UploadFails \/ Release \/ Interrupt) => E'
    BY DEF ReadChunk, ReadEof, CompressFails, Upload, UploadFails, Release, Interrupt
  <2>3. E /\ (DumperStep \/ Warn \/ DumpFails \/ UNCHANGED vars) => E'
    BY DEF DumperStep, Write, BrokenPipe, WriteWarning, Exit, Warn, DumpFails, vars
  <2>4. QED
    BY <2>1, <2>2, <2>3 DEF Next, BackupStep
<1>3. QED
  BY <1>1, <1>2, PTL DEF Spec

\* The sentence that backup_complete refutes fails for one reason only: a backup
\* whose dump process did not fail is complete when it says success.
THEOREM CompleteUnlessDumpFails == Spec => [](dumper # "failed" => SuccessIsComplete)
<1>1. Inv /\ (dumper = "exited" => written = Size)
        => (dumper # "failed" => SuccessIsComplete)
  BY SizeAssumption DEF Inv, TypeOK, Conserved, Phases, AfterRead, SuccessIsComplete
<1>2. QED
  BY <1>1, Invariant, ExitIsComplete, PTL

\* run_backup and its process never wait for each other, but for stderr.
THEOREM NoMutualWait == Spec => []WaitsForWorkOrStderr
<1>1. Inv => WaitsForWorkOrStderr
  BY SizeAssumption
     DEF Inv, TypeOK, DumperStates, Phases, WaitsForWorkOrStderr, BackupWaits, DumperGoesOn
<1>2. QED
  BY <1>1, Invariant, PTL

\* The parts of StepsLeft, and what they are numbers of.
Parts ==
  /\ StepsOfBackup \in 0 .. 8 /\ StepsOfDumper \in 0 .. 3
  /\ StepsLeft = StepsOfBackup + StepsOfDumper
                   + (Size - written) + (Size - read) + 2 * (ErrCap - noise)
  /\ written \in 0 .. Size /\ read \in 0 .. Size /\ noise \in 0 .. ErrCap

LEMMA PartsNow == Inv => Parts
BY DEF Parts, StepsLeft, StepsOfBackup, StepsOfDumper, Inv, TypeOK

LEMMA PartsNext == Inv' => Parts'
BY DEF Parts, StepsLeft, StepsOfBackup, StepsOfDumper, Inv, TypeOK

\* A step of run_backup counts, whatever it does to the process and the pipe.
LEMMA BackupCounts ==
  ASSUME Inv, Parts, Parts', BackupStep \/ CompressFails \/ Interrupt
  PROVE  StepsLeft' < StepsLeft
<1> USE SizeAssumption DEF Goto, Return, Started, process
<1>1. CASE ReadChunk
  <2>1. StepsOfBackup' = StepsOfBackup /\ StepsOfDumper' = StepsOfDumper
    BY <1>1 DEF ReadChunk, StepsOfBackup, StepsOfDumper
  <2>2. read' = read + 1 /\ UNCHANGED <<written, noise>>
    BY <1>1 DEF ReadChunk
  <2>3. QED
    BY <2>1, <2>2 DEF Parts
<1>2. CASE AdapterStep \/ ReadEof \/ CompressFails \/ Upload \/ UploadFails \/ Release
           \/ Interrupt
  <2>1. StepsOfBackup' < StepsOfBackup
    BY <1>2 DEF AdapterStep, AdapterFails, Spawn, MakeConfig, WriteConfig,
                WriteConfigFails, SpawnConfigured, SpawnConfiguredFails,
                MakeSnapshotFile, OpenSource, OpenSourceFails, Snapshot, SnapshotFails,
                ReadEof, CompressFails, Upload, UploadFails, Release, Interrupt,
                StepsOfBackup, Inv, TypeOK, Points
  <2>2. StepsOfDumper' <= StepsOfDumper /\ written' >= written /\ UNCHANGED <<read, noise>>
    BY <1>2 DEF AdapterStep, AdapterFails, Spawn, MakeConfig, WriteConfig,
                WriteConfigFails, SpawnConfigured, SpawnConfiguredFails,
                MakeSnapshotFile, OpenSource, OpenSourceFails, Snapshot, SnapshotFails,
                ReadEof, CompressFails, Upload, UploadFails, Release, Interrupt,
                StepsOfDumper, Inv, TypeOK, Phases, BeforeProcess
  <2> DEFINE b == StepsOfBackup  d == StepsOfDumper  v == written'
             c == StepsOfBackup' e == StepsOfDumper'
  <2>3. /\ StepsLeft = b + d + (Size - written) + (Size - read) + 2 * (ErrCap - noise)
        /\ StepsLeft' = c + e + (Size - v) + (Size - read) + 2 * (ErrCap - noise)
        /\ b \in Nat /\ c \in Nat /\ d \in Nat /\ e \in Nat /\ v \in 0 .. Size
        /\ c < b /\ e <= d /\ written <= v
        /\ written \in 0 .. Size /\ read \in 0 .. Size /\ noise \in 0 .. ErrCap
    BY <2>1, <2>2 DEF Parts
  <2>4. c + e + (Size - v) + (Size - read) + 2 * (ErrCap - noise)
          < b + d + (Size - written) + (Size - read) + 2 * (ErrCap - noise)
    <3> HIDE DEF b, c, d, e, v
    <3> QED
      BY <2>3
  <2>5. QED
    BY <2>3, <2>4
<1>3. QED
  BY <1>1, <1>2 DEF BackupStep

LEMMA DumperCounts ==
  ASSUME Inv, Parts, Parts', DumperStep \/ Warn \/ DumpFails
  PROVE  StepsLeft' < StepsLeft
<1> USE SizeAssumption DEF backup
<1>1. StepsOfBackup' = StepsOfBackup /\ read' = read
  BY DEF DumperStep, Write, BrokenPipe, WriteWarning, Exit, Warn, DumpFails, StepsOfBackup
<1>2. CASE Write
  <2>1. StepsOfDumper' = StepsOfDumper /\ written' = written + 1 /\ noise' = noise
    BY <1>2 DEF Write, StepsOfDumper
  <2>2. QED
    BY <1>1, <2>1 DEF Parts
<1>3. CASE WriteWarning
  <2>1. /\ StepsOfDumper = 1 /\ StepsOfDumper' = 2
        /\ written' = written /\ noise' = noise + 1
    BY <1>3 DEF WriteWarning, StepsOfDumper
  <2>2. QED
    BY <1>1, <2>1 DEF Parts
<1>4. CASE BrokenPipe \/ Exit \/ Warn \/ DumpFails
  <2>1. StepsOfDumper' < StepsOfDumper
    BY <1>4 DEF BrokenPipe, Exit, Warn, DumpFails, StepsOfDumper
  <2>2. written' = written /\ noise' = noise
    BY <1>4 DEF BrokenPipe, Exit, Warn, DumpFails
  <2> DEFINE b == StepsOfBackup  d == StepsOfDumper  e == StepsOfDumper'
  <2>3. /\ StepsLeft = b + d + (Size - written) + (Size - read) + 2 * (ErrCap - noise)
        /\ StepsLeft' = b + e + (Size - written) + (Size - read) + 2 * (ErrCap - noise)
        /\ b \in Nat /\ d \in Nat /\ e \in Nat /\ e < d
        /\ written \in 0 .. Size /\ read \in 0 .. Size /\ noise \in 0 .. ErrCap
    BY <1>1, <2>1, <2>2 DEF Parts
  <2>4. b + e + (Size - written) + (Size - read) + 2 * (ErrCap - noise)
          < b + d + (Size - written) + (Size - read) + 2 * (ErrCap - noise)
    <3> HIDE DEF b, d, e
    <3> QED
      BY <2>3
  <2>5. QED
    BY <2>3, <2>4
<1>5. QED
  BY <1>2, <1>3, <1>4 DEF DumperStep

\* A backup takes no more steps than twice its chunks and the messages stderr
\* holds, and 11: nothing is ever begun again.  With NoMutualWait, that is why it
\* ends unless it stands before stderr.
THEOREM EveryStepCounts ==
  Spec => [](StepsLeft \in 0 .. 2 * Size + 2 * ErrCap + 11) /\ OnlyForward
<1>1. Inv => StepsLeft \in 0 .. 2 * Size + 2 * ErrCap + 11
  BY PartsNow, SizeAssumption DEF Parts
<1>2. Inv /\ Inv' /\ [Next]_vars => [StepsLeft' < StepsLeft]_vars
  BY BackupCounts, DumperCounts, PartsNow, PartsNext DEF Next
<1>3. QED
  BY <1>1, <1>2, Invariant, PTL DEF Spec, OnlyForward

=============================================================================
