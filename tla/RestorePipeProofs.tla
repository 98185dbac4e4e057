-------------------------- MODULE RestorePipeProofs --------------------------
(***************************************************************************)
(* Proofs about RestorePipe, for dumps and pipes of every size.            *)
(***************************************************************************)

EXTENDS RestorePipe, TLAPS

BeforeClient == pc \in {"adapter", "config", "spawn"}

\* What was written to stdin is in the pipe or was taken by the client.
Conserved == sent = pipe + applied + rejected

\* The steps of adapter.restore and the state of the client it feeds.
Phases ==
  /\ status = "running" <=> pc # "done"
  /\ pc \in {"config", "spawn"} => kind = "config"
  /\ pc \in {"temp", "replace", "copying", "copied"} => kind = "file"
  /\ kind = "file" => client = "none" /\ pc \notin {"feed", "wait"}
  /\ BeforeClient => client = "none"
  /\ pc = "feed" => client # "none" /\ stdin
  /\ pc = "wait" => client # "none" /\ sent = Size /\ ~stdin
  /\ client = "none" => ~stdin /\ sent = 0

\* How the client ends, and what the result of the call says of it.
Ends ==
  /\ client = "exited" => pipe = 0
  /\ rejected > 0 /\ kind \notin Lenient => client = "failed"
  /\ status \in {"success", "failed"} => ~Alive
  /\ status = "success" /\ kind # "file" => client = "exited" /\ sent = Size

\* The target of a sqlite restore.
Target ==
  /\ pc \in {"adapter", "temp", "replace"} => db = "old"
  /\ pc = "copying" => db = "torn"
  /\ pc = "copied" => db = "new"
  /\ status = "success" /\ kind = "file" => db = "new"

\* Where the temporary file is.
Files ==
  /\ pc = "adapter" => ~file
  /\ pc \in {"config", "spawn"} => file
  /\ kind = "config" /\ pc \in {"feed", "wait"} => file
  /\ NothingLeftBehind

Inv == TypeOK /\ Conserved /\ Phases /\ Ends /\ Target /\ Files

LEMMA AdapterKeeps ==
  ASSUME Inv, RestoreStep
  PROVE  Inv'
<1> USE SizeAssumption DEF Inv, TypeOK, Points, ClientStates, Conserved, Phases, Ends,
        Target, Files, BeforeClient, NothingLeftBehind, Alive, Gone, Streams, Goto,
        Return, Unlink, Finally, Started, process
<1>1. CASE AdapterFails          BY <1>1 DEF AdapterFails
<1>2. CASE Spawn                 BY <1>2 DEF Spawn
<1>3. CASE MakeConfig            BY <1>3 DEF MakeConfig
<1>4. CASE WriteConfig           BY <1>4 DEF WriteConfig
<1>5. CASE WriteConfigFails      BY <1>5 DEF WriteConfigFails
<1>6. CASE SpawnConfigured       BY <1>6 DEF SpawnConfigured
<1>7. CASE SpawnConfiguredFails  BY <1>7 DEF SpawnConfiguredFails
<1>8. CASE Feed                  BY <1>8 DEF Feed
<1>9. CASE FeedBroken            BY <1>9 DEF FeedBroken
<1>10. CASE CloseStdin           BY <1>10 DEF CloseStdin
<1>11. CASE WaitClient           BY <1>11 DEF WaitClient
<1>12. CASE MakeTemp             BY <1>12 DEF MakeTemp
<1>13. CASE WriteTemp            BY <1>13 DEF WriteTemp
<1>14. CASE TempFails            BY <1>14 DEF TempFails
<1>15. CASE Truncate             BY <1>15 DEF Truncate
<1>16. CASE CopyFails            BY <1>16 DEF CopyFails
<1>17. CASE Copied               BY <1>17 DEF Copied
<1>18. CASE RemoveTemp           BY <1>18 DEF RemoveTemp
<1>19. QED
  BY <1>1, <1>2, <1>3, <1>4, <1>5, <1>6, <1>7, <1>8, <1>9, <1>10, <1>11, <1>12, <1>13,
     <1>14, <1>15, <1>16, <1>17, <1>18
     DEF RestoreStep

LEMMA OtherEndsKeep ==
  ASSUME Inv, Interrupt \/ Kill \/ Leave
  PROVE  Inv'
<1> USE SizeAssumption DEF Inv, TypeOK, Points, ClientStates, Conserved, Phases, Ends,
        Target, Files, BeforeClient, NothingLeftBehind, Alive, Gone, Goto, Return,
        Unlink, Finally, process
<1>1. CASE Interrupt  BY <1>1 DEF Interrupt, Guarded
<1>2. CASE Kill       BY <1>2 DEF Kill
<1>3. CASE Leave
  <2>1. /\ pc = "done" /\ client # "none" /\ stdin' = FALSE
        /\ UNCHANGED <<kind, asked, given, sticky, pc, status, file, db, sent>>
        /\ UNCHANGED <<client, pipe, noise, said, applied, rejected>>
    BY <1>3, Zenon DEF Leave
  <2>2. TypeOK'
    BY <2>1
  <2>3. QED
    BY <2>1, <2>2
<1>4. QED
  BY <1>1, <1>2, <1>3

LEMMA ClientKeeps ==
  ASSUME Inv, ClientStep \/ Reject \/ Talk \/ ClientFails
  PROVE  Inv'
<1> USE SizeAssumption DEF Inv, TypeOK, Points, ClientStates, Conserved, Phases, Ends,
        Target, Files, BeforeClient, NothingLeftBehind, Alive, Gone, restore
<1>1. CASE Apply         BY <1>1 DEF Apply
<1>2. CASE Reject        BY <1>2 DEF Reject
<1>3. CASE Talk          BY <1>3 DEF Talk
<1>4. CASE WriteMessage  BY <1>4 DEF WriteMessage
<1>5. CASE Exit          BY <1>5 DEF Exit
<1>6. CASE ClientFails   BY <1>6 DEF ClientFails
<1>7. QED
  BY <1>1, <1>2, <1>3, <1>4, <1>5, <1>6 DEF ClientStep

LEMMA Invariant == Spec => []Inv
<1>1. Init => Inv
  <2> SUFFICES ASSUME Init PROVE Inv
    OBVIOUS
  <2>1. TypeOK
    <3>1. 0 \in 0 .. Size /\ 0 \in 0 .. InCap /\ 0 \in 0 .. OutCap /\ 0 \in 0 .. Noise
      BY SizeAssumption
    <3>2. QED
      BY <3>1, Zenon DEF Init, TypeOK, Points, ClientStates
  <2>2. Conserved /\ Phases /\ Ends /\ Target /\ Files
    BY DEF Init, Conserved, Phases, Ends, Target, Files, BeforeClient,
           NothingLeftBehind, Alive
  <2>3. QED
    BY <2>1, <2>2 DEF Inv
<1>2. Inv /\ [Next]_vars => Inv'
  <2> SUFFICES ASSUME Inv, [Next]_vars PROVE Inv'
    OBVIOUS
  <2>1. CASE RestoreStep
    BY <2>1, AdapterKeeps
  <2>2. CASE Interrupt \/ Kill \/ Leave
    BY <2>2, OtherEndsKeep
  <2>3. CASE ClientStep \/ Reject \/ Talk \/ ClientFails
    BY <2>3, ClientKeeps
  <2>4. CASE UNCHANGED vars
    BY <2>4
       DEF vars, Inv, TypeOK, Conserved, Phases, Ends, Target, Files, BeforeClient,
           NothingLeftBehind, Alive
  <2>5. QED
    BY <2>1, <2>2, <2>3, <2>4 DEF Next
<1>3. QED
  BY <1>1, <1>2, PTL DEF Spec

\* No pipe overflows, and the client takes no more than it was sent.
THEOREM TypeCorrect == Spec => []TypeOK
BY Invariant, PTL DEF Inv

\* A restore reported as a success was taken to its end by a client that ended
\* well, or has replaced sqlite's file.
THEOREM SuccessApplied == Spec => []SuccessIsApplied
<1>1. Inv => SuccessIsApplied
  BY DEF Inv, TypeOK, Conserved, Ends, Target, SuccessIsApplied
<1>2. QED
  BY <1>1, Invariant, PTL

\* mongorestore finds its config file for as long as the restore goes on.
THEOREM ConfigForClient == Spec => []ConfigOutlivesClient
<1>1. Inv => ConfigOutlivesClient
  BY DEF Inv, TypeOK, Points, Phases, BeforeClient, Files, Alive, ConfigOutlivesClient
<1>2. QED
  BY <1>1, Invariant, PTL

\* No way out of a restore but a kill leaves the password of a client that was
\* started, and no return of sqlite's a copy of the database.
THEOREM FilesGone == Spec => []NothingLeftBehind
BY Invariant, PTL DEF Inv, Files

-----------------------------------------------------------------------------
(* RestorePipe implements RestoreContract.                                 *)

\* What is left of the dump when the client takes a chunk.
LEMMA Taking ==
  ASSUME Inv, Apply \/ Reject
  PROVE  Contract!Work
<1> USE SizeAssumption DEF Inv, TypeOK, Conserved, Phases, Ends, Alive, restore
<1>1. kind # "file" /\ kind' = kind /\ status' = status
  BY DEF Apply, Reject
<1>2. applied + rejected < Size
  BY DEF Apply, Reject
<1>3. applied' + rejected' = applied + rejected + 1
  BY DEF Apply, Reject
<1>4. status \in {"running"} \union Contract!CutOff
  BY DEF Apply, Reject, Contract!CutOff
<1>5. Progress # "all"
  BY <1>1, <1>2 DEF Progress
<1>6. Progress' \in {"part", "all"}
  BY <1>1, <1>3 DEF Progress
<1>7. QED
  BY <1>1, <1>4, <1>5, <1>6 DEF Contract!Work

\* The steps that end the call with an error.
LEMMA GivingUp ==
  ASSUME Inv,
         \/ AdapterFails \/ WriteConfigFails \/ SpawnConfiguredFails \/ FeedBroken
         \/ TempFails \/ CopyFails \/ Interrupt \/ Kill
  PROVE  Contract!GiveUp
<1> USE DEF Return, process
<1>1. UNCHANGED <<kind, db, applied, rejected>>
  BY DEF AdapterFails, WriteConfigFails, SpawnConfiguredFails, FeedBroken, TempFails,
         CopyFails, Interrupt, Kill
<1>2. status = "running"
  BY DEF Inv, Phases, AdapterFails, WriteConfigFails, SpawnConfiguredFails, FeedBroken,
         TempFails, CopyFails, Interrupt, Kill
<1>3. status' \in {"failed"} \union Contract!CutOff
  BY DEF AdapterFails, WriteConfigFails, SpawnConfiguredFails, FeedBroken, TempFails,
         CopyFails, Interrupt, Kill, Contract!CutOff
<1>4. QED
  BY <1>1, <1>2, <1>3 DEF Contract!GiveUp, Progress

\* The steps by which the database gets nothing and the call does not end.
LEMMA Stuttering ==
  ASSUME Inv,
         \/ Spawn \/ MakeConfig \/ WriteConfig \/ SpawnConfigured \/ Feed \/ CloseStdin
         \/ MakeTemp \/ WriteTemp \/ Leave
         \/ WriteMessage \/ Exit \/ Talk \/ ClientFails
         \/ UNCHANGED vars
  PROVE  UNCHANGED Contract!vars
<1>1. UNCHANGED <<kind, status, db, applied, rejected>>
  BY DEF Spawn, MakeConfig, WriteConfig, SpawnConfigured, Feed, CloseStdin, MakeTemp,
         WriteTemp, Leave, WriteMessage, Exit, Talk, ClientFails, vars, Goto, Started,
         process, restore
<1>2. QED
  BY <1>1 DEF Contract!vars, Progress

LEMMA Ending ==
  ASSUME Inv, WaitClient
  PROVE  Contract!Succeed \/ Contract!GiveUp
<1> USE SizeAssumption DEF Inv, TypeOK, Conserved, Phases, Ends, Gone, WaitClient, Return,
        process
<1>1. status = "running" /\ UNCHANGED <<kind, db, applied, rejected>>
  OBVIOUS
<1>2. CASE client = "failed"
  BY <1>1, <1>2 DEF Contract!GiveUp, Progress
<1>3. CASE client = "exited"
  <2>1. kind # "file" /\ applied + rejected = Size /\ Size # 0
    BY <1>3
  <2>2. Progress = "all"
    BY <2>1 DEF Progress
  <2>3. status' = "success" /\ Progress' = Progress
    BY <1>1, <1>3 DEF Progress
  <2>4. QED
    BY <1>1, <2>2, <2>3 DEF Contract!Succeed
<1>4. QED
  BY <1>2, <1>3

LEMMA Copying ==
  ASSUME Inv, Truncate \/ Copied \/ RemoveTemp
  PROVE  Contract!Work \/ Contract!Succeed
<1> USE DEF Inv, TypeOK, Phases, Target, Goto, Return, Progress, process
<1>1. CASE Truncate    BY <1>1 DEF Truncate, Contract!Work
<1>2. CASE Copied      BY <1>2 DEF Copied, Contract!Work
<1>3. CASE RemoveTemp  BY <1>3 DEF RemoveTemp, Contract!Succeed
<1>4. QED
  BY <1>1, <1>2, <1>3

\* run_restore may take adapter.restore for one step: it returns when all of the
\* dump was dealt with, raises otherwise, and nothing happens afterwards unless it
\* was cut off.
THEOREM Refinement == Spec => ImplementsContract
<1>1. Init => Contract!Init
  BY SizeAssumption DEF Init, Contract!Init, Progress
<1>2. Inv /\ [Next]_vars => [Contract!Next]_(Contract!vars)
  <2> SUFFICES ASSUME Inv, [Next]_vars
               PROVE  [Contract!Next]_(Contract!vars)
    OBVIOUS
  <2>1. CASE Apply \/ Reject
    BY <2>1, Taking DEF Contract!Next
  <2>2. CASE \/ AdapterFails \/ WriteConfigFails \/ SpawnConfiguredFails \/ FeedBroken
             \/ TempFails \/ CopyFails \/ Interrupt \/ Kill
    BY <2>2, GivingUp DEF Contract!Next
  <2>3. CASE \/ Spawn \/ MakeConfig \/ WriteConfig \/ SpawnConfigured \/ Feed
             \/ CloseStdin \/ MakeTemp \/ WriteTemp \/ Leave
             \/ WriteMessage \/ Exit \/ Talk \/ ClientFails
             \/ UNCHANGED vars
    BY <2>3, Stuttering
  <2>4. CASE WaitClient \/ Truncate \/ Copied \/ RemoveTemp
    BY <2>4, Ending, Copying DEF Contract!Next
  <2>5. QED
    BY <2>1, <2>2, <2>3, <2>4 DEF RestoreStep, ClientStep, Next
<1>3. QED
  BY <1>1, <1>2, Invariant, PTL DEF Spec, ImplementsContract, Contract!Spec

-----------------------------------------------------------------------------
(* That a restore ends.                                                    *)

\* adapter.restore and its client never wait for each other, but for the output.
THEOREM NoMutualWait == Spec => []WaitsForWorkOrOutput
<1>1. Inv => WaitsForWorkOrOutput
  BY SizeAssumption
     DEF Inv, TypeOK, ClientStates, Phases, Alive, WaitsForWorkOrOutput, RestoreWaits,
         ClientGoesOn
<1>2. QED
  BY <1>1, Invariant, PTL

\* What StepsLeft adds up.
Parts ==
  /\ StepsOfCall \in 0 .. 5 /\ StepsOfClient \in 0 .. 3
  /\ ChunksLeft \in 0 .. 2 * Size + 2 * OutCap

LEMMA PartsNow == Inv => Parts
BY SizeAssumption
   DEF Parts, StepsOfCall, StepsOfClient, ChunksLeft, Inv, TypeOK, ClientStates, Phases,
       Conserved

LEMMA PartsNext == Inv' => Parts'
BY SizeAssumption
   DEF Parts, StepsOfCall, StepsOfClient, ChunksLeft, Inv, TypeOK, ClientStates, Phases,
       Conserved

\* A step that takes from the call, from the client or from the dump counts, and so
\* does a message: two of the output pipe's, for one of the client's.
LEMMA PartsCount ==
  ASSUME Parts, Parts',
         \/ /\ StepsOfCall' < StepsOfCall /\ StepsOfClient' <= StepsOfClient
            /\ ChunksLeft' = ChunksLeft
         \/ /\ StepsOfCall' = StepsOfCall /\ StepsOfClient' < StepsOfClient
            /\ ChunksLeft' = ChunksLeft
         \/ /\ StepsOfCall' = StepsOfCall /\ StepsOfClient' <= StepsOfClient
            /\ ChunksLeft' + 1 = ChunksLeft
         \/ /\ StepsOfCall' = StepsOfCall /\ StepsOfClient' = StepsOfClient + 1
            /\ ChunksLeft' + 2 = ChunksLeft
  PROVE  StepsLeft' < StepsLeft
<1> DEFINE c == StepsOfCall  k == StepsOfClient  w == ChunksLeft
           d == StepsOfCall' l == StepsOfClient' v == ChunksLeft'
<1>1. /\ c \in Nat /\ k \in Nat /\ w \in Nat /\ d \in Nat /\ l \in Nat /\ v \in Nat
      /\ StepsLeft = c + k + w /\ StepsLeft' = d + l + v
  BY SizeAssumption DEF Parts, StepsLeft
<1>2. \/ d < c /\ l <= k /\ v = w
      \/ d = c /\ l < k /\ v = w
      \/ d = c /\ l <= k /\ v + 1 = w
      \/ d = c /\ l = k + 1 /\ v + 2 = w
  OBVIOUS
<1>3. d + l + v < c + k + w
  <2> HIDE DEF c, k, w, d, l, v
  <2> QED
    BY <1>1, <1>2
<1>4. QED
  BY <1>1, <1>3

\* A step of the call, whatever becomes of the client.
LEMMA CallCounts ==
  ASSUME Inv, Parts, Parts', RestoreStep \/ Interrupt \/ Kill \/ Leave
  PROVE  StepsLeft' < StepsLeft
<1> USE DEF Goto, Return, Started, process
<1>1. CASE Feed
  <2>1. StepsOfCall' = StepsOfCall /\ StepsOfClient' = StepsOfClient
    BY <1>1 DEF Feed, StepsOfCall, StepsOfClient
  <2>2. ChunksLeft' + 1 = ChunksLeft
    BY <1>1, SizeAssumption DEF Feed, ChunksLeft, Inv, TypeOK, Conserved
  <2>3. StepsOfClient' <= StepsOfClient
    BY <2>1 DEF Parts
  <2>4. QED
    BY <2>1, <2>2, <2>3, PartsCount
<1>2. CASE Leave
  <2>1. StepsOfCall' = StepsOfCall /\ ChunksLeft' = ChunksLeft
    BY <1>2 DEF Leave, StepsOfCall, ChunksLeft
  <2>2. StepsOfClient' < StepsOfClient
    BY <1>2 DEF Leave, StepsOfClient
  <2>3. QED
    BY <2>1, <2>2, PartsCount
<1>3. CASE Interrupt \/ Kill \/ (RestoreStep /\ ~Feed)
  <2> USE <1>3 DEF RestoreStep, AdapterFails, Spawn, MakeConfig, WriteConfig,
          WriteConfigFails, SpawnConfigured, SpawnConfiguredFails, FeedBroken, CloseStdin,
          WaitClient, MakeTemp, WriteTemp, TempFails, Truncate, CopyFails, Copied,
          RemoveTemp, Interrupt, Kill
  <2>1. StepsOfCall' < StepsOfCall
    BY DEF StepsOfCall, Inv, TypeOK, Points
  <2>2. StepsOfClient' <= StepsOfClient
    BY DEF StepsOfClient, Inv, TypeOK, Phases, BeforeClient
  <2>3. ChunksLeft' = ChunksLeft
    BY DEF ChunksLeft
  <2>4. QED
    BY <2>1, <2>2, <2>3, PartsCount
<1>4. QED
  BY <1>1, <1>2, <1>3

\* A step of the client, whatever the call does.
LEMMA ClientCounts ==
  ASSUME Inv, Parts, Parts', ClientStep \/ Reject \/ Talk \/ ClientFails
  PROVE  StepsLeft' < StepsLeft
<1> USE SizeAssumption DEF restore
<1>1. StepsOfCall' = StepsOfCall
  BY DEF ClientStep, Apply, WriteMessage, Exit, Reject, Talk, ClientFails, StepsOfCall
<1>2. CASE Apply \/ Reject
  <2>1. ChunksLeft' + 1 = ChunksLeft
    BY <1>2 DEF Apply, Reject, ChunksLeft, Inv, TypeOK, Conserved
  <2>2. StepsOfClient' <= StepsOfClient
    BY <1>2 DEF Apply, Reject, StepsOfClient
  <2>3. QED
    BY <1>1, <2>1, <2>2, PartsCount
<1>3. CASE WriteMessage
  <2>1. ChunksLeft' + 2 = ChunksLeft
    BY <1>3 DEF WriteMessage, ChunksLeft, Inv, TypeOK, Conserved
  <2>2. StepsOfClient' = StepsOfClient + 1
    BY <1>3 DEF WriteMessage, StepsOfClient
  <2>3. QED
    BY <1>1, <2>1, <2>2, PartsCount
<1>4. CASE Exit \/ Talk \/ ClientFails
  <2>1. ChunksLeft' = ChunksLeft
    BY <1>4 DEF Exit, Talk, ClientFails, ChunksLeft
  <2>2. StepsOfClient' < StepsOfClient
    BY <1>4 DEF Exit, Talk, ClientFails, Alive, StepsOfClient
  <2>3. QED
    BY <1>1, <2>1, <2>2, PartsCount
<1>5. QED
  BY <1>2, <1>3, <1>4 DEF ClientStep

\* A restore takes no more steps, its client's included, than twice its chunks and
\* the messages the output pipe holds, and 8.  With NoMutualWait, that is why it
\* ends unless its client stands before that pipe.
THEOREM EveryStepCounts ==
  Spec => [](StepsLeft \in 0 .. 2 * Size + 2 * OutCap + 8) /\ OnlyForward
<1>1. Inv => StepsLeft \in 0 .. 2 * Size + 2 * OutCap + 8
  BY PartsNow, SizeAssumption DEF Parts, StepsLeft
<1>2. Inv /\ Inv' /\ [Next]_vars => [StepsLeft' < StepsLeft]_vars
  BY CallCounts, ClientCounts, PartsNow, PartsNext DEF Next
<1>3. QED
  BY <1>1, <1>2, Invariant, PTL DEF Spec, OnlyForward

=============================================================================
