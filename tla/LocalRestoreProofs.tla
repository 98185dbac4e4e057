-------------------------- MODULE LocalRestoreProofs --------------------------
(***************************************************************************)
(* Proofs about LocalRestore, for any number of uploads, restores and      *)
(* keys.  They rest on the invariants of LocalStorageProofs: beside        *)
(* restores, uploads still behave as LocalStorage says.                    *)
(***************************************************************************)

EXTENDS LocalRestore, LocalStorageProofs

LEMMA UploadsUnaffected == RSSpec => Spec
<1>1. RSInit => Init
  BY DEF RSInit
<1>2. [RSNext]_allVars => [Next]_vars
  BY DEF RSNext, UploadSide, RestoreSide, allVars, vars
<1>3. QED
  BY <1>1, <1>2, PTL DEF RSSpec, Spec

\* Uploads only add bytes to a file that is not whole, and a call that has
\* returned does nothing more.
LEMMA UploadProgress ==
  ASSUME TypeOK, Control, [Next]_vars
  PROVE  /\ UNCHANGED args
         /\ \A u \in Uploaders :
              /\ data[u] # "absent" => data'[u] # "absent"
              /\ data[u] = "whole" => data'[u] = "whole"
              /\ pc[u] = "done" => pc'[u] = "done" /\ result'[u] = result[u]
<1> USE DEF At, Goto, Return, Publish, args, disk
<1>1. ASSUME NEW v \in Uploaders, Step(v) \/ Crash(v)
      PROVE  /\ UNCHANGED args
             /\ \/ data' = data
                \/ /\ pc[v] \in {"publish", "excl", "copy", "late"}
                   /\ \E c \in {"empty", "partial", tmp[v]} :
                        data' = [data EXCEPT ![v] = c]
             /\ pc[v] # "done"
             /\ \E p \in Points, x \in Results :
                  /\ pc' = [pc EXCEPT ![v] = p]
                  /\ result' = result \/ result' = [result EXCEPT ![v] = x]
  <2> USE <1>1 DEF Points, Results
  <2>1. CASE Publishing(v)
    BY <2>1 DEF Publishing, Replace, Link, LinkExists, LinkRefused, UnlinkTmp,
       OpenExcl, ExclExists, Copy, UnlinkCopied, CopyFails, Recheck,
       RecheckExists, LateReplace
  <2>2. CASE Stat(v) \/ WriteSidecar(v) \/ SwapSidecar(v) \/ Fail(v) \/ Crash(v)
    BY <2>2 DEF Stat, WriteSidecar, SwapSidecar, Fail, Cleaned, Crash
  <2>3. CASE Begin(v) \/ PreCheckRejects(v) \/ NoParent(v) \/ OpenTmp(v) \/ WriteTmp(v)
    BY <2>3 DEF Begin, PreCheckRejects, NoParent, OpenTmp, WriteTmp
  <2>4. QED
    BY <2>1, <2>2, <2>3 DEF Step
<1>2. ASSUME NEW v \in Uploaders, pc[v] \in {"publish", "excl", "copy", "late"}
      PROVE  tmp[v] = "whole" /\ data[v] # "whole"
  BY <1>2 DEF Control, TmpWhole, Progress
<1>3. CASE UNCHANGED vars
  BY <1>3 DEF vars
<1>4. CASE Next
  <2>1. PICK v \in Uploaders : Step(v) \/ Crash(v)
    BY <1>4 DEF Next
  <2>2. QED
    BY <2>1, <1>1, <1>2 DEF TypeOK
<1>5. QED
  BY <1>3, <1>4

(* What a restore has in hand, by where it is.                             *)

Open(r) == rpc[r] \in {"sidecar", "hash", "decompress", "apply"}

\* An open handle is that of a published file of the restore's key; from
\* "apply" on it is known how much of it the database gets.
Handles ==
  \A r \in Restores :
    /\ status[r] = "running" <=> rpc[r] # "done"
    /\ Open(r) => handle[r] \in Uploaders /\ data[handle[r]] # "absent"
    /\ rpc[r] = "apply" \/ status[r] = "success" => applied[r] \in {"empty", "whole"}
    /\ fs # "exdev" /\ (rpc[r] = "apply" \/ status[r] = "success")
         => applied[r] = "whole"
    /\ rpc[r] \in {"download", "sidecar", "hash", "decompress"} => applied[r] = "absent"
    /\ status[r] \in {"notFound", "noSidecar", "mismatch", "truncated"} =>
         applied[r] = "absent"

\* A restore that verifies gets past the digest only with the file the
\* sidecar named, which then is, and stays, whole.
Verified ==
  \A r \in Restores : verify[r] =>
    /\ rpc[r] \in {"decompress", "apply"} =>
         handle[r] = expected[r] /\ data[handle[r]] = "whole"
    /\ applied[r] # "absent" \/ status[r] = "success" =>
         applied[r] = "whole" /\ handle[r] = expected[r]

\* Bytes a restore reads are never taken back by an upload.
LEMMA UploadSideKeeps ==
  ASSUME TypeOK, Control, RestoreTypeOK, Handles, Verified, UploadSide
  PROVE  RestoreTypeOK' /\ Handles' /\ Verified'
<1>1. /\ UNCHANGED <<rvars, fs>>
      /\ \A u \in Uploaders :
           /\ data[u] # "absent" => data'[u] # "absent"
           /\ data[u] = "whole" => data'[u] = "whole"
  BY UploadProgress DEF UploadSide, rvars, args
<1>2. RestoreTypeOK'
  BY <1>1 DEF RestoreTypeOK, rvars
<1>3. Handles'
  BY <1>1 DEF Handles, Open, rvars
<1>4. Verified'
  BY <1>1 DEF Handles, Verified, Open, rvars
<1>5. QED
  BY <1>2, <1>3, <1>4

LEMMA RestoreSideKeeps ==
  ASSUME TypeOK, Control, RestoreTypeOK, Handles, Verified,
         NEW r \in Restores, RestoreStep(r), UNCHANGED vars
  PROVE  RestoreTypeOK' /\ Handles' /\ Verified'
<1> USE NoneAssumption DEF RestoreTypeOK, RestorePoints, Statuses, Content,
        Handles, Verified, Open, Proceed, End, vars
<1>1. CASE Download(r)
  <2>1. rkey[r] \in Keys /\ dest[rkey[r]] # None
    BY <1>1 DEF Download
  <2>2. dest[rkey[r]] \in Uploaders /\ data[dest[rkey[r]]] # "absent"
    BY <2>1 DEF TypeOK, Control, Entries
  <2>3. PICK p \in {"sidecar", "decompress"} :
          /\ p = IF verify[r] THEN "sidecar" ELSE "decompress"
          /\ rpc' = [rpc EXCEPT ![r] = p]
    BY <1>1 DEF Download
  <2>4. /\ rpc[r] = "download"
        /\ handle' = [handle EXCEPT ![r] = dest[rkey[r]]]
        /\ settled' \in [Restores -> BOOLEAN]
        /\ UNCHANGED <<rkey, verify, status, expected, applied>>
    BY <1>1 DEF Download, Acknowledged
  <2>5. RestoreTypeOK'
    BY <2>2, <2>3, <2>4
  <2>6. Handles'
    BY <2>2, <2>3, <2>4
  <2>7. Verified'
    BY <2>3, <2>4
  <2>8. QED
    BY <2>5, <2>6, <2>7
<1>2. CASE DownloadMissing(r)
  BY <1>2 DEF DownloadMissing
<1>3. CASE ReadSidecar(r)
  BY <1>3 DEF ReadSidecar, TypeOK, Metadata
<1>4. CASE SidecarMissing(r)
  BY <1>4 DEF SidecarMissing
<1>5. CASE HashMatches(r)
  <2>1. handle[r] = expected[r] /\ data[handle[r]] = "whole"
    BY <1>5 DEF HashMatches, Matches
  <2>2. QED
    BY <1>5, <2>1 DEF HashMatches
<1>6. CASE HashDiffers(r)
  BY <1>6 DEF HashDiffers
<1>7. CASE Decompress(r)
  <2>1. handle[r] \in Uploaders /\ data[handle[r]] \in {"empty", "whole"}
    BY <1>7 DEF Decompress, TypeOK
  <2>2. fs # "exdev" => data[handle[r]] = "whole"
    BY <2>1 DEF Control, Unfinished
  <2>3. QED
    BY <1>7, <2>1, <2>2 DEF Decompress
<1>8. CASE DecompressTruncated(r)
  BY <1>8 DEF DecompressTruncated
<1>9. CASE Apply(r)
  BY <1>9 DEF Apply
<1>10. CASE Interrupt(r)
  BY <1>10 DEF Interrupt
<1>11. QED
  BY <1>1, <1>2, <1>3, <1>4, <1>5, <1>6, <1>7, <1>8, <1>9, <1>10 DEF RestoreStep

LEMMA RestoreInvariant == RSSpec => [](RestoreTypeOK /\ Handles /\ Verified)
<1>1. RSInit => RestoreTypeOK /\ Handles /\ Verified
  BY DEF RSInit, RestoreInit, RestoreTypeOK, RestorePoints, Statuses, Content,
         Handles, Verified, Open
<1>2. /\ TypeOK /\ Control
      /\ RestoreTypeOK /\ Handles /\ Verified
      /\ [RSNext]_allVars
      => (RestoreTypeOK /\ Handles /\ Verified)'
  <2> SUFFICES ASSUME TypeOK, Control, RestoreTypeOK, Handles, Verified,
                      [RSNext]_allVars
               PROVE  (RestoreTypeOK /\ Handles /\ Verified)'
    OBVIOUS
  <2>1. CASE UploadSide
    BY <2>1, UploadSideKeeps
  <2>2. CASE RestoreSide
    BY <2>2, RestoreSideKeeps DEF RestoreSide
  <2>3. CASE UNCHANGED allVars
    BY <2>3 DEF allVars, vars, rvars, RestoreTypeOK, Handles, Verified, Open
  <2>4. QED
    BY <2>1, <2>2, <2>3 DEF RSNext
<1>3. QED
  BY <1>1, <1>2, UploadsUnaffected, TypeCorrect, ControlInvariant, PTL DEF RSSpec

\* The variables of a restore keep their types.
THEOREM RestoreTypeCorrect == RSSpec => []RestoreTypeOK
BY RestoreInvariant, PTL

\* On every volume, a restore that verifies hands the database only the whole file
\* the sidecar named, however it ends and whatever uploads did meanwhile.
THEOREM VerifiedIsWhole == RSSpec => []VerifiedRestoreIsWhole
<1>1. Verified => VerifiedRestoreIsWhole
  BY DEF Verified, VerifiedRestoreIsWhole
<1>2. QED
  BY <1>1, RestoreInvariant, PTL

\* A restore that is refused has not touched the database, verified or not.
THEOREM RefusalsTouchNothing == RSSpec => []RefusedTouchesNothing
<1>1. Handles => RefusedTouchesNothing
  BY DEF Handles, RefusedTouchesNothing
<1>2. QED
  BY <1>1, RestoreInvariant, PTL

\* Where nothing is copied in place, every restore that succeeds applied a
\* whole artifact, verified or not.
THEOREM UnverifiedIsWhole == RSSpec => []RestoreIsWholeUnlessCopied
<1>1. Handles => RestoreIsWholeUnlessCopied
  BY DEF Handles, RestoreIsWholeUnlessCopied, RestoreIsWhole
<1>2. QED
  BY <1>1, RestoreInvariant, PTL

(* A restore that starts after an acknowledgement.                         *)

\* It has the acknowledged file open and, when it reads a sidecar, that
\* file's; nothing it meets refuses it.
Settled ==
  \A r \in Restores : settled[r] /\ Exclusive(rkey[r]) =>
    /\ rpc[r] # "download"
    /\ \E u \in Uploaders :
         /\ key[u] = rkey[r] /\ result[u] = "success"
         /\ Open(r) => handle[r] = u
         /\ rpc[r] = "hash" => expected[r] = u
    /\ status[r] \notin {"notFound", "noSidecar", "mismatch", "truncated"}

NotYetSettled == \A r \in Restores : rpc[r] = "download" => ~settled[r]

LEMMA SettledInvariant == RSSpec => [](Settled /\ NotYetSettled)
<1> DEFINE Before == /\ TypeOK /\ Control /\ SuccessIsDurable
                     /\ RestoreTypeOK /\ Handles
<1>1. RSInit => Settled /\ NotYetSettled
  BY DEF RSInit, RestoreInit, Settled, NotYetSettled
<1>2. Before /\ Settled /\ NotYetSettled /\ [RSNext]_allVars
      => (Settled /\ NotYetSettled)'
  <2> SUFFICES ASSUME Before, Settled, NotYetSettled, [RSNext]_allVars
               PROVE  (Settled /\ NotYetSettled)'
    OBVIOUS
  <2>1. CASE UploadSide
    <3>1. UNCHANGED rvars /\ [Next]_vars
      BY <2>1 DEF UploadSide
    <3>2. \A k \in Keys : Exclusive(k)' <=> Exclusive(k)
      BY <3>1, ExclusiveStays
    <3>3. \A u \in Uploaders : result[u] = "success" => result'[u] = "success"
      BY <3>1, UploadProgress DEF Control, ResultAtEnd
    <3>4. key' = key
      BY <3>1, UploadProgress DEF args
    <3>5. QED
      BY <3>1, <3>2, <3>3, <3>4
         DEF Settled, NotYetSettled, Open, rvars, RestoreTypeOK
  <2>2. CASE RestoreSide
    <3>1. UNCHANGED vars
      BY <2>2 DEF RestoreSide
    <3>2. PICK r \in Restores : RestoreStep(r)
      BY <2>2 DEF RestoreSide
    <3>3. \A k \in Keys : Exclusive(k)' <=> Exclusive(k)
      BY <3>1 DEF Exclusive, OnKey, vars
    <3>4. ASSUME NEW u \in Uploaders, key[u] = rkey[r], result[u] = "success",
                 Exclusive(rkey[r])
          PROVE  /\ dest[rkey[r]] = u /\ data[u] = "whole"
                 /\ sidecar[rkey[r]] # None /\ sidecar[rkey[r]].sha = u
      <4>1. /\ dest[rkey[r]] = u /\ data[u] = "whole"
            /\ sidecar[rkey[r]] = [sha |-> u, bytes |-> u]
        BY <3>4 DEF SuccessIsDurable
      <4>2. [sha |-> u, bytes |-> u] \in Metadata
        BY DEF Metadata
      <4>3. QED
        BY <4>1, <4>2, NoneAssumption
    <3> USE <3>1, <3>3, <3>4 DEF RestoreTypeOK, Handles, Settled, NotYetSettled,
            Open, Proceed, End, vars
    <3>5. CASE Download(r)
      BY <3>5 DEF Download, Acknowledged, OnKey
    <3>6. CASE DownloadMissing(r)
      BY <3>6 DEF DownloadMissing
    <3>7. CASE ReadSidecar(r)
      BY <3>7 DEF ReadSidecar
    <3>8. CASE SidecarMissing(r)
      BY <3>8 DEF SidecarMissing
    <3>9. CASE HashMatches(r)
      BY <3>9 DEF HashMatches
    <3>10. CASE HashDiffers(r)
      BY <3>10 DEF HashDiffers, Matches
    <3>11. CASE Decompress(r)
      BY <3>11 DEF Decompress
    <3>12. CASE DecompressTruncated(r)
      BY <3>12 DEF DecompressTruncated
    <3>13. CASE Apply(r)
      BY <3>13 DEF Apply
    <3>14. CASE Interrupt(r)
      BY <3>14 DEF Interrupt
    <3>15. QED
      BY <3>2, <3>5, <3>6, <3>7, <3>8, <3>9, <3>10, <3>11, <3>12, <3>13, <3>14
         DEF RestoreStep
  <2>3. CASE UNCHANGED allVars
    BY <2>3 DEF allVars, vars, rvars, Settled, NotYetSettled, Open, Exclusive, OnKey
  <2>4. QED
    BY <2>1, <2>2, <2>3 DEF RSNext
<1>3. QED
  BY <1>1, <1>2, UploadsUnaffected, TypeCorrect, ControlInvariant, SuccessStays,
     RestoreInvariant, PTL DEF RSSpec

\* A restore that starts after an upload to its key was acknowledged, and that
\* nothing may replace, finds everything.
THEOREM AcknowledgedRestores == RSSpec => []AcknowledgedIsRestorable
<1>1. SuccessIsDurable /\ Settled => AcknowledgedIsRestorable
  <2> SUFFICES ASSUME SuccessIsDurable, Settled, NEW r \in Restores,
                      Acknowledged(rkey[r]), Exclusive(rkey[r])
               PROVE  /\ rpc[r] = "download" => dest[rkey[r]] # None
                      /\ settled[r] => status[r] \notin
                           {"notFound", "noSidecar", "mismatch", "truncated"}
    BY DEF AcknowledgedIsRestorable
  <2>1. PICK u \in Uploaders : key[u] = rkey[r] /\ result[u] = "success"
    BY DEF Acknowledged, OnKey
  <2>2. dest[rkey[r]] = u /\ u # None
    BY <2>1, NoneAssumption DEF SuccessIsDurable
  <2>3. QED
    BY <2>2 DEF Settled
<1>2. QED
  BY <1>1, UploadsUnaffected, SuccessStays, SettledInvariant, PTL

=============================================================================
