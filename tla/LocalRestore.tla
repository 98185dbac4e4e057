---------------------------- MODULE LocalRestore ----------------------------
(***************************************************************************)
(* run_restore (core/restore.py) from a local storage root that uploads    *)
(* write to at the same time.                                              *)
(*                                                                         *)
(* A member of Restores is one call of run_restore.  The handle it opens   *)
(* is an inode: it keeps reading the file it opened after the key has been *)
(* replaced, and sees the bytes a copy in place adds to that file.         *)
(* Adapters (adapter.restore) are external: they apply what they are given *)
(* or raise.                                                               *)
(***************************************************************************)

EXTENDS LocalStorage

CONSTANT Restores  \* the calls of run_restore

VARIABLES
  rkey,      \* rkey[r], verify[r]: the arguments of r's call
  verify,
  rpc,       \* rpc[r]: the next step of r's call
  handle,    \* handle[r]: the uploader whose file r has open
  expected,  \* expected[r]: the sha256 r read from the sidecar
  applied,   \* applied[r]: how much of handle[r]'s bytes the database got
  status,    \* status[r]: how r's call ended, by cause
  settled    \* settled[r]: history, whether an upload to r's key had already
             \* been acknowledged when r opened the file

rvars == <<rkey, verify, rpc, handle, expected, applied, status, settled>>
allVars == <<vars, rvars>>

RestorePoints == {"download", "sidecar", "hash", "decompress", "apply", "done"}

\* RestoreResult.status is "success" or "failed"; a failure is told by where
\* it was raised.
Statuses == {"running", "success", "notFound", "noSidecar", "mismatch",
             "truncated", "adapterFailed", "interrupted"}

RestoreTypeOK ==
  /\ rkey \in [Restores -> Keys]
  /\ verify \in [Restores -> BOOLEAN]
  /\ rpc \in [Restores -> RestorePoints]
  /\ handle \in [Restores -> Uploaders \union {None}]
  /\ expected \in [Restores -> Uploaders \union {None}]
  /\ applied \in [Restores -> Content]
  /\ status \in [Restores -> Statuses]
  /\ settled \in [Restores -> BOOLEAN]

RestoreInit ==
  /\ rkey \in [Restores -> Keys]
  /\ verify \in [Restores -> BOOLEAN]
  /\ rpc = [r \in Restores |-> "download"]
  /\ handle = [r \in Restores |-> None]
  /\ expected = [r \in Restores |-> None]
  /\ applied = [r \in Restores |-> "absent"]
  /\ status = [r \in Restores |-> "running"]
  /\ settled = [r \in Restores |-> FALSE]

-----------------------------------------------------------------------------
Proceed(r, from, to) ==
  /\ rpc[r] = from
  /\ rpc' = [rpc EXCEPT ![r] = to]
  /\ UNCHANGED <<rkey, verify, status>>

End(r, from, s) ==
  /\ rpc[r] = from
  /\ rpc' = [rpc EXCEPT ![r] = "done"]
  /\ status' = [status EXCEPT ![r] = s]
  /\ UNCHANGED <<rkey, verify>>

Acknowledged(k) == \E u \in OnKey(k) : result[u] = "success"

\* LocalBackend.download: exists(), is_file(), open().
Download(r) ==
  /\ dest[rkey[r]] # None
  /\ Proceed(r, "download", IF verify[r] THEN "sidecar" ELSE "decompress")
  /\ handle' = [handle EXCEPT ![r] = dest[rkey[r]]]
  /\ settled' = [settled EXCEPT ![r] = Acknowledged(rkey[r])]
  /\ UNCHANGED <<expected, applied>>

DownloadMissing(r) ==
  /\ dest[rkey[r]] = None
  /\ End(r, "download", "notFound")
  /\ UNCHANGED <<handle, expected, applied, settled>>

\* Faulty variant: a missing sidecar lets the restore go on unverified.
ReadSidecar_FailOpen(r) ==
  /\ IF sidecar[rkey[r]] # None
     THEN /\ Proceed(r, "sidecar", "hash")
          /\ expected' = [expected EXCEPT ![r] = sidecar[rkey[r]].sha]
     ELSE /\ Proceed(r, "sidecar", "decompress")
          /\ UNCHANGED expected
  /\ UNCHANGED <<handle, applied, settled>>

\* _verify_local reads <key>.json, which os.replace keeps whole.
ReadSidecar(r) ==
  /\ sidecar[rkey[r]] # None
  /\ Proceed(r, "sidecar", "hash")
  /\ expected' = [expected EXCEPT ![r] = sidecar[rkey[r]].sha]
  /\ UNCHANGED <<handle, applied, settled>>

\* verify_requested fails closed.
SidecarMissing(r) ==
  /\ sidecar[rkey[r]] = None
  /\ End(r, "sidecar", "noSidecar")
  /\ UNCHANGED <<handle, expected, applied, settled>>

\* The digest of what the handle now yields is the one expected.
Matches(r) == handle[r] = expected[r] /\ data[handle[r]] = "whole"

HashMatches(r) ==
  /\ Proceed(r, "hash", "decompress")
  /\ Matches(r)
  /\ UNCHANGED <<handle, expected, applied, settled>>

HashDiffers(r) ==
  /\ End(r, "hash", "mismatch")
  /\ ~Matches(r)
  /\ UNCHANGED <<handle, expected, applied, settled>>

\* decompress_stream: gzip yields nothing, without an error, from an empty
\* file, and raises EOFError from a truncated one.
Decompress(r) ==
  /\ Proceed(r, "decompress", "apply")
  /\ data[handle[r]] # "partial"
  /\ applied' = [applied EXCEPT ![r] = data[handle[r]]]
  /\ UNCHANGED <<handle, expected, settled>>

DecompressTruncated(r) ==
  /\ End(r, "decompress", "truncated")
  /\ data[handle[r]] = "partial"
  /\ UNCHANGED <<handle, expected, applied, settled>>

\* adapter.restore returns, or raises.
Apply(r) ==
  /\ End(r, "apply", "success") \/ End(r, "apply", "adapterFailed")
  /\ UNCHANGED <<handle, expected, applied, settled>>

\* KeyboardInterrupt, which run_restore turns into a result of its own.
Interrupt(r) ==
  /\ rpc[r] # "done"
  /\ End(r, rpc[r], "interrupted")
  /\ UNCHANGED <<handle, expected, applied, settled>>

RestoreStep(r) ==
  \/ Download(r) \/ DownloadMissing(r)
  \/ ReadSidecar(r) \/ SidecarMissing(r) \/ HashMatches(r) \/ HashDiffers(r)
  \/ Decompress(r) \/ DecompressTruncated(r)
  \/ Apply(r) \/ Interrupt(r)

-----------------------------------------------------------------------------
UploadSide == Next /\ UNCHANGED rvars
RestoreSide == (\E r \in Restores : RestoreStep(r)) /\ UNCHANGED vars

RSInit == Init /\ RestoreInit
RSNext == UploadSide \/ RestoreSide
RSSpec == RSInit /\ [][RSNext]_allVars

-----------------------------------------------------------------------------
\* A restore that verifies hands the database nothing but the whole artifact the
\* sidecar named, however it ends, on every volume and against every interleaving
\* of uploads, copies in place included ("--verify fail-closed").
VerifiedRestoreIsWhole ==
  \A r \in Restores :
    verify[r] /\ (applied[r] # "absent" \/ status[r] = "success") =>
      applied[r] = "whole" /\ handle[r] = expected[r]

\* A restore that reports a missing file or sidecar, another digest or a truncated
\* file has not touched the database.
RefusedTouchesNothing ==
  \A r \in Restores :
    status[r] \in {"notFound", "noSidecar", "mismatch", "truncated"} =>
      applied[r] = "absent"

\* Once an upload to a key was acknowledged, and nothing may replace it, no
\* restore of that key that starts afterwards is refused: the artifact is
\* found, its sidecar is found, the digest matches and gzip reads it to the
\* end.  Only the database may fail it.
AcknowledgedIsRestorable ==
  \A r \in Restores :
    Acknowledged(rkey[r]) /\ Exclusive(rkey[r]) =>
      /\ rpc[r] = "download" => dest[rkey[r]] # None
      /\ settled[r] =>
           status[r] \notin {"notFound", "noSidecar", "mismatch", "truncated"}

\* Without --verify too: a restore that succeeds applied a whole artifact,
\* wherever publishing is a link or a rename.
RestoreIsWhole ==
  \A r \in Restores : status[r] = "success" => applied[r] = "whole"

RestoreIsWholeUnlessCopied == fs # "exdev" => RestoreIsWhole

=============================================================================
