---------------------------- MODULE LocalStorage ----------------------------
(***************************************************************************)
(* LocalBackend.upload (storage/local.py): concurrent uploads into one     *)
(* storage root, one file-system call per step.                            *)
(*                                                                         *)
(* A member of Uploaders is one call of upload, made by a CLI process or   *)
(* by a pool thread of the scheduler daemon; a retry is another member.    *)
(* Its artifact is identified with the uploader, so "the file of u" is the *)
(* inode that holds u's bytes, and u also stands for their sha256.         *)
(* Two calls get one key when they start in the same second for databases  *)
(* whose names sanitise alike (_build_key, sanitize_database).             *)
(***************************************************************************)

EXTENDS Naturals

CONSTANTS
  Uploaders,    \* the calls of upload
  Keys,         \* the storage keys; each resolves inside the root
  Flags,        \* the values the force flag takes, a subset of BOOLEAN
  Filesystems,  \* what os.link may do here: see LinkKinds
  None          \* no file, no sidecar, no metadata

\* What os.link(tmp, dest) may do when dest does not exist: it always links, it
\* always raises EXDEV, or it may raise another errno, each time anew (EPERM where
\* there are no hard links; EMLINK, EIO or ENOSPC where there are).
LinkKinds == {"hardlink", "exdev", "nolink"}

\* A sidecar: the digest of an uploader's bytes and the size of a file.
Metadata == [sha: Uploaders, bytes: Uploaders]

ASSUME NoneAssumption  == None \notin Uploaders \union Metadata
ASSUME FlagsAssumption == Flags \subseteq BOOLEAN
ASSUME FsAssumption    == Filesystems \subseteq LinkKinds

VARIABLES
  fs,       \* the kind of the volume that holds the storage root
  key,      \* key[u], force[u]: the arguments of u's call
  force,
  pc,       \* pc[u]: the next step of u's call
  result,   \* result[u]: how u's call ended
  tmp,      \* tmp[u]: u's .<name>.tmp.<pid>.<hex> file in dest's directory
  sideTmp,  \* sideTmp[u]: whether u's sidecar temporary file exists
  meta,     \* meta[u]: the metadata u has computed for the sidecar
  data,     \* data[u]: the content of the file u published, if it did
  dest,     \* dest[k]: whose file the directory entry of key k names
  sidecar   \* sidecar[k]: the content of <k>.json

args == <<fs, key, force>>
disk == <<tmp, sideTmp, data, dest, sidecar>>
vars == <<fs, key, force, pc, result, tmp, sideTmp, meta, data, dest, sidecar>>

Points == {"begin", "open", "write", "publish", "unlink", "excl", "copy", "copied",
           "recheck", "late", "stat", "sidecar", "swap", "done"}

\* "exists" and "notAtomic" are the two messages of FileExistsError;
\* "failed" is any other exception, "crashed" a process that died or a
\* KeyboardInterrupt, which no handler of upload catches.
Results == {"running", "success", "exists", "notAtomic", "failed", "crashed"}

\* How much of u's bytes a file holds.
Content == {"absent", "empty", "partial", "whole"}

TypeOK ==
  /\ fs \in Filesystems
  /\ key \in [Uploaders -> Keys]
  /\ force \in [Uploaders -> Flags]
  /\ pc \in [Uploaders -> Points]
  /\ result \in [Uploaders -> Results]
  /\ tmp \in [Uploaders -> Content]
  /\ sideTmp \in [Uploaders -> BOOLEAN]
  /\ meta \in [Uploaders -> Metadata \union {None}]
  /\ data \in [Uploaders -> Content]
  /\ dest \in [Keys -> Uploaders \union {None}]
  /\ sidecar \in [Keys -> Metadata \union {None}]

Init ==
  /\ fs \in Filesystems
  /\ key \in [Uploaders -> Keys]
  /\ force \in [Uploaders -> Flags]
  /\ pc = [u \in Uploaders |-> "begin"]
  /\ result = [u \in Uploaders |-> "running"]
  /\ tmp = [u \in Uploaders |-> "absent"]
  /\ sideTmp = [u \in Uploaders |-> FALSE]
  /\ meta = [u \in Uploaders |-> None]
  /\ data = [u \in Uploaders |-> "absent"]
  /\ dest = [k \in Keys |-> None]
  /\ sidecar = [k \in Keys |-> None]

-----------------------------------------------------------------------------
At(u, point) == pc[u] = point

Goto(u, point) ==
  /\ pc' = [pc EXCEPT ![u] = point]
  /\ UNCHANGED result

Return(u, r) ==
  /\ pc' = [pc EXCEPT ![u] = "done"]
  /\ result' = [result EXCEPT ![u] = r]

DestExists(u) == dest[key[u]] # None

\* The directory entry of u's key becomes u's file, with content c.
Publish(u, c) ==
  /\ dest' = [dest EXCEPT ![key[u]] = u]
  /\ data' = [data EXCEPT ![u] = c]

-----------------------------------------------------------------------------
(* The pre-check and the temporary file.                                   *)

\* The pre-check passes; _ensure_parent makes the directory.
Begin(u) ==
  /\ At(u, "begin")
  /\ force[u] \/ ~DestExists(u)
  /\ Goto(u, "open")
  /\ UNCHANGED <<args, disk, meta>>

PreCheckRejects(u) ==
  /\ At(u, "begin")
  /\ ~force[u] /\ DestExists(u)
  /\ Return(u, "exists")
  /\ UNCHANGED <<args, disk, meta>>

\* The parent directory is missing and may not, or cannot, be created.
NoParent(u) ==
  /\ At(u, "begin")
  /\ force[u] \/ ~DestExists(u)
  /\ Return(u, "failed")
  /\ UNCHANGED <<args, disk, meta>>

OpenTmp(u) ==
  /\ At(u, "open")
  /\ tmp' = [tmp EXCEPT ![u] = "partial"]
  /\ Goto(u, "write")
  /\ UNCHANGED <<args, sideTmp, data, dest, sidecar, meta>>

\* Faulty variant: the artifact's stream is not rewound before the copy, as
\* if run_backup forgot compressed.seek(0).
WriteTmp_NotRewound(u) ==
  /\ At(u, "write")
  /\ tmp' = [tmp EXCEPT ![u] = "empty"]
  /\ Goto(u, "publish")
  /\ UNCHANGED <<args, sideTmp, data, dest, sidecar, meta>>

\* The copy loop, the flush and the fsync of the temporary file.
WriteTmp(u) ==
  /\ At(u, "write")
  /\ tmp' = [tmp EXCEPT ![u] = "whole"]
  /\ Goto(u, "publish")
  /\ UNCHANGED <<args, sideTmp, data, dest, sidecar, meta>>

-----------------------------------------------------------------------------
(* Publishing the artifact.                                                *)

\* force: os.replace(tmp, dest).
Replace(u) ==
  /\ At(u, "publish")
  /\ force[u]
  /\ Publish(u, tmp[u])
  /\ tmp' = [tmp EXCEPT ![u] = "absent"]
  /\ Goto(u, "stat")
  /\ UNCHANGED <<args, sideTmp, sidecar, meta>>

\* Faulty variant: a publication that does not insist on a new entry.
Link_Clobbering(u) ==
  /\ At(u, "publish")
  /\ ~force[u]
  /\ fs # "exdev"
  /\ Publish(u, tmp[u])
  /\ Goto(u, "unlink")
  /\ UNCHANGED <<args, tmp, sideTmp, sidecar, meta>>

\* No force: os.link(tmp, dest), which creates the entry or raises.
Link(u) ==
  /\ At(u, "publish")
  /\ ~force[u]
  /\ ~DestExists(u)
  /\ fs # "exdev"
  /\ Publish(u, tmp[u])
  /\ Goto(u, "unlink")
  /\ UNCHANGED <<args, tmp, sideTmp, sidecar, meta>>

\* Faulty variant: a call that lost the race tries to publish again.
LinkExists_Retrying(u) ==
  /\ At(u, "publish")
  /\ ~force[u]
  /\ DestExists(u)
  /\ tmp' = [tmp EXCEPT ![u] = "partial"]
  /\ Goto(u, "write")
  /\ UNCHANGED <<args, sideTmp, data, dest, sidecar, meta>>

\* EEXIST, which every volume reports first: the race is lost, and
\* `except FileExistsError: raise` leaves the temporary file behind.
LinkExists(u) ==
  /\ At(u, "publish")
  /\ ~force[u]
  /\ DestExists(u)
  /\ Return(u, "exists")
  /\ UNCHANGED <<args, disk, meta>>

\* EXDEV selects one fallback, any other errno the other.
LinkRefused(u) ==
  /\ At(u, "publish")
  /\ ~force[u]
  /\ ~DestExists(u)
  /\ \/ fs = "exdev" /\ Goto(u, "excl")
     \/ fs = "nolink" /\ Goto(u, "recheck")
  /\ UNCHANGED <<args, disk, meta>>

\* Faulty variant: without a handler of its own, a refused unlink would reach
\* the one of os.link, whose fallback finds that dest exists.
UnlinkTmp_Unguarded(u) ==
  /\ At(u, "unlink")
  /\ \/ /\ tmp' = [tmp EXCEPT ![u] = "absent"]
        /\ Goto(u, "stat")
     \/ /\ UNCHANGED tmp
        /\ Return(u, "exists")
  /\ UNCHANGED <<args, sideTmp, data, dest, sidecar, meta>>

\* After the link tmp.unlink is best effort: its error is swallowed.
UnlinkTmp(u) ==
  /\ At(u, "unlink")
  /\ \E t \in {"absent", tmp[u]} : tmp' = [tmp EXCEPT ![u] = t]
  /\ Goto(u, "stat")
  /\ UNCHANGED <<args, sideTmp, data, dest, sidecar, meta>>

-----------------------------------------------------------------------------
(* The EXDEV fallback: create dest with O_EXCL, then copy into it.         *)

\* Faulty variant: the fallback opens dest without O_EXCL and truncates it.
OpenExcl_Truncating(u) ==
  /\ At(u, "excl")
  /\ Publish(u, "empty")
  /\ Goto(u, "copy")
  /\ UNCHANGED <<args, tmp, sideTmp, sidecar, meta>>

OpenExcl(u) ==
  /\ At(u, "excl")
  /\ ~DestExists(u)
  /\ Publish(u, "empty")
  /\ Goto(u, "copy")
  /\ UNCHANGED <<args, tmp, sideTmp, sidecar, meta>>

ExclExists(u) ==
  /\ At(u, "excl")
  /\ DestExists(u)
  /\ Return(u, "exists")
  /\ UNCHANGED <<args, disk, meta>>

\* copyfileobj flushes some of the bytes, or the last of them. They go to
\* the inode u created, whatever entry names it now.
Copy(u) ==
  /\ At(u, "copy")
  /\ \/ /\ data' = [data EXCEPT ![u] = "partial"]
        /\ Goto(u, "copy")
     \/ /\ data' = [data EXCEPT ![u] = tmp[u]]
        /\ Goto(u, "copied")
  /\ UNCHANGED <<args, tmp, sideTmp, dest, sidecar, meta>>

UnlinkCopied(u) ==
  /\ At(u, "copied")
  /\ tmp' = [tmp EXCEPT ![u] = "absent"]
  /\ Goto(u, "stat")
  /\ UNCHANGED <<args, sideTmp, data, dest, sidecar, meta>>

\* Any OSError of the open, the copy or the unlink is reported as a
\* FileExistsError; neither file is removed.
CopyFails(u) ==
  /\ pc[u] \in {"excl", "copy", "copied"}
  /\ Return(u, "notAtomic")
  /\ UNCHANGED <<args, disk, meta>>

-----------------------------------------------------------------------------
(* The fallback for every other errno: look again, then os.replace.        *)

Recheck(u) ==
  /\ At(u, "recheck")
  /\ ~DestExists(u)
  /\ Goto(u, "late")
  /\ UNCHANGED <<args, disk, meta>>

RecheckExists(u) ==
  /\ At(u, "recheck")
  /\ DestExists(u)
  /\ Return(u, "exists")
  /\ UNCHANGED <<args, disk, meta>>

\* os.replace overwrites what appeared since the look.
LateReplace(u) ==
  /\ At(u, "late")
  /\ Publish(u, tmp[u])
  /\ tmp' = [tmp EXCEPT ![u] = "absent"]
  /\ Goto(u, "stat")
  /\ UNCHANGED <<args, sideTmp, sidecar, meta>>

-----------------------------------------------------------------------------
(* The sidecar.                                                            *)

\* Faulty variant: the metadata lacks the size.
Stat_DigestOnly(u) ==
  /\ At(u, "stat")
  /\ meta' = [meta EXCEPT ![u] = [sha |-> u]]
  /\ Goto(u, "sidecar")
  /\ UNCHANGED <<args, disk>>

\* The digest is of the bytes u wrote, the size of the file now at dest.
Stat(u) ==
  /\ At(u, "stat")
  /\ meta' = [meta EXCEPT ![u] = [sha |-> u, bytes |-> dest[key[u]]]]
  /\ Goto(u, "sidecar")
  /\ UNCHANGED <<args, disk>>

WriteSidecar(u) ==
  /\ At(u, "sidecar")
  /\ sideTmp' = [sideTmp EXCEPT ![u] = TRUE]
  /\ Goto(u, "swap")
  /\ UNCHANGED <<args, tmp, data, dest, sidecar, meta>>

\* Faulty variant: the sidecar's name is not derived from the whole key, so
\* that it may be another key's.
SwapSidecar_WrongName(u) ==
  /\ At(u, "swap")
  /\ \E k \in Keys : sidecar' = [sidecar EXCEPT ![k] = meta[u]]
  /\ sideTmp' = [sideTmp EXCEPT ![u] = FALSE]
  /\ Return(u, "success")
  /\ UNCHANGED <<args, tmp, data, dest, meta>>

\* os.replace(sidecar_tmp, sidecar), the last step that can fail.
SwapSidecar(u) ==
  /\ At(u, "swap")
  /\ sidecar' = [sidecar EXCEPT ![key[u]] = meta[u]]
  /\ sideTmp' = [sideTmp EXCEPT ![u] = FALSE]
  /\ Return(u, "success")
  /\ UNCHANGED <<args, tmp, data, dest, meta>>

-----------------------------------------------------------------------------
(* Failures.                                                               *)

\* Where an exception other than FileExistsError reaches the handler that
\* removes tmp. os.link's errors do not: they select a fallback.
Cleaned(u) ==
  \/ pc[u] \in {"open", "write", "late", "stat", "sidecar", "swap"}
  \/ At(u, "publish") /\ force[u]

\* The handler removes tmp, best effort, and never the sidecar's.
Fail(u) ==
  /\ Cleaned(u)
  /\ \E t \in {"absent", tmp[u]} : tmp' = [tmp EXCEPT ![u] = t]
  /\ Return(u, "failed")
  /\ UNCHANGED <<args, sideTmp, data, dest, sidecar, meta>>

\* The process is killed, or KeyboardInterrupt unwinds the call.
Crash(u) ==
  /\ pc[u] # "done"
  /\ Return(u, "crashed")
  /\ UNCHANGED <<args, disk, meta>>

-----------------------------------------------------------------------------
Publishing(u) ==
  \/ Replace(u) \/ Link(u) \/ LinkExists(u) \/ LinkRefused(u) \/ UnlinkTmp(u)
  \/ OpenExcl(u) \/ ExclExists(u) \/ Copy(u) \/ UnlinkCopied(u) \/ CopyFails(u)
  \/ Recheck(u) \/ RecheckExists(u) \/ LateReplace(u)

Step(u) ==
  \/ Begin(u) \/ PreCheckRejects(u) \/ NoParent(u) \/ OpenTmp(u) \/ WriteTmp(u)
  \/ Publishing(u)
  \/ Stat(u) \/ WriteSidecar(u) \/ SwapSidecar(u)
  \/ Fail(u)

Next == \E u \in Uploaders : Step(u) \/ Crash(u)

Spec == Init /\ [][Next]_vars

\* A call keeps running until it returns; nothing makes it crash.
Fairness == \A u \in Uploaders : WF_vars(Step(u))

FairSpec == Spec /\ Fairness

-----------------------------------------------------------------------------
(* What the calls promise.                                                 *)

OnKey(k) == {u \in Uploaders : key[u] = k}

\* Nothing may replace k's artifact: no call for k was made with force, and
\* os.link works on the volume or says EXDEV.
Exclusive(k) ==
  /\ fs # "nolink"
  /\ \A u \in OnKey(k) : ~force[u]

\* Where os.link works or says EXDEV, only a call made with force replaces an
\* artifact: the directory entry of a key, once it names a file, changes only
\* to the file of such a call, whatever runs between check and publication.
NoClobber ==
  [][\A k \in Keys :
       fs # "nolink" /\ dest[k] # None /\ dest'[k] # dest[k] => force[dest'[k]]]_vars

\* A half-written artifact is visible under its key only where the EXDEV
\* fallback copies into place, while it copies or after that copy broke off.
OnlyCopyExposesPartial ==
  \A k \in Keys : \A u \in Uploaders :
    dest[k] = u /\ data[u] # "whole" =>
      /\ fs = "exdev" /\ ~force[u]
      /\ pc[u] = "copy" \/ result[u] \in {"notAtomic", "crashed"}

\* When upload returns and nothing may replace its artifact, the caller's own
\* bytes are in place, whole, and the sidecar describes them, from then on.
SuccessIsDurable ==
  \A u \in Uploaders :
    result[u] = "success" /\ Exclusive(key[u]) =>
      /\ dest[key[u]] = u
      /\ data[u] = "whole"
      /\ sidecar[key[u]] = [sha |-> u, bytes |-> u]

\* "destination already exists" is never said of the caller's own file:
\* another call's file has the key.
RejectionHasRival ==
  \A u \in Uploaders :
    result[u] = "exists" => dest[key[u]] \notin {None, u}

\* A sidecar stands only beside an artifact, and its digest is that of a file
\* that was published, whole, under the same key; unless something may
\* replace it, of the very file that is there.
SidecarNamesArtifact ==
  \A k \in Keys : sidecar[k] # None =>
    LET s == sidecar[k] IN
    /\ dest[k] # None
    /\ key[s.sha] = k /\ data[s.sha] = "whole"
    /\ Exclusive(k) => s = [sha |-> dest[k], bytes |-> dest[k]]

\* When every call for a key has returned, none of them failed or died, and
\* nothing may replace the artifact, exactly one of them succeeded.
ExactlyOneWinner ==
  \A k \in Keys :
    LET calls == OnKey(k) IN
    /\ calls # {} /\ Exclusive(k)
    /\ \A u \in calls : result[u] \in {"success", "exists"}
    => \E w \in calls : \A u \in calls : result[u] = "success" <=> u = w

\* Every call returns, however the others interfere with it.
EveryCallReturns == \A u \in Uploaders : <>(pc[u] = "done")

\* The steps a call has left at most. A copy in place may flush any number of
\* times, which after the first time changes nothing.
StepsLeft(u) ==
  CASE pc[u] = "begin" -> 11 [] pc[u] = "open" -> 10 [] pc[u] = "write" -> 9
    [] pc[u] = "publish" -> 8 [] pc[u] \in {"excl", "recheck"} -> 7
    [] pc[u] = "late" -> 6 [] pc[u] = "copy" -> IF data[u] = "empty" THEN 6 ELSE 5
    [] pc[u] \in {"unlink", "copied"} -> 4 [] pc[u] = "stat" -> 3
    [] pc[u] = "sidecar" -> 2 [] pc[u] = "swap" -> 1 [] OTHER -> 0

\* A step brings the end of one call nearer and moves no other call away from its
\* own: no call tries again because of what a rival did.
OnlyForward ==
  [][\E u \in Uploaders :
       /\ StepsLeft(u)' < StepsLeft(u)
       /\ \A v \in Uploaders \ {u} : StepsLeft(v)' = StepsLeft(v)]_vars

\* What temporary files a call leaves. A success leaves at most its link's second
\* name, where that could not be unlinked; the loser of a race and a copy in place
\* that broke off leave a whole copy of their own artifact. A part of one, or of a
\* sidecar, is left only by a call that failed otherwise or died.
LeftoversExplained ==
  \A u \in Uploaders :
    pc[u] = "done" /\ result[u] \notin {"failed", "crashed"} =>
      /\ ~sideTmp[u]
      /\ tmp[u] # "absent" =>
           /\ tmp[u] = "whole"
           /\ result[u] = "success" => fs # "exdev" /\ ~force[u]

-----------------------------------------------------------------------------
(* What the source's comments say and the code does not do.                *)

\* "fail-if-exists unless force", "even if dest is created between the exists()
\* pre-check and link()": NoClobber, on volumes of every kind.
NeverClobbers ==
  [][\A k \in Keys : dest[k] # None /\ dest'[k] # dest[k] => force[dest'[k]]]_vars

-----------------------------------------------------------------------------
(* The store the calls implement.                                          *)

Outcome(u) ==
  IF pc[u] # "done" THEN IF data[u] = "absent" THEN "pending" ELSE "published"
  ELSE CASE result[u] = "success" -> "ok"
         [] result[u] = "exists" -> "exists"
         [] OTHER -> "failed"

Outcomes == [u \in Uploaders |-> Outcome(u)]

Store == INSTANCE ArtifactStore
           WITH store <- dest, outcome <- Outcomes, exclusive <- fs # "nolink"

\* Uploads behave as puts on a store that takes an unforced put at most once
\* per key, if it is exclusive, and rejects one only for a rival's sake.
ImplementsStore == Store!Spec

=============================================================================
