------------------------------- MODULE S3Store -------------------------------
(***************************************************************************)
(* S3Backend (storage/s3.py): uploads, and downloads beside them, between  *)
(* the pipelines on one side and boto3 with an S3 server on the other.     *)
(* boto3 and the server are external, modelled from how the backend uses   *)
(* them:                                                                   *)
(*                                                                         *)
(* - an artifact above boto3's threshold goes up in parts;                 *)
(* - a request that puts an object (PutObject, or CompleteMultipartUpload) *)
(*   is made up to MaxAttempts times; the client may give an attempt up    *)
(*   that the server has executed, or that it will execute later;          *)
(* - a transfer that ends early asks the server to abort its multipart     *)
(*   upload, once, and may not be heard;                                   *)
(* - a large object is read in ranges, by requests in any order, each of   *)
(*   which sees the object of its moment.  (Recent releases of boto3 make  *)
(*   them conditional, which here is one more way for one to fail; those   *)
(*   pyproject.toml allows from 1.34 on do not.)                           *)
(*                                                                         *)
(* upload does not look whether the key exists, with or without --force.   *)
(***************************************************************************)

EXTENDS Naturals

CONSTANTS
  Uploaders,    \* calls of upload
  Readers,      \* calls of download
  Keys,         \* object keys
  MaxAttempts,  \* the attempts of a request: S3Backend.max_attempts, and the first
  Parts,        \* bound on the pieces of an artifact: parts when it goes up, ranges
                \* when it comes down
  None          \* no object

ASSUME AttemptsAssumption == MaxAttempts \in Nat \ {0} /\ Parts \in Nat \ {0}
ASSUME NoneAssumption == None \notin Uploaders

VARIABLES
  object,     \* the upload whose artifact is at a key
  key,        \* the key of a call
  size,       \* the pieces of its artifact
  pc,         \* the next step of upload
  result,     \* how run_backup ended
  multipart,  \* the multipart upload of a call, on the server
  parts,      \* its parts so far
  attempt,    \* the attempt the client waits for
  tries,      \* the attempts made
  late,       \* those given up that the server may yet execute
  wanted,     \* the key of a download
  head,       \* the upload whose size it was told
  got,        \* the uploads whose bytes it has, by their place in the artifact
  outcome     \* how it ended: "read", or refused by a range that is not there

call == <<key, size>>
request == <<attempt, tries, late>>
reading == <<wanted, head, got, outcome>>
vars == <<object, key, size, pc, result, multipart, parts, attempt, tries, late, wanted,
          head, got, outcome>>

\* The artifact goes up in parts.
Large(u) == size[u] > 1

\* All the pieces of u's artifact, in their places.
Whole(u) == [i \in 1 .. size[u] |-> u]

TypeOK ==
  /\ object \in [Keys -> Uploaders \union {None}]
  /\ key \in [Uploaders -> Keys]
  /\ size \in [Uploaders -> 1 .. Parts]
  /\ pc \in [Uploaders -> {"begin", "parts", "put", "cancel", "handler", "done"}]
  /\ result \in [Uploaders -> {"none", "success", "failed", "interrupted", "killed"}]
  /\ multipart \in [Uploaders -> {"none", "open", "completed", "aborted"}]
  /\ parts \in [Uploaders -> 0 .. Parts]
  /\ attempt \in [Uploaders -> {"none", "sent", "executed"}]
  /\ tries \in [Uploaders -> 0 .. MaxAttempts]
  /\ late \in [Uploaders -> 0 .. MaxAttempts]
  /\ wanted \in [Readers -> Keys]
  /\ head \in [Readers -> Uploaders \union {None}]
  /\ \A r \in Readers : \E D \in SUBSET (1 .. Parts) : got[r] \in [D -> Uploaders]
  /\ outcome \in [Readers -> {"begin", "ranges", "read", "refused", "failed"}]

Init ==
  /\ object = [k \in Keys |-> None]
  /\ key \in [Uploaders -> Keys]
  /\ size \in [Uploaders -> 1 .. Parts]
  /\ pc = [u \in Uploaders |-> "begin"]
  /\ result = [u \in Uploaders |-> "none"]
  /\ multipart = [u \in Uploaders |-> "none"]
  /\ parts = [u \in Uploaders |-> 0]
  /\ attempt = [u \in Uploaders |-> "none"]
  /\ tries = [u \in Uploaders |-> 0]
  /\ late = [u \in Uploaders |-> 0]
  /\ wanted \in [Readers -> Keys]
  /\ head = [r \in Readers |-> None]
  /\ got = [r \in Readers |-> <<>>]
  /\ outcome = [r \in Readers |-> "begin"]

-----------------------------------------------------------------------------
(* upload, and the transfer it starts.                                     *)

Goto(u, from, to) ==
  /\ pc[u] = from
  /\ pc' = [pc EXCEPT ![u] = to]

Return(u, from, s) ==
  /\ Goto(u, from, "done")
  /\ result' = [result EXCEPT ![u] = s]

\* The transfer config, and upload_fileobj: CreateMultipartUpload, or nothing yet.
Begin(u) ==
  /\ Goto(u, "begin", IF Large(u) THEN "parts" ELSE "put")
  /\ multipart' = [multipart EXCEPT ![u] = IF Large(u) THEN "open" ELSE "none"]
  /\ UNCHANGED <<object, call, result, parts, request, reading>>

\* The stream cannot be opened, or the creation of the multipart upload fails,
\* which the server may have executed.
BeginFails(u) ==
  /\ Goto(u, "begin", "handler")
  /\ \/ UNCHANGED multipart
     \/ Large(u) /\ multipart' = [multipart EXCEPT ![u] = "open"]
  /\ UNCHANGED <<object, call, result, parts, request, reading>>

SendPart(u) ==
  /\ pc[u] = "parts" /\ parts[u] < size[u]
  /\ parts' = [parts EXCEPT ![u] = @ + 1]
  /\ UNCHANGED <<object, call, pc, result, multipart, request, reading>>

AllSent(u) ==
  /\ parts[u] = size[u]
  /\ Goto(u, "parts", "put")
  /\ UNCHANGED <<object, call, result, multipart, parts, request, reading>>

\* A part fails for good.
PartFails(u) ==
  /\ Goto(u, "parts", "cancel")
  /\ UNCHANGED <<object, call, result, multipart, parts, request, reading>>

\* A request that the client stops to wait for, after an error or a timeout, may
\* still be under way.
GivenUp(u) == late' = [late EXCEPT ![u] = @ + (IF attempt[u] = "sent" THEN 1 ELSE 0)]

\* The transfer ends, and what it kept with it.
Ended(u) ==
  /\ attempt' = [attempt EXCEPT ![u] = "none"]
  /\ tries' = [tries EXCEPT ![u] = 0]
  /\ GivenUp(u)

\* Faulty variant: a request is retried once more than max_attempts says.
Send_OneMore(u) ==
  /\ pc[u] = "put" /\ tries[u] <= MaxAttempts
  /\ attempt' = [attempt EXCEPT ![u] = "sent"]
  /\ tries' = [tries EXCEPT ![u] = @ + 1]
  /\ GivenUp(u)
  /\ UNCHANGED <<object, call, pc, result, multipart, parts, reading>>

\* The first attempt, or a retry after an error or a timeout.
Send(u) ==
  /\ pc[u] = "put" /\ tries[u] < MaxAttempts
  /\ attempt' = [attempt EXCEPT ![u] = "sent"]
  /\ tries' = [tries EXCEPT ![u] = @ + 1]
  /\ GivenUp(u)
  /\ UNCHANGED <<object, call, pc, result, multipart, parts, reading>>

\* The last attempt failed, or an error that is not retried.
PutFails(u) ==
  /\ Goto(u, "put", IF Large(u) THEN "cancel" ELSE "handler")
  /\ tries[u] > 0
  /\ Ended(u)
  /\ UNCHANGED <<object, call, result, multipart, parts, reading>>

\* Faulty variant: the answer is not waited for.
Succeed_Unanswered(u) ==
  /\ tries[u] > 0
  /\ Return(u, "put", "success")
  /\ Ended(u)
  /\ UNCHANGED <<object, call, multipart, parts, reading>>

Succeed(u) ==
  /\ attempt[u] = "executed"
  /\ Return(u, "put", "success")
  /\ Ended(u)
  /\ UNCHANGED <<object, call, multipart, parts, reading>>

\* What the server does with AbortMultipartUpload; it may not be heard.
Aborted(u) ==
  \/ multipart' = [multipart EXCEPT ![u] = IF @ = "open" THEN "aborted" ELSE @]
  \/ UNCHANGED multipart

\* The transfer's own clean-up.
Cancel(u) ==
  /\ Goto(u, "cancel", "handler")
  /\ Aborted(u)
  /\ UNCHANGED <<object, call, result, parts, request, reading>>

\* Faulty variant: the abort of the handler is for every upload to the key.
Handler_ByKey(u) ==
  /\ Return(u, "handler", "failed")
  /\ multipart' = [v \in Uploaders |->
       IF key[v] = key[u] /\ multipart[v] = "open" THEN "aborted" ELSE multipart[v]]
  /\ UNCHANGED <<object, call, parts, request, reading>>

\* Faulty variant: the handler cleans up what it finds at its key.
Handler_Deleting(u) ==
  /\ Return(u, "handler", "failed")
  /\ object' = [object EXCEPT ![key[u]] = IF @ = u THEN None ELSE @]
  /\ UNCHANGED <<call, multipart, parts, request, reading>>

\* abort_multipart_upload(UploadId="multipart"), the id of no upload; the error
\* goes on to run_backup.
Handler(u) ==
  /\ Return(u, "handler", "failed")
  /\ UNCHANGED <<object, call, multipart, parts, request, reading>>

\* Ctrl-C: the transfer cleans up, no handler of the backend runs.
Interrupt(u) ==
  /\ pc[u] # "done"
  /\ Return(u, pc[u], "interrupted")
  /\ Ended(u)
  /\ \/ UNCHANGED multipart
     \/ pc[u] \in {"parts", "put", "cancel"} /\ Aborted(u)
  /\ UNCHANGED <<object, call, parts, reading>>

Kill(u) ==
  /\ pc[u] # "done"
  /\ Return(u, pc[u], "killed")
  /\ Ended(u)
  /\ UNCHANGED <<object, call, multipart, parts, reading>>

-----------------------------------------------------------------------------
(* The server (external).                                                  *)

\* PutObject always puts; a completion only what was not aborted.
Put(u) ==
  \/ /\ ~Large(u)
     /\ object' = [object EXCEPT ![key[u]] = u]
     /\ UNCHANGED multipart
  \/ /\ Large(u) /\ multipart[u] = "open"
     /\ object' = [object EXCEPT ![key[u]] = u]
     /\ multipart' = [multipart EXCEPT ![u] = "completed"]
  \/ /\ Large(u) /\ multipart[u] = "completed"
     /\ UNCHANGED <<object, multipart>>

Execute(u) ==
  /\ attempt[u] = "sent"
  /\ Put(u)
  /\ attempt' = [attempt EXCEPT ![u] = "executed"]
  /\ UNCHANGED <<call, pc, result, parts, tries, late, reading>>

\* An attempt that was given up is executed after all, or never.
ExecuteLate(u) ==
  /\ late[u] > 0
  /\ Put(u)
  /\ late' = [late EXCEPT ![u] = @ - 1]
  /\ UNCHANGED <<call, pc, result, parts, attempt, tries, reading>>

-----------------------------------------------------------------------------
(* download                                                                *)

uploading == <<object, call, pc, result, multipart, parts, request>>

End(r, s) ==
  /\ outcome' = [outcome EXCEPT ![r] = s]
  /\ UNCHANGED <<wanted, head, got, uploading>>

\* download_fileobj asks for the object's size first; the object may not be there.
HeadObject(r) ==
  /\ outcome[r] = "begin"
  /\ object[wanted[r]] # None
  /\ head' = [head EXCEPT ![r] = object[wanted[r]]]
  /\ outcome' = [outcome EXCEPT ![r] = "ranges"]
  /\ UNCHANGED <<wanted, got, uploading>>

HeadMissing(r) ==
  /\ outcome[r] = "begin"
  /\ object[wanted[r]] = None
  /\ End(r, "failed")

\* The ranges still to be asked for.
Missing(r) == (1 .. size[head[r]]) \ DOMAIN got[r]

\* One range, of whatever is at the key now. The last one has no upper end; where
\* the size is that of a small object there is one request without a range, which
\* is the same.
GetRange(r) ==
  /\ outcome[r] = "ranges"
  /\ object[wanted[r]] # None
  /\ \E i \in Missing(r) :
       LET o == object[wanted[r]]
           pieces == IF i = size[head[r]] THEN i .. size[o] ELSE {i}
       IN  /\ i <= size[o]
           /\ got' = [got EXCEPT ![r] =
                [j \in DOMAIN got[r] \union pieces |-> IF j \in pieces THEN o ELSE got[r][j]]]
           /\ outcome' = [outcome EXCEPT ![r] = IF Missing(r) = {i} THEN "read" ELSE @]
  /\ UNCHANGED <<wanted, head, uploading>>

\* There is nothing at the key any more, or nothing in the range.
RangeGone(r) ==
  /\ outcome[r] = "ranges"
  /\ \/ object[wanted[r]] = None
     \/ object[wanted[r]] # None /\ \E i \in Missing(r) : i > size[object[wanted[r]]]
  /\ End(r, "refused")

\* The network, or the server, for good.
DownloadFails(r) ==
  /\ outcome[r] = "ranges"
  /\ End(r, "failed")

-----------------------------------------------------------------------------
UploadStep(u) ==
  \/ Begin(u) \/ BeginFails(u)
  \/ SendPart(u) \/ AllSent(u) \/ PartFails(u)
  \/ Send(u) \/ PutFails(u) \/ Succeed(u)
  \/ Cancel(u) \/ Handler(u)

ServerStep(u) == Execute(u) \/ ExecuteLate(u)

DownloadStep(r) ==
  \/ HeadObject(r) \/ HeadMissing(r) \/ GetRange(r) \/ RangeGone(r) \/ DownloadFails(r)

Next ==
  \/ \E u \in Uploaders : UploadStep(u) \/ Interrupt(u) \/ Kill(u) \/ ServerStep(u)
  \/ \E r \in Readers : DownloadStep(r)

Spec == Init /\ [][Next]_vars

-----------------------------------------------------------------------------
(* What the backend promises.                                              *)

\* An upload reported as a success is at its key, unless there is another
\* upload to that key: no attempt that was given up, and no abort, undoes it.
AcknowledgedIsStored ==
  \A u \in Uploaders :
    result[u] = "success" =>
      \/ object[key[u]] = u
      \/ \E v \in Uploaders \ {u} : key[v] = key[u] /\ object[key[u]] = v

\* What an upload does about its own failure ends no multipart upload of another
\* call, to the same key or not.
RivalsUntouched ==
  [][\A u \in Uploaders :
       multipart[u] = "open" /\ multipart'[u] = "aborted" => pc'[u] # pc[u]]_vars

\* A download that comes to an end has the artifact whose size it was told, whole and
\* unmixed, or has met another upload to its key: only that can mix it, cut it off or
\* have it refused, and nothing a failed, repeated or aborted upload does on its own.
WholeUnlessReplaced ==
  [][\A r \in Readers :
       outcome[r] = "ranges" /\ outcome'[r] \in {"read", "refused"} =>
         \/ outcome'[r] = "read" /\ got'[r] = Whole(head[r])
         \/ \E v \in Uploaders \ {head[r]} :
              /\ key[v] = wanted[r]
              /\ object[wanted[r]] = v \/ \E i \in DOMAIN got[r] : got[r][i] = v]_vars

\* Whatever is at a key is the whole artifact of an upload to that key: nothing
\* that lacks a part, or was aborted, gets there, not even by a late request. And
\* an acknowledged upload leaves no parts behind that nobody completes.
StoredIsWhole ==
  \A u \in Uploaders :
    /\ \A k \in Keys : object[k] = u =>
         /\ key[u] = k
         /\ Large(u) => multipart[u] = "completed" /\ parts[u] = size[u]
    /\ result[u] = "success" =>
         multipart[u] = IF Large(u) THEN "completed" ELSE "none"

-----------------------------------------------------------------------------
(* What the documentation says and the code does not do.                   *)

\* "On upload failure, S3 multipart is aborted to avoid orphan parts."
FailedLeavesNoParts ==
  \A u \in Uploaders :
    result[u] = "failed" => multipart[u] # "open" \/ parts[u] = 0

=============================================================================
