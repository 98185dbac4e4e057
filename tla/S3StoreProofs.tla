---------------------------- MODULE S3StoreProofs ----------------------------
(***************************************************************************)
(* Proofs about S3Store, for any number of uploads, downloads, keys,        *)
(* attempts and pieces.                                                    *)
(***************************************************************************)

EXTENDS S3Store, TLAPS

UploadTypes ==
  /\ object \in [Keys -> Uploaders \union {None}]
  /\ key \in [Uploaders -> Keys]
  /\ size \in [Uploaders -> 1 .. Parts]
  /\ pc \in [Uploaders -> {"begin", "parts", "put", "cancel", "handler", "done"}]
  /\ result \in [Uploaders -> {"none", "success", "failed", "interrupted", "killed"}]
  /\ multipart \in [Uploaders -> {"none", "open", "completed", "aborted"}]
  /\ parts \in [Uploaders -> 0 .. Parts]
  /\ attempt \in [Uploaders -> {"none", "sent", "executed"}]
  /\ tries \in [Uploaders -> 0 .. MaxAttempts]
  /\ late \in [Uploaders -> 0 .. MaxAttempts]

DownloadTypes ==
  /\ wanted \in [Readers -> Keys]
  /\ head \in [Readers -> Uploaders \union {None}]
  /\ DOMAIN got = Readers
  /\ outcome \in [Readers -> {"begin", "ranges", "read", "refused", "failed"}]

Types == UploadTypes /\ DownloadTypes

\* An attempt is waited for only while the object is put; those given up are
\* among the attempts made before it.
Attempts ==
  \A u \in Uploaders :
    /\ attempt[u] # "none" => pc[u] = "put" /\ tries[u] > 0
    /\ pc[u] = "put" => late[u] <= tries[u]
    /\ attempt[u] = "sent" => late[u] < tries[u]
    /\ pc[u] \in {"begin", "parts"} => late[u] = 0
    /\ pc[u] # "done" => result[u] = "none"

\* An object is at the key it was uploaded to.
AtItsKey == \A k \in Keys : object[k] # None => key[object[k]] = k

\* Where the server has executed a request, and so wherever an upload was
\* acknowledged, something is at the key.
Executed ==
  \A u \in Uploaders :
    attempt[u] = "executed" \/ multipart[u] = "completed" \/ result[u] = "success"
      => object[key[u]] # None

\* What a download has is in its place in an artifact that was uploaded to the key it
\* wants; while it reads ranges there is an object at that key.
Reading ==
  \A r \in Readers :
    /\ got[r] = [i \in DOMAIN got[r] |-> got[r][i]]
    /\ \A i \in DOMAIN got[r] :
         /\ got[r][i] \in Uploaders /\ key[got[r][i]] = wanted[r]
         /\ i \in 1 .. size[got[r][i]]
    /\ outcome[r] = "ranges" => head[r] # None /\ object[wanted[r]] # None
    /\ outcome[r] = "begin" => DOMAIN got[r] = {}

Inv == Types /\ Attempts /\ AtItsKey /\ Executed /\ Reading

-----------------------------------------------------------------------------
(* The steps of an upload leave the objects alone; what the server does to *)
(* them puts an upload at its own key and empties no key.                  *)

LEMMA UploadKeeps ==
  ASSUME Inv, NEW u \in Uploaders, UploadStep(u) \/ Interrupt(u) \/ Kill(u)
  PROVE  Inv'
<1> USE AttemptsAssumption, NoneAssumption
<1>1. /\ UNCHANGED <<object, key, size, wanted, head, got, outcome>>
      /\ Types' /\ Attempts'
      /\ \A v \in Uploaders :
           /\ multipart'[v] = "completed" => multipart[v] = "completed"
           /\ attempt'[v] = "executed" => attempt[v] = "executed"
           /\ result'[v] = "success" => result[v] = "success" \/ attempt[v] = "executed"
  <2> USE DEF Inv, Types, UploadTypes, DownloadTypes, Attempts, call, request, reading, Goto,
              Return, Ended, GivenUp, Aborted
  <2>1. CASE Begin(u)      BY <2>1 DEF Begin
  <2>2. CASE BeginFails(u) BY <2>2 DEF BeginFails
  <2>3. CASE SendPart(u)   BY <2>3 DEF SendPart
  <2>4. CASE AllSent(u)    BY <2>4 DEF AllSent
  <2>5. CASE PartFails(u)  BY <2>5 DEF PartFails
  <2>6. CASE Send(u)       BY <2>6 DEF Send
  <2>7. CASE PutFails(u)   BY <2>7 DEF PutFails
  <2>8. CASE Succeed(u)    BY <2>8 DEF Succeed
  <2>9. CASE Cancel(u)     BY <2>9 DEF Cancel
  <2>10. CASE Handler(u)   BY <2>10 DEF Handler
  <2>11. CASE Interrupt(u)
    <3>1. /\ multipart' \in [Uploaders -> {"none", "open", "completed", "aborted"}]
          /\ \A v \in Uploaders : multipart'[v] = "completed" => multipart[v] = "completed"
      BY <2>11 DEF Interrupt
    <3>2. /\ pc[u] # "done" /\ Return(u, pc[u], "interrupted") /\ Ended(u)
          /\ UNCHANGED <<object, call, parts, reading>>
      BY <2>11 DEF Interrupt
    <3>3. late' \in [Uploaders -> 0 .. MaxAttempts]
      BY <3>2
    <3>4. UploadTypes'
      BY <3>1, <3>2, <3>3
    <3>5. DownloadTypes' /\ Attempts'
      BY <3>2
    <3>6. QED
      BY <3>1, <3>2, <3>4, <3>5
  <2>12. CASE Kill(u)      BY <2>12 DEF Kill
  <2>13. QED
    BY <2>1, <2>2, <2>3, <2>4, <2>5, <2>6, <2>7, <2>8, <2>9, <2>10, <2>11, <2>12
       DEF UploadStep
<1>2. AtItsKey' /\ Reading'
  BY <1>1 DEF Inv, AtItsKey, Reading
<1>3. Executed'
  BY <1>1 DEF Inv, Executed
<1>4. QED
  BY <1>1, <1>2, <1>3 DEF Inv

LEMMA PutKeeps ==
  ASSUME Inv, NEW u \in Uploaders, Put(u), UNCHANGED key
  PROVE  /\ object' \in [Keys -> Uploaders \union {None}]
         /\ multipart' \in [Uploaders -> {"none", "open", "completed", "aborted"}]
         /\ AtItsKey'
         /\ \A k \in Keys : object[k] # None => object'[k] # None
         /\ object'[key[u]] # None
         /\ \A v \in Uploaders : multipart'[v] # multipart[v] => v = u
<1> USE NoneAssumption DEF Inv, Types, UploadTypes, AtItsKey, Executed
<1>1. CASE object' = [object EXCEPT ![key[u]] = u]
  <2>1. /\ multipart' = [multipart EXCEPT ![u] = multipart'[u]]
        /\ multipart'[u] \in {"none", "open", "completed", "aborted"}
    BY <1>1 DEF Put
  <2>2. QED
    BY <1>1, <2>1
<1>2. CASE UNCHANGED <<object, multipart>> /\ multipart[u] = "completed"
  BY <1>2
<1>3. QED
  BY <1>1, <1>2 DEF Put

LEMMA ServerKeeps ==
  ASSUME Inv, NEW u \in Uploaders, ServerStep(u)
  PROVE  Inv'
<1> USE AttemptsAssumption
<1>1. /\ Put(u)
      /\ UNCHANGED <<key, size, pc, result, parts, tries, wanted, head, got, outcome>>
  BY DEF ServerStep, Execute, ExecuteLate, call, reading
<1>2. /\ attempt' \in [Uploaders -> {"none", "sent", "executed"}]
      /\ late' \in [Uploaders -> 0 .. MaxAttempts]
      /\ \A v \in Uploaders : attempt'[v] = "executed" => attempt[v] = "executed" \/ v = u
      /\ Attempts'
  <2> USE <1>1 DEF Inv, Types, UploadTypes, Attempts
  <2>1. CASE Execute(u)
    BY <2>1 DEF Execute
  <2>2. CASE ExecuteLate(u)
    <3>1. late[u] > 0 /\ late' = [late EXCEPT ![u] = late[u] - 1] /\ attempt' = attempt
      BY <2>2 DEF ExecuteLate
    <3>2. late' \in [Uploaders -> 0 .. MaxAttempts]
      BY <3>1
    <3>3. QED
      BY <3>1, <3>2
  <2>3. QED
    BY <2>1, <2>2 DEF ServerStep
<1>3. Types' /\ AtItsKey'
  BY <1>1, <1>2, PutKeeps DEF Inv, Types, UploadTypes, DownloadTypes
<1>4. Executed'
  BY <1>1, <1>2, PutKeeps DEF Inv, Types, UploadTypes, DownloadTypes, Executed
<1>5. Reading'
  BY <1>1, PutKeeps DEF Inv, Types, UploadTypes, DownloadTypes, Reading
<1>6. QED
  BY <1>2, <1>3, <1>4, <1>5 DEF Inv

LEMMA ReadKeeps ==
  ASSUME Inv, NEW r \in Readers, DownloadStep(r)
  PROVE  Inv'
<1> USE AttemptsAssumption, NoneAssumption
<1>1. UNCHANGED <<object, key, size, pc, result, multipart, parts, attempt, tries, late, wanted>>
  BY DEF DownloadStep, HeadObject, HeadMissing, GetRange, RangeGone, DownloadFails, End,
         uploading, call, request
<1>2. UploadTypes' /\ Attempts' /\ AtItsKey' /\ Executed'
  BY <1>1 DEF Inv, Types, UploadTypes, Attempts, AtItsKey, Executed
<1>3. CASE GetRange(r)
  <2> DEFINE o == object[wanted[r]]
  <2>1. PICK i \in Missing(r) :
          LET pieces == IF i = size[head[r]] THEN i .. size[o] ELSE {i}
          IN  /\ i <= size[o]
              /\ got' = [got EXCEPT ![r] =
                   [j \in DOMAIN got[r] \union pieces |-> IF j \in pieces THEN o ELSE got[r][j]]]
              /\ outcome' = [outcome EXCEPT ![r] = IF Missing(r) = {i} THEN "read" ELSE @]
    BY <1>3 DEF GetRange
  <2> DEFINE pieces == IF i = size[head[r]] THEN i .. size[o] ELSE {i}
             g == [j \in DOMAIN got[r] \union pieces |-> IF j \in pieces THEN o ELSE got[r][j]]
  <2>2. outcome[r] = "ranges" /\ UNCHANGED head
    BY <1>3 DEF GetRange
  <2>3. o \in Uploaders /\ key[o] = wanted[r] /\ size[o] \in Nat
    BY <1>3 DEF GetRange, Inv, Types, UploadTypes, DownloadTypes, AtItsKey
  <2>4. pieces \subseteq 1 .. size[o]
    BY <2>1, <2>2, <2>3 DEF Missing, Inv, Types, UploadTypes, DownloadTypes, Reading
  <2>5. /\ got'[r] = g /\ DOMAIN got' = Readers
        /\ \A q \in Readers \ {r} : got'[q] = got[q] /\ outcome'[q] = outcome[q]
        /\ outcome'[r] \in {"ranges", "read"}
    BY <2>1, <2>2 DEF Inv, Types, DownloadTypes
  <2>6. DownloadTypes'
    BY <1>1, <2>1, <2>2, <2>5 DEF Inv, Types, DownloadTypes
  <2>7. \A j \in DOMAIN g :
          g[j] \in Uploaders /\ key[g[j]] = wanted[r] /\ j \in 1 .. size[g[j]]
    <3>1. ASSUME NEW j \in pieces
          PROVE  g[j] = o /\ j \in 1 .. size[o]
      BY <2>4
    <3>2. ASSUME NEW j \in DOMAIN got[r] \ pieces
          PROVE  g[j] = got[r][j]
      OBVIOUS
    <3>3. \A j \in DOMAIN got[r] :
            got[r][j] \in Uploaders /\ key[got[r][j]] = wanted[r] /\ j \in 1 .. size[got[r][j]]
      BY DEF Inv, Reading
    <3>4. DOMAIN g = pieces \union (DOMAIN got[r] \ pieces)
      OBVIOUS
    <3> HIDE DEF pieces, g
    <3>5. QED
      BY <2>3, <3>1, <3>2, <3>3, <3>4
  <2>8. Reading'
    <3>1. g = [j \in DOMAIN g |-> g[j]]
      OBVIOUS
    <3> HIDE DEF g, o
    <3>2. UNCHANGED <<object, key, size, wanted, head>>
      BY <1>1, <2>2
    <3>3. ASSUME NEW q \in Readers \ {r}
          PROVE  Reading!(q)'
      <4>1. got'[q] = got[q] /\ outcome'[q] = outcome[q]
        BY <2>5
      <4>2. Reading!(q)
        BY DEF Inv, Reading
      <4>3. QED
        BY <3>2, <4>1, <4>2
    <3>4. Reading!(r)'
      <4>1. object[wanted[r]] # None /\ head[r] # None
        BY <2>2 DEF Inv, Reading
      <4>2. outcome'[r] # "begin"
        BY <2>5
      <4>3. /\ got'[r] = [j \in DOMAIN got'[r] |-> got'[r][j]]
            /\ \A j \in DOMAIN got'[r] :
                 got'[r][j] \in Uploaders /\ key'[got'[r][j]] = wanted'[r]
                   /\ j \in 1 .. size'[got'[r][j]]
        BY <2>5, <2>7, <3>1, <3>2
      <4>4. QED
        BY <3>2, <4>1, <4>2, <4>3
    <3>5. QED
      BY <3>3, <3>4 DEF Reading
  <2>9. QED
    BY <1>2, <2>6, <2>8 DEF Inv, Types
<1>4. CASE HeadObject(r)
  <2>1. DownloadTypes'
    BY <1>1, <1>4 DEF HeadObject, Inv, Types, UploadTypes, DownloadTypes
  <2>2. Reading'
    BY <1>1, <1>4 DEF HeadObject, Inv, Types, DownloadTypes, Reading
  <2>3. QED
    BY <1>2, <2>1, <2>2 DEF Inv, Types
<1>5. CASE HeadMissing(r) \/ RangeGone(r) \/ DownloadFails(r)
  <2>1. PICK s \in {"failed", "refused"} : End(r, s)
    BY <1>5 DEF HeadMissing, RangeGone, DownloadFails
  <2>2. DownloadTypes' /\ Reading'
    BY <1>1, <2>1 DEF End, Inv, Types, DownloadTypes, Reading
  <2>3. QED
    BY <1>2, <2>2 DEF Inv, Types
<1>6. QED
  BY <1>3, <1>4, <1>5 DEF DownloadStep

LEMMA InvInvariant == Spec => []Inv
<1>1. Init => Inv
  BY AttemptsAssumption, NoneAssumption
     DEF Init, Inv, Types, UploadTypes, DownloadTypes, Attempts, AtItsKey, Executed, Reading
<1>2. Inv /\ [Next]_vars => Inv'
  <2>1. CASE UNCHANGED vars
    BY <2>1 DEF vars, call, request, reading, Inv, Types, UploadTypes, DownloadTypes,
                Attempts, AtItsKey, Executed, Reading
  <2>2. QED
    BY <2>1, UploadKeeps, ServerKeeps, ReadKeeps DEF Next
<1>3. QED
  BY <1>1, <1>2, PTL DEF Spec

-----------------------------------------------------------------------------
\* Every variable keeps its type: no request is made, and none left under way,
\* more often than max_attempts says; no download has more than an artifact's pieces.
THEOREM TypeCorrect == Spec => []TypeOK
<1>1. Inv => TypeOK
  <2>1. ASSUME Inv, NEW r \in Readers
        PROVE  \E D \in SUBSET (1 .. Parts) : got[r] \in [D -> Uploaders]
    <3>1. DOMAIN got[r] \subseteq 1 .. Parts
      <4> SUFFICES ASSUME NEW i \in DOMAIN got[r]
                   PROVE  i \in 1 .. Parts
        OBVIOUS
      <4>1. got[r][i] \in Uploaders /\ i \in 1 .. size[got[r][i]]
        BY <2>1 DEF Inv, Reading
      <4>2. size[got[r][i]] \in 1 .. Parts
        BY <2>1, <4>1 DEF Inv, Types, UploadTypes
      <4>3. QED
        BY <4>1, <4>2, AttemptsAssumption
    <3>2. got[r] \in [DOMAIN got[r] -> Uploaders]
      BY <2>1 DEF Inv, Reading
    <3>3. QED
      BY <3>1, <3>2
  <2>2. QED
    BY <2>1 DEF Inv, Types, UploadTypes, DownloadTypes, TypeOK
<1>2. QED
  BY <1>1, InvInvariant, PTL

\* A backup reported as a success is in the bucket under its key, or another one
\* of the same key is: no stray attempt and no abort empties a key.
THEOREM AcknowledgedStays == Spec => []AcknowledgedIsStored
<1>1. Inv => AcknowledgedIsStored
  BY DEF Inv, Types, UploadTypes, DownloadTypes, AtItsKey, Executed, AcknowledgedIsStored
<1>2. QED
  BY <1>1, InvInvariant, PTL

\* A download is whole and unmixed, or has met a second upload to its key.
THEOREM ReadsWhole == Spec => WholeUnlessReplaced
<1> DEFINE Rival(r) ==
      \E v \in Uploaders \ {head[r]} :
        /\ key[v] = wanted[r]
        /\ object[wanted[r]] = v \/ \E i \in DOMAIN got[r] : got[r][i] = v
<1>1. ASSUME Inv, [Next]_vars, NEW r \in Readers,
             outcome[r] = "ranges", outcome'[r] \in {"read", "refused"}
      PROVE  (outcome'[r] = "read" /\ got'[r] = Whole(head[r])) \/ Rival(r)
  <2> DEFINE o == object[wanted[r]]
             h == head[r]
  <2>1. /\ o \in Uploaders /\ key[o] = wanted[r] /\ size[o] \in Nat
        /\ h \in Uploaders /\ size[h] \in Nat \ {0}
    BY <1>1, AttemptsAssumption
       DEF Inv, Types, UploadTypes, DownloadTypes, AtItsKey, Reading
  <2>2. \A j \in DOMAIN got[r] :
          /\ got[r][j] \in Uploaders /\ key[got[r][j]] = wanted[r]
          /\ j \in 1 .. size[got[r][j]]
    BY <1>1 DEF Inv, Reading
  <2>3. o # h => Rival(r)
    BY <2>1
  <2>4. (\E j \in DOMAIN got[r] : got[r][j] # h) => Rival(r)
    BY <2>2
  <2>5. DownloadStep(r)
    <3>1. ASSUME NEW u \in Uploaders,
                 UploadStep(u) \/ Interrupt(u) \/ Kill(u) \/ ServerStep(u)
          PROVE  outcome' = outcome
      BY <3>1 DEF UploadStep, Begin, BeginFails, SendPart, AllSent, PartFails, Send, PutFails,
                  Succeed, Cancel, Handler, Interrupt, Kill, ServerStep, Execute,
                  ExecuteLate, reading
    <3>2. ASSUME NEW q \in Readers \ {r}, DownloadStep(q)
          PROVE  outcome'[r] = outcome[r]
      BY <1>1, <3>2
         DEF DownloadStep, HeadObject, HeadMissing, GetRange, RangeGone, DownloadFails, End,
             Inv, Types, DownloadTypes
    <3>3. outcome' # outcome
      BY <1>1
    <3>4. QED
      BY <1>1, <3>1, <3>2, <3>3 DEF Next, vars
  <2>6. CASE RangeGone(r)
    <3>1. o # h
      BY <2>1, <2>6, NoneAssumption DEF RangeGone, Missing
    <3>2. QED
      BY <2>3, <3>1
  <2>7. CASE GetRange(r) /\ o = h /\ \A j \in DOMAIN got[r] : got[r][j] = h
    <3>1. PICK i \in Missing(r) :
            LET pieces == IF i = size[h] THEN i .. size[o] ELSE {i}
            IN  /\ i <= size[o]
                /\ got' = [got EXCEPT ![r] =
                     [j \in DOMAIN got[r] \union pieces |-> IF j \in pieces THEN o ELSE got[r][j]]]
                /\ outcome' = [outcome EXCEPT ![r] = IF Missing(r) = {i} THEN "read" ELSE @]
      BY <2>7 DEF GetRange
    <3>2. Missing(r) = {i} /\ outcome'[r] = "read"
      BY <1>1, <3>1 DEF Inv, Types, DownloadTypes
    <3> DEFINE pieces == IF i = size[h] THEN i .. size[o] ELSE {i}
    <3>3. pieces = {i}
      <4>1. CASE i = size[h]
        <5>1. i .. size[h] = {i}
          BY <2>1, <4>1
        <5>2. QED
          BY <2>7, <4>1, <5>1
      <4>2. QED
        BY <4>1
    <3>4. DOMAIN got[r] \union {i} = 1 .. size[h]
      BY <2>2, <2>7, <3>2 DEF Missing
    <3>5. got'[r] = [j \in 1 .. size[h] |-> h]
      <4>1. got'[r] = [j \in DOMAIN got[r] \union {i} |-> IF j \in {i} THEN o ELSE got[r][j]]
        BY <1>1, <3>1, <3>3 DEF Inv, Types, DownloadTypes
      <4>2. \A j \in 1 .. size[h] : (IF j \in {i} THEN o ELSE got[r][j]) = h
        BY <2>7, <3>4
      <4>3. QED
        BY <3>4, <4>1, <4>2
    <3>6. QED
      BY <3>2, <3>5 DEF Whole
  <2>8. CASE HeadObject(r) \/ HeadMissing(r) \/ DownloadFails(r)
    BY <1>1, <2>8 DEF HeadObject, HeadMissing, DownloadFails, End, Inv, Types, DownloadTypes
  <2>9. QED
    BY <2>3, <2>4, <2>5, <2>6, <2>7, <2>8 DEF DownloadStep
<1>2. Inv /\ [Next]_vars =>
        [\A r \in Readers :
           outcome[r] = "ranges" /\ outcome'[r] \in {"read", "refused"} =>
             \/ outcome'[r] = "read" /\ got'[r] = Whole(head[r])
             \/ \E v \in Uploaders \ {head[r]} :
                  /\ key[v] = wanted[r]
                  /\ object[wanted[r]] = v \/ \E i \in DOMAIN got[r] : got[r][i] = v]_vars
  BY <1>1
<1>3. QED
  BY <1>2, InvInvariant, PTL DEF Spec, WholeUnlessReplaced

\* A step that aborts a multipart upload is one of the upload that owns it.
THEOREM OthersUntouched == Spec => RivalsUntouched
<1>1. Inv /\ [Next]_vars =>
        \A u \in Uploaders :
          multipart[u] = "open" /\ multipart'[u] = "aborted" => pc'[u] # pc[u]
  <2> SUFFICES ASSUME Inv, [Next]_vars, NEW u \in Uploaders,
                      multipart[u] = "open", multipart'[u] = "aborted"
               PROVE  pc'[u] # pc[u]
    OBVIOUS
  <2>1. ASSUME NEW v \in Uploaders, UploadStep(v) \/ Interrupt(v) \/ Kill(v)
        PROVE  pc'[u] # pc[u]
    <3> USE DEF Inv, Types, UploadTypes, DownloadTypes, call, request, reading, Goto, Return
    <3>1. CASE Begin(v) \/ BeginFails(v)
      BY <3>1 DEF Begin, BeginFails
    <3>2. CASE Cancel(v) \/ Interrupt(v)
      BY <3>2 DEF Cancel, Interrupt, Aborted
    <3>3. CASE UNCHANGED multipart
      BY <3>3
    <3>4. QED
      BY <2>1, <3>1, <3>2, <3>3
         DEF UploadStep, SendPart, AllSent, PartFails, Send, PutFails, Succeed, Handler, Kill
  <2>2. ASSUME NEW v \in Uploaders, ServerStep(v)
        PROVE  FALSE
    BY <2>2 DEF ServerStep, Execute, ExecuteLate, Put, Inv, Types, UploadTypes
  <2>3. ASSUME NEW r \in Readers, DownloadStep(r)
        PROVE  FALSE
    BY <2>3 DEF DownloadStep, HeadObject, HeadMissing, GetRange, RangeGone,
                DownloadFails, End, uploading
  <2>4. CASE UNCHANGED vars
    BY <2>4 DEF vars
  <2>5. QED
    BY <2>1, <2>2, <2>3, <2>4 DEF Next
<1>2. QED
  BY <1>1, InvInvariant, PTL DEF Spec, RivalsUntouched

-----------------------------------------------------------------------------
(* Uploads in parts.                                                       *)

\* A completion is asked for only when all parts are there, and no part is sent
\* afterwards; only a completion puts a large object.
Multiparts ==
  \A u \in Uploaders :
    /\ ~Large(u) => multipart[u] = "none"
    /\ Large(u) /\ pc[u] \in {"begin", "parts"} => multipart[u] \in {"none", "open"}
    /\ Large(u) /\ (pc[u] = "put" \/ late[u] > 0 \/ multipart[u] = "completed")
         => parts[u] = size[u]
    /\ Large(u) /\ (attempt[u] = "executed" \/ result[u] = "success")
         => multipart[u] = "completed"
    /\ \A k \in Keys : Large(u) /\ object[k] = u => multipart[u] = "completed"

LEMMA UploadKeepsParts ==
  ASSUME Inv, Multiparts, NEW u \in Uploaders, UploadStep(u) \/ Interrupt(u) \/ Kill(u)
  PROVE  Multiparts'
<1> USE AttemptsAssumption
    DEF Inv, Types, UploadTypes, DownloadTypes, Attempts, Multiparts, call, request,
        reading, Goto, Return, Ended, GivenUp, Aborted, Large
<1>1. CASE Begin(u)      BY <1>1 DEF Begin
<1>2. CASE BeginFails(u) BY <1>2 DEF BeginFails
<1>3. CASE SendPart(u)   BY <1>3 DEF SendPart
<1>4. CASE AllSent(u)    BY <1>4 DEF AllSent
<1>5. CASE PartFails(u)  BY <1>5 DEF PartFails
<1>6. CASE Send(u)       BY <1>6 DEF Send
<1>7. CASE PutFails(u)   BY <1>7 DEF PutFails
<1>8. CASE Succeed(u)    BY <1>8 DEF Succeed
<1>9. CASE Cancel(u)     BY <1>9 DEF Cancel
<1>10. CASE Handler(u)   BY <1>10 DEF Handler
<1>11. CASE Interrupt(u) BY <1>11 DEF Interrupt
<1>12. CASE Kill(u)      BY <1>12 DEF Kill
<1>13. QED
  BY <1>1, <1>2, <1>3, <1>4, <1>5, <1>6, <1>7, <1>8, <1>9, <1>10, <1>11, <1>12
     DEF UploadStep

LEMMA ServerKeepsParts ==
  ASSUME Inv, Multiparts, NEW u \in Uploaders, ServerStep(u)
  PROVE  Multiparts'
<1> USE NoneAssumption DEF Inv, Types, UploadTypes, Attempts, Multiparts, call, reading, Large
<1>1. /\ Put(u)
      /\ UNCHANGED <<key, size, pc, result, parts, tries>>
      /\ attempt[u] = "sent" \/ late[u] > 0
      /\ attempt' = attempt \/ attempt' = [attempt EXCEPT ![u] = "executed"]
      /\ \A v \in Uploaders : late'[v] > 0 => late[v] > 0
  BY DEF ServerStep, Execute, ExecuteLate
<1>2. Large(u) => parts[u] = size[u]
  BY <1>1
<1>3. CASE ~Large(u) /\ object' = [object EXCEPT ![key[u]] = u] /\ UNCHANGED multipart
  BY <1>1, <1>3
<1>4. CASE /\ Large(u) /\ multipart[u] = "open"
           /\ object' = [object EXCEPT ![key[u]] = u]
           /\ multipart' = [multipart EXCEPT ![u] = "completed"]
  BY <1>1, <1>2, <1>4
<1>5. CASE Large(u) /\ multipart[u] = "completed" /\ UNCHANGED <<object, multipart>>
  BY <1>1, <1>5
<1>6. QED
  BY <1>1, <1>3, <1>4, <1>5 DEF Put

\* Whatever is at a key is a whole artifact, and an acknowledged upload leaves no
\* parts behind, whatever was retried, aborted or executed late.
THEOREM NothingInPieces == Spec => []StoredIsWhole
<1>1. Init => Multiparts
  <2> SUFFICES ASSUME Init, NEW u \in Uploaders
               PROVE  Multiparts!(u)
    BY DEF Multiparts
  <2>1. /\ pc[u] = "begin" /\ result[u] = "none" /\ multipart[u] = "none"
        /\ attempt[u] = "none" /\ late[u] = 0
        /\ \A k \in Keys : object[k] # u
    BY NoneAssumption DEF Init
  <2>2. QED
    BY <2>1
<1>2. Inv /\ Multiparts /\ [Next]_vars => Multiparts'
  <2>1. ASSUME Inv, Multiparts, NEW r \in Readers, DownloadStep(r)
        PROVE  Multiparts'
    <3>1. UNCHANGED <<object, size, pc, result, multipart, parts, attempt, late>>
      BY <2>1 DEF DownloadStep, HeadObject, HeadMissing, GetRange, RangeGone,
                  DownloadFails, End, uploading, call, request
    <3>2. QED
      BY <2>1, <3>1 DEF Multiparts, Large
  <2>2. Multiparts /\ UNCHANGED vars => Multiparts'
    BY DEF vars, Multiparts, Large
  <2>3. QED
    BY <2>1, <2>2, UploadKeepsParts, ServerKeepsParts DEF Next
<1>3. Inv /\ Multiparts => StoredIsWhole
  <2> SUFFICES ASSUME Inv, Multiparts, NEW u \in Uploaders
               PROVE  /\ \A k \in Keys : object[k] = u =>
                           /\ key[u] = k
                           /\ Large(u) => multipart[u] = "completed" /\ parts[u] = size[u]
                      /\ result[u] = "success" =>
                           multipart[u] = IF Large(u) THEN "completed" ELSE "none"
    BY DEF StoredIsWhole
  <2>1. ASSUME NEW k \in Keys, object[k] = u
        PROVE  /\ key[u] = k
               /\ Large(u) => multipart[u] = "completed" /\ parts[u] = size[u]
    BY <2>1, NoneAssumption DEF Inv, AtItsKey, Multiparts
  <2>2. result[u] = "success" => multipart[u] = IF Large(u) THEN "completed" ELSE "none"
    BY DEF Inv, Types, UploadTypes, Multiparts
  <2>3. QED
    BY <2>1, <2>2
<1>4. QED
  BY <1>1, <1>2, <1>3, InvInvariant, PTL DEF Spec

=============================================================================
