------------------------- MODULE LocalStorageProofs -------------------------
(***************************************************************************)
(* Proofs about LocalStorage, for any number of calls and keys.            *)
(***************************************************************************)

EXTENDS LocalStorage, TLAPS

(***************************************************************************)
(* Typing.  The size in the metadata is that of a file, so typing rests on *)
(* the entry a call has published, or found, still being there.            *)
(***************************************************************************)

EntryStays ==
  \A u \in Uploaders :
    pc[u] \in {"unlink", "copy", "copied", "stat"} => DestExists(u)

TypeInv == TypeOK /\ EntryStays

LEMMA TypeInvariant == Spec => []TypeInv
<1> USE DEF TypeInv, TypeOK, EntryStays, Points, Results, Content, Metadata,
            DestExists
<1>1. Init => TypeInv
  BY DEF Init
<1>2. TypeInv /\ [Next]_vars => TypeInv'
  <2> SUFFICES ASSUME TypeInv, [Next]_vars PROVE TypeInv'
    OBVIOUS
  <2> USE NoneAssumption DEF At, Goto, Return, Publish, args, disk
  <2>1. ASSUME NEW u \in Uploaders, Begin(u) PROVE TypeInv'
    BY <2>1 DEF Begin
  <2>2. ASSUME NEW u \in Uploaders, PreCheckRejects(u) PROVE TypeInv'
    BY <2>2 DEF PreCheckRejects
  <2>3. ASSUME NEW u \in Uploaders, NoParent(u) PROVE TypeInv'
    BY <2>3 DEF NoParent
  <2>4. ASSUME NEW u \in Uploaders, OpenTmp(u) PROVE TypeInv'
    BY <2>4 DEF OpenTmp
  <2>5. ASSUME NEW u \in Uploaders, WriteTmp(u) PROVE TypeInv'
    BY <2>5 DEF WriteTmp
  <2>6. ASSUME NEW u \in Uploaders, Replace(u) PROVE TypeInv'
    BY <2>6 DEF Replace
  <2>7. ASSUME NEW u \in Uploaders, Link(u) PROVE TypeInv'
    BY <2>7 DEF Link
  <2>8. ASSUME NEW u \in Uploaders, LinkExists(u) PROVE TypeInv'
    BY <2>8 DEF LinkExists
  <2>9. ASSUME NEW u \in Uploaders, LinkRefused(u) PROVE TypeInv'
    BY <2>9 DEF LinkRefused
  <2>10. ASSUME NEW u \in Uploaders, UnlinkTmp(u) PROVE TypeInv'
    BY <2>10 DEF UnlinkTmp
  <2>11. ASSUME NEW u \in Uploaders, OpenExcl(u) PROVE TypeInv'
    BY <2>11 DEF OpenExcl
  <2>12. ASSUME NEW u \in Uploaders, ExclExists(u) PROVE TypeInv'
    BY <2>12 DEF ExclExists
  <2>13. ASSUME NEW u \in Uploaders, Copy(u) PROVE TypeInv'
    BY <2>13 DEF Copy
  <2>14. ASSUME NEW u \in Uploaders, UnlinkCopied(u) PROVE TypeInv'
    BY <2>14 DEF UnlinkCopied
  <2>15. ASSUME NEW u \in Uploaders, CopyFails(u) PROVE TypeInv'
    BY <2>15 DEF CopyFails
  <2>16. ASSUME NEW u \in Uploaders, Recheck(u) PROVE TypeInv'
    BY <2>16 DEF Recheck
  <2>17. ASSUME NEW u \in Uploaders, RecheckExists(u) PROVE TypeInv'
    BY <2>17 DEF RecheckExists
  <2>18. ASSUME NEW u \in Uploaders, LateReplace(u) PROVE TypeInv'
    BY <2>18 DEF LateReplace
  <2>19. ASSUME NEW u \in Uploaders, Stat(u) PROVE TypeInv'
    BY <2>19 DEF Stat
  <2>20. ASSUME NEW u \in Uploaders, WriteSidecar(u) PROVE TypeInv'
    BY <2>20 DEF WriteSidecar
  <2>21. ASSUME NEW u \in Uploaders, SwapSidecar(u) PROVE TypeInv'
    BY <2>21 DEF SwapSidecar
  <2>22. ASSUME NEW u \in Uploaders, Fail(u) PROVE TypeInv'
    BY <2>22 DEF Fail, Cleaned
  <2>23. ASSUME NEW u \in Uploaders, Crash(u) PROVE TypeInv'
    BY <2>23 DEF Crash
  <2>24. CASE UNCHANGED vars
    BY <2>24 DEF vars
  <2>25. QED
    BY <2>1, <2>2, <2>3, <2>4, <2>5, <2>6, <2>7, <2>8, <2>9, <2>10,
       <2>11, <2>12, <2>13, <2>14, <2>15, <2>16, <2>17, <2>18, <2>19,
       <2>20, <2>21, <2>22, <2>23, <2>24
       DEF Next, Step, Publishing
<1>3. QED
  BY <1>1, <1>2, PTL DEF Spec

\* Every variable keeps its type.
THEOREM TypeCorrect == Spec => []TypeOK
<1>1. TypeInv => TypeOK
  BY DEF TypeInv
<1>2. QED
  BY <1>1, TypeInvariant, PTL

(***************************************************************************)
(* The inductive invariant.                                                *)
(***************************************************************************)

\* A call has a result exactly when it has returned.
ResultAtEnd == \A u \in Uploaders : result[u] = "running" <=> pc[u] # "done"

\* The errno other than EEXIST and EXDEV is seen on its own volumes only, and
\* the fallbacks are for calls without force.
Fallbacks ==
  \A u \in Uploaders :
    /\ pc[u] \in {"recheck", "late"} => fs = "nolink"
    /\ pc[u] \in {"excl", "copy", "copied"} => fs = "exdev"
    /\ pc[u] \in {"unlink", "excl", "copy", "copied", "recheck", "late"} => ~force[u]

\* What is about to be published is whole.
TmpWhole ==
  \A u \in Uploaders :
    pc[u] \in {"publish", "unlink", "excl", "copy", "copied", "recheck", "late"}
      => tmp[u] = "whole"

\* How much of its file a call has published, by where it is.
Progress ==
  \A u \in Uploaders :
    /\ pc[u] \in {"begin", "open", "write", "publish", "excl", "recheck", "late"}
         => data[u] = "absent"
    /\ pc[u] = "copy" => data[u] \in {"empty", "partial"}
    /\ pc[u] \in {"unlink", "copied", "stat", "sidecar", "swap"} => data[u] = "whole"
    /\ result[u] = "success" => data[u] = "whole"
    /\ result[u] = "exists" => data[u] = "absent" /\ DestExists(u)

\* An unfinished file belongs to a copy in place that runs or broke off.
Unfinished ==
  \A u \in Uploaders :
    data[u] \in {"empty", "partial"} =>
      /\ fs = "exdev" /\ ~force[u]
      /\ pc[u] = "copy" \/ result[u] \in {"notAtomic", "crashed"}

\* A directory entry names a published file of its own key, and the entry of
\* a published file's key is not empty.
Entries ==
  /\ \A k \in Keys : dest[k] # None => key[dest[k]] = k /\ data[dest[k]] # "absent"
  /\ \A u \in Uploaders : data[u] # "absent" => DestExists(u)

\* A published file that nothing may replace keeps its entry.
Keeps ==
  \A u \in Uploaders :
    data[u] # "absent" /\ Exclusive(key[u]) => dest[key[u]] = u

\* Metadata and sidecars describe a published, whole file of their key.
Describes(m, k) ==
  /\ key[m.sha] = k
  /\ data[m.sha] = "whole"
  /\ Exclusive(k) => m.bytes = m.sha

Sidecars ==
  /\ \A u \in Uploaders : pc[u] \in {"sidecar", "swap"} => meta[u] # None
  /\ \A u \in Uploaders : meta[u] # None => meta[u].sha = u /\ Describes(meta[u], key[u])
  /\ \A k \in Keys : sidecar[k] # None => Describes(sidecar[k], k)
  /\ \A u \in Uploaders : result[u] = "success" => sidecar[key[u]] # None

Control ==
  ResultAtEnd /\ Fallbacks /\ TmpWhole /\ Progress /\ Unfinished /\ Entries

LEMMA ControlInvariant == Spec => []Control
<1> USE DEF Control, ResultAtEnd, Fallbacks, TmpWhole, Progress, Unfinished,
            Entries, DestExists
<1>1. Init => Control
  BY DEF Init
<1>2. TypeOK /\ Control /\ [Next]_vars => Control'
  <2> SUFFICES ASSUME TypeOK, Control, [Next]_vars PROVE Control'
    OBVIOUS
  <2> USE NoneAssumption DEF TypeOK, Points, Results, Content, At, Goto, Return,
          Publish, args, disk
  <2>1. ASSUME NEW u \in Uploaders, Begin(u) PROVE Control'
    BY <2>1 DEF Begin
  <2>2. ASSUME NEW u \in Uploaders, PreCheckRejects(u) PROVE Control'
    BY <2>2 DEF PreCheckRejects
  <2>3. ASSUME NEW u \in Uploaders, NoParent(u) PROVE Control'
    BY <2>3 DEF NoParent
  <2>4. ASSUME NEW u \in Uploaders, OpenTmp(u) PROVE Control'
    BY <2>4 DEF OpenTmp
  <2>5. ASSUME NEW u \in Uploaders, WriteTmp(u) PROVE Control'
    BY <2>5 DEF WriteTmp
  <2>6. ASSUME NEW u \in Uploaders, Replace(u) PROVE Control'
    BY <2>6 DEF Replace
  <2>7. ASSUME NEW u \in Uploaders, Link(u) PROVE Control'
    BY <2>7 DEF Link
  <2>8. ASSUME NEW u \in Uploaders, LinkExists(u) PROVE Control'
    BY <2>8 DEF LinkExists
  <2>9. ASSUME NEW u \in Uploaders, LinkRefused(u) PROVE Control'
    BY <2>9 DEF LinkRefused
  <2>10. ASSUME NEW u \in Uploaders, UnlinkTmp(u) PROVE Control'
    BY <2>10 DEF UnlinkTmp
  <2>11. ASSUME NEW u \in Uploaders, OpenExcl(u) PROVE Control'
    BY <2>11 DEF OpenExcl
  <2>12. ASSUME NEW u \in Uploaders, ExclExists(u) PROVE Control'
    BY <2>12 DEF ExclExists
  <2>13. ASSUME NEW u \in Uploaders, Copy(u) PROVE Control'
    BY <2>13 DEF Copy
  <2>14. ASSUME NEW u \in Uploaders, UnlinkCopied(u) PROVE Control'
    BY <2>14 DEF UnlinkCopied
  <2>15. ASSUME NEW u \in Uploaders, CopyFails(u) PROVE Control'
    BY <2>15 DEF CopyFails
  <2>16. ASSUME NEW u \in Uploaders, Recheck(u) PROVE Control'
    BY <2>16 DEF Recheck
  <2>17. ASSUME NEW u \in Uploaders, RecheckExists(u) PROVE Control'
    BY <2>17 DEF RecheckExists
  <2>18. ASSUME NEW u \in Uploaders, LateReplace(u) PROVE Control'
    BY <2>18 DEF LateReplace
  <2>19. ASSUME NEW u \in Uploaders, Stat(u) PROVE Control'
    BY <2>19 DEF Stat
  <2>20. ASSUME NEW u \in Uploaders, WriteSidecar(u) PROVE Control'
    BY <2>20 DEF WriteSidecar
  <2>21. ASSUME NEW u \in Uploaders, SwapSidecar(u) PROVE Control'
    BY <2>21 DEF SwapSidecar
  <2>22. ASSUME NEW u \in Uploaders, Fail(u) PROVE Control'
    BY <2>22 DEF Fail, Cleaned
  <2>23. ASSUME NEW u \in Uploaders, Crash(u) PROVE Control'
    BY <2>23 DEF Crash
  <2>24. CASE UNCHANGED vars
    BY <2>24 DEF vars
  <2>25. QED
    BY <2>1, <2>2, <2>3, <2>4, <2>5, <2>6, <2>7, <2>8, <2>9, <2>10,
       <2>11, <2>12, <2>13, <2>14, <2>15, <2>16, <2>17, <2>18, <2>19,
       <2>20, <2>21, <2>22, <2>23, <2>24
       DEF Next, Step, Publishing
<1>3. QED
  BY <1>1, <1>2, TypeCorrect, PTL DEF Spec

\* The volume and the arguments never change, so neither does exclusiveness.
LEMMA ExclusiveStays ==
  ASSUME TypeOK, [Next]_vars
  PROVE  \A k \in Keys : Exclusive(k)' <=> Exclusive(k)
<1> USE DEF At, Goto, Return, Publish, args, disk
<1>1. UNCHANGED args
  <2>1. ASSUME NEW u \in Uploaders, Begin(u) PROVE UNCHANGED args
    BY <2>1 DEF Begin
  <2>2. ASSUME NEW u \in Uploaders, PreCheckRejects(u) PROVE UNCHANGED args
    BY <2>2 DEF PreCheckRejects
  <2>3. ASSUME NEW u \in Uploaders, NoParent(u) PROVE UNCHANGED args
    BY <2>3 DEF NoParent
  <2>4. ASSUME NEW u \in Uploaders, OpenTmp(u) PROVE UNCHANGED args
    BY <2>4 DEF OpenTmp
  <2>5. ASSUME NEW u \in Uploaders, WriteTmp(u) PROVE UNCHANGED args
    BY <2>5 DEF WriteTmp
  <2>6. ASSUME NEW u \in Uploaders, Replace(u) PROVE UNCHANGED args
    BY <2>6 DEF Replace
  <2>7. ASSUME NEW u \in Uploaders, Link(u) PROVE UNCHANGED args
    BY <2>7 DEF Link
  <2>8. ASSUME NEW u \in Uploaders, LinkExists(u) PROVE UNCHANGED args
    BY <2>8 DEF LinkExists
  <2>9. ASSUME NEW u \in Uploaders, LinkRefused(u) PROVE UNCHANGED args
    BY <2>9 DEF LinkRefused
  <2>10. ASSUME NEW u \in Uploaders, UnlinkTmp(u) PROVE UNCHANGED args
    BY <2>10 DEF UnlinkTmp
  <2>11. ASSUME NEW u \in Uploaders, OpenExcl(u) PROVE UNCHANGED args
    BY <2>11 DEF OpenExcl
  <2>12. ASSUME NEW u \in Uploaders, ExclExists(u) PROVE UNCHANGED args
    BY <2>12 DEF ExclExists
  <2>13. ASSUME NEW u \in Uploaders, Copy(u) PROVE UNCHANGED args
    BY <2>13 DEF Copy
  <2>14. ASSUME NEW u \in Uploaders, UnlinkCopied(u) PROVE UNCHANGED args
    BY <2>14 DEF UnlinkCopied
  <2>15. ASSUME NEW u \in Uploaders, CopyFails(u) PROVE UNCHANGED args
    BY <2>15 DEF CopyFails
  <2>16. ASSUME NEW u \in Uploaders, Recheck(u) PROVE UNCHANGED args
    BY <2>16 DEF Recheck
  <2>17. ASSUME NEW u \in Uploaders, RecheckExists(u) PROVE UNCHANGED args
    BY <2>17 DEF RecheckExists
  <2>18. ASSUME NEW u \in Uploaders, LateReplace(u) PROVE UNCHANGED args
    BY <2>18 DEF LateReplace
  <2>19. ASSUME NEW u \in Uploaders, Stat(u) PROVE UNCHANGED args
    BY <2>19 DEF Stat
  <2>20. ASSUME NEW u \in Uploaders, WriteSidecar(u) PROVE UNCHANGED args
    BY <2>20 DEF WriteSidecar
  <2>21. ASSUME NEW u \in Uploaders, SwapSidecar(u) PROVE UNCHANGED args
    BY <2>21 DEF SwapSidecar
  <2>22. ASSUME NEW u \in Uploaders, Fail(u) PROVE UNCHANGED args
    BY <2>22 DEF Fail, Cleaned
  <2>23. ASSUME NEW u \in Uploaders, Crash(u) PROVE UNCHANGED args
    BY <2>23 DEF Crash
  <2>24. CASE UNCHANGED vars
    BY <2>24 DEF vars
  <2>25. QED
    BY <2>1, <2>2, <2>3, <2>4, <2>5, <2>6, <2>7, <2>8, <2>9, <2>10,
       <2>11, <2>12, <2>13, <2>14, <2>15, <2>16, <2>17, <2>18, <2>19,
       <2>20, <2>21, <2>22, <2>23, <2>24
       DEF Next, Step, Publishing
<1>2. QED
  BY <1>1 DEF Exclusive, OnKey

\* An entry leaves a published file only for the file of a forced call, or on
\* a volume where os.link has a third outcome.
LEMMA KeepsInvariant == Spec => []Keeps
<1> USE DEF Keeps
<1>1. Init => Keeps
  BY DEF Init
<1>2. TypeOK /\ Control /\ Keeps /\ [Next]_vars => Keeps'
  <2> SUFFICES ASSUME TypeOK, Control, Keeps, [Next]_vars PROVE Keeps'
    OBVIOUS
  <2>0. \A k \in Keys : Exclusive(k)' <=> Exclusive(k)
    BY ExclusiveStays
  <2> USE NoneAssumption DEF TypeOK, Control, Fallbacks, Progress, Entries, DestExists,
          Points, Content, At, Goto, Return, Publish, args, disk
  <2>1. ASSUME NEW u \in Uploaders, Begin(u) PROVE Keeps'
    BY <2>1, <2>0 DEF Begin
  <2>2. ASSUME NEW u \in Uploaders, PreCheckRejects(u) PROVE Keeps'
    BY <2>2, <2>0 DEF PreCheckRejects
  <2>3. ASSUME NEW u \in Uploaders, NoParent(u) PROVE Keeps'
    BY <2>3, <2>0 DEF NoParent
  <2>4. ASSUME NEW u \in Uploaders, OpenTmp(u) PROVE Keeps'
    BY <2>4, <2>0 DEF OpenTmp
  <2>5. ASSUME NEW u \in Uploaders, WriteTmp(u) PROVE Keeps'
    BY <2>5, <2>0 DEF WriteTmp
  <2>6. ASSUME NEW u \in Uploaders, Replace(u) PROVE Keeps'
    BY <2>6, <2>0 DEF Replace, Exclusive, OnKey
  <2>7. ASSUME NEW u \in Uploaders, Link(u) PROVE Keeps'
    BY <2>7, <2>0 DEF Link
  <2>8. ASSUME NEW u \in Uploaders, LinkExists(u) PROVE Keeps'
    BY <2>8, <2>0 DEF LinkExists
  <2>9. ASSUME NEW u \in Uploaders, LinkRefused(u) PROVE Keeps'
    BY <2>9, <2>0 DEF LinkRefused
  <2>10. ASSUME NEW u \in Uploaders, UnlinkTmp(u) PROVE Keeps'
    BY <2>10, <2>0 DEF UnlinkTmp
  <2>11. ASSUME NEW u \in Uploaders, OpenExcl(u) PROVE Keeps'
    BY <2>11, <2>0 DEF OpenExcl
  <2>12. ASSUME NEW u \in Uploaders, ExclExists(u) PROVE Keeps'
    BY <2>12, <2>0 DEF ExclExists
  <2>13. ASSUME NEW u \in Uploaders, Copy(u) PROVE Keeps'
    BY <2>13, <2>0 DEF Copy
  <2>14. ASSUME NEW u \in Uploaders, UnlinkCopied(u) PROVE Keeps'
    BY <2>14, <2>0 DEF UnlinkCopied
  <2>15. ASSUME NEW u \in Uploaders, CopyFails(u) PROVE Keeps'
    BY <2>15, <2>0 DEF CopyFails
  <2>16. ASSUME NEW u \in Uploaders, Recheck(u) PROVE Keeps'
    BY <2>16, <2>0 DEF Recheck
  <2>17. ASSUME NEW u \in Uploaders, RecheckExists(u) PROVE Keeps'
    BY <2>17, <2>0 DEF RecheckExists
  <2>18. ASSUME NEW u \in Uploaders, LateReplace(u) PROVE Keeps'
    BY <2>18, <2>0 DEF LateReplace, Exclusive
  <2>19. ASSUME NEW u \in Uploaders, Stat(u) PROVE Keeps'
    BY <2>19, <2>0 DEF Stat
  <2>20. ASSUME NEW u \in Uploaders, WriteSidecar(u) PROVE Keeps'
    BY <2>20, <2>0 DEF WriteSidecar
  <2>21. ASSUME NEW u \in Uploaders, SwapSidecar(u) PROVE Keeps'
    BY <2>21, <2>0 DEF SwapSidecar
  <2>22. ASSUME NEW u \in Uploaders, Fail(u) PROVE Keeps'
    BY <2>22, <2>0 DEF Fail, Cleaned
  <2>23. ASSUME NEW u \in Uploaders, Crash(u) PROVE Keeps'
    BY <2>23, <2>0 DEF Crash
  <2>24. CASE UNCHANGED vars
    BY <2>24, <2>0 DEF vars
  <2>25. QED
    BY <2>1, <2>2, <2>3, <2>4, <2>5, <2>6, <2>7, <2>8, <2>9, <2>10,
       <2>11, <2>12, <2>13, <2>14, <2>15, <2>16, <2>17, <2>18, <2>19,
       <2>20, <2>21, <2>22, <2>23, <2>24
       DEF Next, Step, Publishing
<1>3. QED
  BY <1>1, <1>2, TypeCorrect, ControlInvariant, PTL DEF Spec

LEMMA SidecarsInvariant == Spec => []Sidecars
<1> USE DEF Sidecars, Describes
<1>1. Init => Sidecars
  BY DEF Init
<1>2. TypeOK /\ Control /\ Keeps /\ Sidecars /\ [Next]_vars => Sidecars'
  <2> SUFFICES ASSUME TypeOK, Control, Keeps, Sidecars, [Next]_vars
               PROVE  Sidecars'
    OBVIOUS
  <2>0. \A k \in Keys : Exclusive(k)' <=> Exclusive(k)
    BY ExclusiveStays
  <2> USE NoneAssumption DEF TypeOK, Control, Progress, Entries, Keeps, DestExists,
          Points, Results, Content, Metadata, At, Goto, Return, Publish, args, disk
  <2>1. ASSUME NEW u \in Uploaders, Begin(u) PROVE Sidecars'
    BY <2>1, <2>0 DEF Begin
  <2>2. ASSUME NEW u \in Uploaders, PreCheckRejects(u) PROVE Sidecars'
    BY <2>2, <2>0 DEF PreCheckRejects
  <2>3. ASSUME NEW u \in Uploaders, NoParent(u) PROVE Sidecars'
    BY <2>3, <2>0 DEF NoParent
  <2>4. ASSUME NEW u \in Uploaders, OpenTmp(u) PROVE Sidecars'
    BY <2>4, <2>0 DEF OpenTmp
  <2>5. ASSUME NEW u \in Uploaders, WriteTmp(u) PROVE Sidecars'
    BY <2>5, <2>0 DEF WriteTmp
  <2>6. ASSUME NEW u \in Uploaders, Replace(u) PROVE Sidecars'
    BY <2>6, <2>0 DEF Replace
  <2>7. ASSUME NEW u \in Uploaders, Link(u) PROVE Sidecars'
    BY <2>7, <2>0 DEF Link
  <2>8. ASSUME NEW u \in Uploaders, LinkExists(u) PROVE Sidecars'
    BY <2>8, <2>0 DEF LinkExists
  <2>9. ASSUME NEW u \in Uploaders, LinkRefused(u) PROVE Sidecars'
    BY <2>9, <2>0 DEF LinkRefused
  <2>10. ASSUME NEW u \in Uploaders, UnlinkTmp(u) PROVE Sidecars'
    BY <2>10, <2>0 DEF UnlinkTmp
  <2>11. ASSUME NEW u \in Uploaders, OpenExcl(u) PROVE Sidecars'
    BY <2>11, <2>0 DEF OpenExcl
  <2>12. ASSUME NEW u \in Uploaders, ExclExists(u) PROVE Sidecars'
    BY <2>12, <2>0 DEF ExclExists
  <2>13. ASSUME NEW u \in Uploaders, Copy(u) PROVE Sidecars'
    BY <2>13, <2>0 DEF Copy
  <2>14. ASSUME NEW u \in Uploaders, UnlinkCopied(u) PROVE Sidecars'
    BY <2>14, <2>0 DEF UnlinkCopied
  <2>15. ASSUME NEW u \in Uploaders, CopyFails(u) PROVE Sidecars'
    BY <2>15, <2>0 DEF CopyFails
  <2>16. ASSUME NEW u \in Uploaders, Recheck(u) PROVE Sidecars'
    BY <2>16, <2>0 DEF Recheck
  <2>17. ASSUME NEW u \in Uploaders, RecheckExists(u) PROVE Sidecars'
    BY <2>17, <2>0 DEF RecheckExists
  <2>18. ASSUME NEW u \in Uploaders, LateReplace(u) PROVE Sidecars'
    BY <2>18, <2>0 DEF LateReplace
  <2>19. ASSUME NEW u \in Uploaders, Stat(u) PROVE Sidecars'
    BY <2>19, <2>0 DEF Stat
  <2>20. ASSUME NEW u \in Uploaders, WriteSidecar(u) PROVE Sidecars'
    BY <2>20, <2>0 DEF WriteSidecar
  <2>21. ASSUME NEW u \in Uploaders, SwapSidecar(u) PROVE Sidecars'
    BY <2>21, <2>0 DEF SwapSidecar
  <2>22. ASSUME NEW u \in Uploaders, Fail(u) PROVE Sidecars'
    BY <2>22, <2>0 DEF Fail, Cleaned
  <2>23. ASSUME NEW u \in Uploaders, Crash(u) PROVE Sidecars'
    BY <2>23, <2>0 DEF Crash
  <2>24. CASE UNCHANGED vars
    BY <2>24, <2>0 DEF vars
  <2>25. QED
    BY <2>1, <2>2, <2>3, <2>4, <2>5, <2>6, <2>7, <2>8, <2>9, <2>10,
       <2>11, <2>12, <2>13, <2>14, <2>15, <2>16, <2>17, <2>18, <2>19,
       <2>20, <2>21, <2>22, <2>23, <2>24
       DEF Next, Step, Publishing
<1>3. QED
  BY <1>1, <1>2, TypeCorrect, ControlInvariant, KeepsInvariant, PTL DEF Spec

(***************************************************************************)
(* What the calls promise.                                                 *)
(***************************************************************************)

\* On every volume, a half-written artifact is visible only where a copy in
\* place runs or broke off.
THEOREM PartialOnlyByCopy == Spec => []OnlyCopyExposesPartial
<1>1. TypeOK /\ Control => OnlyCopyExposesPartial
  BY NoneAssumption DEF TypeOK, Control, Unfinished, Entries, Content,
     OnlyCopyExposesPartial
<1>2. QED
  BY <1>1, TypeCorrect, ControlInvariant, PTL

\* On every volume, "already exists" is said of another call's file.
THEOREM RejectionNamesRival == Spec => []RejectionHasRival
<1>1. TypeOK /\ Control => RejectionHasRival
  BY DEF TypeOK, Control, Progress, Entries, DestExists, RejectionHasRival
<1>2. QED
  BY <1>1, TypeCorrect, ControlInvariant, PTL

\* What a call reported as stored stays stored, whole and described, while
\* nothing may replace it.
THEOREM SuccessStays == Spec => []SuccessIsDurable
<1>1. TypeOK /\ Control /\ Keeps /\ Sidecars => SuccessIsDurable
  <2> SUFFICES ASSUME TypeOK, Control, Keeps, Sidecars,
                      NEW u \in Uploaders, result[u] = "success", Exclusive(key[u])
               PROVE  /\ dest[key[u]] = u
                      /\ data[u] = "whole"
                      /\ sidecar[key[u]] = [sha |-> u, bytes |-> u]
    BY DEF SuccessIsDurable
  <2>1. data[u] = "whole" /\ dest[key[u]] = u
    BY DEF Control, Progress, Keeps
  <2>2. PICK m \in Metadata : sidecar[key[u]] = m /\ Describes(m, key[u])
    BY DEF Sidecars, TypeOK
  <2>3. dest[key[u]] = m.sha /\ m.bytes = m.sha
    BY <2>2 DEF Describes, Keeps, Metadata
  <2>4. QED
    BY <2>1, <2>2, <2>3 DEF Metadata
<1>2. QED
  BY <1>1, TypeCorrect, ControlInvariant, KeepsInvariant, SidecarsInvariant, PTL

\* On every volume a sidecar stands beside an artifact and names a whole one,
\* the one that is there unless something may replace it.
THEOREM SidecarsNameArtifacts == Spec => []SidecarNamesArtifact
<1>1. TypeOK /\ Control /\ Keeps /\ Sidecars => SidecarNamesArtifact
  <2> SUFFICES ASSUME TypeOK, Control, Keeps, Sidecars,
                      NEW k \in Keys, sidecar[k] # None
               PROVE  LET s == sidecar[k] IN
                      /\ dest[k] # None
                      /\ key[s.sha] = k /\ data[s.sha] = "whole"
                      /\ Exclusive(k) => s = [sha |-> dest[k], bytes |-> dest[k]]
    BY DEF SidecarNamesArtifact
  <2>1. PICK m \in Metadata : sidecar[k] = m /\ Describes(m, k)
    BY DEF Sidecars, TypeOK
  <2>2. m.sha \in Uploaders /\ m = [sha |-> m.sha, bytes |-> m.bytes]
    BY DEF Metadata
  <2>3. key[m.sha] = k /\ data[m.sha] = "whole" /\ dest[k] # None
    BY <2>1, <2>2 DEF Describes, Control, Entries, DestExists
  <2>4. ASSUME Exclusive(k) PROVE m.bytes = m.sha /\ dest[k] = m.sha
    BY <2>1, <2>2, <2>3, <2>4 DEF Describes, Keeps
  <2>5. QED
    BY <2>1, <2>2, <2>3, <2>4
<1>2. QED
  BY <1>1, TypeCorrect, ControlInvariant, KeepsInvariant, SidecarsInvariant, PTL

\* Of the calls that contend for a key exactly one succeeds, if none fails or
\* dies and nothing may replace the artifact.
THEOREM OneWinner == Spec => []ExactlyOneWinner
<1>1. TypeOK /\ Control /\ Keeps => ExactlyOneWinner
  <2> SUFFICES ASSUME TypeOK, Control, Keeps, NEW k \in Keys,
                      OnKey(k) # {}, Exclusive(k),
                      \A u \in OnKey(k) : result[u] \in {"success", "exists"}
               PROVE  \E w \in OnKey(k) : \A u \in OnKey(k) :
                        result[u] = "success" <=> u = w
    BY DEF ExactlyOneWinner
  <2>1. PICK u \in OnKey(k) : TRUE
    OBVIOUS
  <2>2. dest[k] # None
    BY DEF OnKey, Control, Progress, Entries, DestExists
  <2>3. dest[k] \in OnKey(k) /\ data[dest[k]] # "absent"
    BY <2>2 DEF TypeOK, OnKey, Control, Entries
  <2>4. result[dest[k]] = "success"
    BY <2>3 DEF OnKey, Control, Progress
  <2>5. ASSUME NEW v \in OnKey(k), result[v] = "success" PROVE v = dest[k]
    BY <2>5 DEF OnKey, Control, Progress, Keeps
  <2>6. QED
    BY <2>3, <2>4, <2>5
<1>2. QED
  BY <1>1, TypeCorrect, ControlInvariant, KeepsInvariant, PTL

\* Unless os.link has a third outcome, no step of a call without force takes
\* the entry of a published artifact.
THEOREM NothingClobbered == Spec => NoClobber
<1> DEFINE Respect == \A k \in Keys :
                        fs # "nolink" /\ dest[k] # None /\ dest'[k] # dest[k]
                          => force[dest'[k]]
<1>1. TypeOK /\ Control /\ [Next]_vars => [Respect]_vars
  <2> SUFFICES ASSUME TypeOK, Control, [Next]_vars PROVE Respect
    OBVIOUS
  <2> USE DEF TypeOK, Control, Fallbacks, DestExists, Goto, Return, At, Publish,
              args, disk
  <2>1. ASSUME NEW u \in Uploaders, Begin(u) PROVE Respect
    BY <2>1 DEF Begin
  <2>2. ASSUME NEW u \in Uploaders, PreCheckRejects(u) PROVE Respect
    BY <2>2 DEF PreCheckRejects
  <2>3. ASSUME NEW u \in Uploaders, NoParent(u) PROVE Respect
    BY <2>3 DEF NoParent
  <2>4. ASSUME NEW u \in Uploaders, OpenTmp(u) PROVE Respect
    BY <2>4 DEF OpenTmp
  <2>5. ASSUME NEW u \in Uploaders, WriteTmp(u) PROVE Respect
    BY <2>5 DEF WriteTmp
  <2>6. ASSUME NEW u \in Uploaders, Replace(u) PROVE Respect
    BY <2>6 DEF Replace
  <2>7. ASSUME NEW u \in Uploaders, Link(u) PROVE Respect
    BY <2>7 DEF Link
  <2>8. ASSUME NEW u \in Uploaders, LinkExists(u) PROVE Respect
    BY <2>8 DEF LinkExists
  <2>9. ASSUME NEW u \in Uploaders, LinkRefused(u) PROVE Respect
    BY <2>9 DEF LinkRefused
  <2>10. ASSUME NEW u \in Uploaders, UnlinkTmp(u) PROVE Respect
    BY <2>10 DEF UnlinkTmp
  <2>11. ASSUME NEW u \in Uploaders, OpenExcl(u) PROVE Respect
    BY <2>11 DEF OpenExcl
  <2>12. ASSUME NEW u \in Uploaders, ExclExists(u) PROVE Respect
    BY <2>12 DEF ExclExists
  <2>13. ASSUME NEW u \in Uploaders, Copy(u) PROVE Respect
    BY <2>13 DEF Copy
  <2>14. ASSUME NEW u \in Uploaders, UnlinkCopied(u) PROVE Respect
    BY <2>14 DEF UnlinkCopied
  <2>15. ASSUME NEW u \in Uploaders, CopyFails(u) PROVE Respect
    BY <2>15 DEF CopyFails
  <2>16. ASSUME NEW u \in Uploaders, Recheck(u) PROVE Respect
    BY <2>16 DEF Recheck
  <2>17. ASSUME NEW u \in Uploaders, RecheckExists(u) PROVE Respect
    BY <2>17 DEF RecheckExists
  <2>18. ASSUME NEW u \in Uploaders, LateReplace(u) PROVE Respect
    BY <2>18 DEF LateReplace
  <2>19. ASSUME NEW u \in Uploaders, Stat(u) PROVE Respect
    BY <2>19 DEF Stat
  <2>20. ASSUME NEW u \in Uploaders, WriteSidecar(u) PROVE Respect
    BY <2>20 DEF WriteSidecar
  <2>21. ASSUME NEW u \in Uploaders, SwapSidecar(u) PROVE Respect
    BY <2>21 DEF SwapSidecar
  <2>22. ASSUME NEW u \in Uploaders, Fail(u) PROVE Respect
    BY <2>22 DEF Fail, Cleaned
  <2>23. ASSUME NEW u \in Uploaders, Crash(u) PROVE Respect
    BY <2>23 DEF Crash
  <2>24. CASE UNCHANGED vars
    BY <2>24 DEF vars
  <2>25. QED
    BY <2>1, <2>2, <2>3, <2>4, <2>5, <2>6, <2>7, <2>8, <2>9, <2>10,
       <2>11, <2>12, <2>13, <2>14, <2>15, <2>16, <2>17, <2>18, <2>19,
       <2>20, <2>21, <2>22, <2>23, <2>24
       DEF Next, Step, Publishing
<1>2. QED
  BY <1>1, TypeCorrect, ControlInvariant, PTL DEF Spec, NoClobber

(***************************************************************************)
(* The refinement of ArtifactStore.                                        *)
(***************************************************************************)

\* A step of u moves u's outcome alone.
LEMMA OutcomeMoves ==
  ASSUME TypeOK, NEW u \in Uploaders,
         \A v \in Uploaders \ {u} :
           pc'[v] = pc[v] /\ result'[v] = result[v] /\ data'[v] = data[v]
  PROVE  Outcomes' = [Outcomes EXCEPT ![u] = Outcome(u)']
<1>1. \A v \in Uploaders \ {u} : Outcome(v)' = Outcome(v)
  BY DEF Outcome
<1>2. QED
  BY <1>1, Zenon DEF Outcomes

\* The three kinds of steps, by what the store sees of them: nothing, the
\* publication, the answer.
LEMMA UnseenStep ==
  ASSUME TypeOK, NEW u \in Uploaders, NEW p,
         pc[u] # "done", p # "done", Goto(u, p),
         \A v \in Uploaders \ {u} : data'[v] = data[v],
         data'[u] = "absent" <=> data[u] = "absent"
  PROVE  Outcomes' = Outcomes
<1>1. \A v \in Uploaders \ {u} : pc'[v] = pc[v] /\ result'[v] = result[v]
  BY DEF Goto, TypeOK
<1>2. Outcome(u)' = Outcome(u)
  BY DEF Goto, TypeOK, Outcome
<1>3. \A v \in Uploaders : Outcome(v)' = Outcome(v)
  BY <1>1, <1>2 DEF Outcome
<1>4. QED
  BY <1>3, Zenon DEF Outcomes

LEMMA PublishingStep ==
  ASSUME TypeOK, NEW u \in Uploaders, NEW p,
         pc[u] # "done", p # "done", Goto(u, p),
         \A v \in Uploaders \ {u} : data'[v] = data[v],
         data[u] = "absent", data'[u] # "absent"
  PROVE  /\ Outcomes[u] = "pending"
         /\ Outcomes' = [Outcomes EXCEPT ![u] = "published"]
<1>1. \A v \in Uploaders \ {u} :
        pc'[v] = pc[v] /\ result'[v] = result[v] /\ data'[v] = data[v]
  BY DEF Goto, TypeOK
<1>2. Outcome(u) = "pending" /\ Outcome(u)' = "published"
  BY DEF Goto, TypeOK, Outcome
<1>3. Outcomes' = [Outcomes EXCEPT ![u] = Outcome(u)']
  BY <1>1, OutcomeMoves, Zenon
<1>4. QED
  BY <1>2, <1>3, Zenon DEF Outcomes

LEMMA AnsweringStep ==
  ASSUME TypeOK, NEW u \in Uploaders, NEW r,
         pc[u] # "done", Return(u, r), UNCHANGED data
  PROVE  /\ Outcomes[u] = IF data[u] = "absent" THEN "pending" ELSE "published"
         /\ Outcomes' = [Outcomes EXCEPT ![u] =
                           CASE r = "success" -> "ok"
                             [] r = "exists" -> "exists"
                             [] OTHER -> "failed"]
<1> DEFINE o == CASE r = "success" -> "ok"
                  [] r = "exists" -> "exists"
                  [] OTHER -> "failed"
<1>1. \A v \in Uploaders \ {u} :
        pc'[v] = pc[v] /\ result'[v] = result[v] /\ data'[v] = data[v]
  BY DEF Return, TypeOK
<1>2. /\ Outcome(u) = IF data[u] = "absent" THEN "pending" ELSE "published"
      /\ Outcome(u)' = o
  BY DEF Return, TypeOK, Outcome
<1>3. Outcomes' = [Outcomes EXCEPT ![u] = Outcome(u)']
  BY <1>1, OutcomeMoves, Zenon
<1> HIDE DEF o
<1>4. /\ Outcomes[u] = IF data[u] = "absent" THEN "pending" ELSE "published"
      /\ Outcomes' = [Outcomes EXCEPT ![u] = o]
  BY <1>2, <1>3, Zenon DEF Outcomes
<1>5. QED
  BY <1>4 DEF o

\* The initial states are those of the store.
LEMMA StoreInit == Init => Store!Init
BY DEF Init, Store!Init, Outcomes, Outcome

\* Uploads behave as puts on the store: each step is one of the store's, or
\* is unseen.
THEOREM Refinement == Spec => ImplementsStore
<1> DEFINE Shows == Store!Next \/ UNCHANGED Store!vars
<1>1. TypeOK /\ Control /\ [Next]_vars => Shows
  <2> SUFFICES ASSUME TypeOK, Control, [Next]_vars PROVE Shows
    OBVIOUS
  <2>a. ASSUME NEW u \in Uploaders, Store!Answer(u) PROVE Shows
    BY <2>a DEF Store!Next
  <2> USE DEF At, args, disk
  <2>1. ASSUME NEW u \in Uploaders, Begin(u) PROVE Shows
    <3>1. Outcomes' = Outcomes
      BY <2>1, UnseenStep DEF Begin, Goto, TypeOK, Content, Control, Progress, TmpWhole
    <3>2. QED
      BY <2>1, <3>1 DEF Begin, Store!vars
  <2>2. ASSUME NEW u \in Uploaders, PreCheckRejects(u) PROVE Shows
    <3>1. data[u] = "absent"
      BY <2>2 DEF PreCheckRejects, Control, Progress
    <3>2. /\ Outcomes[u] = "pending"
          /\ Outcomes' = [Outcomes EXCEPT ![u] = "exists"]
      BY <2>2, <3>1, AnsweringStep DEF PreCheckRejects
    <3>3. Store!Reject(u)
      BY <2>2, <3>1, <3>2 DEF PreCheckRejects, DestExists, Store!Reject, Store!Become
    <3>4. QED
      BY <3>3, <2>a DEF Store!Answer
  <2>3. ASSUME NEW u \in Uploaders, NoParent(u) PROVE Shows
    <3>1. pc[u] # "done" /\ Return(u, "failed") /\ UNCHANGED <<args, data, dest>>
      BY <2>3 DEF NoParent
    <3>2. /\ Outcomes[u] \in {"pending", "published"}
          /\ Outcomes' = [Outcomes EXCEPT ![u] = "failed"]
      BY <3>1, AnsweringStep
    <3>3. Store!Abandon(u)
      BY <3>1, <3>2 DEF Store!Abandon, Store!Become
    <3>4. QED
      BY <3>3, <2>a DEF Store!Answer
  <2>4. ASSUME NEW u \in Uploaders, OpenTmp(u) PROVE Shows
    <3>1. Outcomes' = Outcomes
      BY <2>4, UnseenStep DEF OpenTmp, Goto, TypeOK, Content, Control, Progress, TmpWhole
    <3>2. QED
      BY <2>4, <3>1 DEF OpenTmp, Store!vars
  <2>5. ASSUME NEW u \in Uploaders, WriteTmp(u) PROVE Shows
    <3>1. Outcomes' = Outcomes
      BY <2>5, UnseenStep DEF WriteTmp, Goto, TypeOK, Content, Control, Progress, TmpWhole
    <3>2. QED
      BY <2>5, <3>1 DEF WriteTmp, Store!vars
  <2>6. ASSUME NEW u \in Uploaders, Replace(u) PROVE Shows
    <3>1. data[u] = "absent" /\ tmp[u] = "whole" /\ key[u] \in Keys
      BY <2>6 DEF Replace, TypeOK, Control, Progress, TmpWhole
    <3>2. /\ Outcomes[u] = "pending"
          /\ Outcomes' = [Outcomes EXCEPT ![u] = "published"]
      BY <2>6, <3>1, PublishingStep DEF Replace, Goto, Publish, TypeOK
    <3>3. Store!Put(u)
      BY <2>6, <3>2 DEF Replace, Publish, DestExists, Store!Put, Store!Become
    <3>4. QED
      BY <3>3, <2>a DEF Store!Answer
  <2>7. ASSUME NEW u \in Uploaders, Link(u) PROVE Shows
    <3>1. data[u] = "absent" /\ tmp[u] = "whole" /\ key[u] \in Keys
      BY <2>7 DEF Link, TypeOK, Control, Progress, TmpWhole
    <3>2. /\ Outcomes[u] = "pending"
          /\ Outcomes' = [Outcomes EXCEPT ![u] = "published"]
      BY <2>7, <3>1, PublishingStep DEF Link, Goto, Publish, TypeOK
    <3>3. Store!Put(u)
      BY <2>7, <3>2 DEF Link, Publish, DestExists, Store!Put, Store!Become
    <3>4. QED
      BY <3>3, <2>a DEF Store!Answer
  <2>8. ASSUME NEW u \in Uploaders, LinkExists(u) PROVE Shows
    <3>1. data[u] = "absent"
      BY <2>8 DEF LinkExists, Control, Progress
    <3>2. /\ Outcomes[u] = "pending"
          /\ Outcomes' = [Outcomes EXCEPT ![u] = "exists"]
      BY <2>8, <3>1, AnsweringStep DEF LinkExists
    <3>3. Store!Reject(u)
      BY <2>8, <3>1, <3>2 DEF LinkExists, DestExists, Store!Reject, Store!Become
    <3>4. QED
      BY <3>3, <2>a DEF Store!Answer
  <2>9. ASSUME NEW u \in Uploaders, LinkRefused(u) PROVE Shows
    <3>1. Outcomes' = Outcomes
      BY <2>9, UnseenStep DEF LinkRefused, Goto, TypeOK, Content, Control, Progress, TmpWhole
    <3>2. QED
      BY <2>9, <3>1 DEF LinkRefused, Store!vars
  <2>10. ASSUME NEW u \in Uploaders, UnlinkTmp(u) PROVE Shows
    <3>1. Outcomes' = Outcomes
      BY <2>10, UnseenStep DEF UnlinkTmp, Goto, TypeOK, Content, Control, Progress, TmpWhole
    <3>2. QED
      BY <2>10, <3>1 DEF UnlinkTmp, Store!vars
  <2>11. ASSUME NEW u \in Uploaders, OpenExcl(u) PROVE Shows
    <3>1. data[u] = "absent" /\ key[u] \in Keys
      BY <2>11 DEF OpenExcl, TypeOK, Control, Progress, TmpWhole
    <3>2. /\ Outcomes[u] = "pending"
          /\ Outcomes' = [Outcomes EXCEPT ![u] = "published"]
      BY <2>11, <3>1, PublishingStep DEF OpenExcl, Goto, Publish, TypeOK
    <3>3. Store!Put(u)
      BY <2>11, <3>2 DEF OpenExcl, Publish, DestExists, Store!Put, Store!Become
    <3>4. QED
      BY <3>3, <2>a DEF Store!Answer
  <2>12. ASSUME NEW u \in Uploaders, ExclExists(u) PROVE Shows
    <3>1. data[u] = "absent" /\ ~force[u]
      BY <2>12 DEF ExclExists, Control, Progress, Fallbacks
    <3>2. /\ Outcomes[u] = "pending"
          /\ Outcomes' = [Outcomes EXCEPT ![u] = "exists"]
      BY <2>12, <3>1, AnsweringStep DEF ExclExists
    <3>3. Store!Reject(u)
      BY <2>12, <3>1, <3>2 DEF ExclExists, DestExists, Store!Reject, Store!Become
    <3>4. QED
      BY <3>3, <2>a DEF Store!Answer
  <2>13. ASSUME NEW u \in Uploaders, Copy(u) PROVE Shows
    <3>1. Outcomes' = Outcomes
      BY <2>13, UnseenStep DEF Copy, Goto, TypeOK, Content, Control, Progress, TmpWhole
    <3>2. QED
      BY <2>13, <3>1 DEF Copy, Store!vars
  <2>14. ASSUME NEW u \in Uploaders, UnlinkCopied(u) PROVE Shows
    <3>1. Outcomes' = Outcomes
      BY <2>14, UnseenStep DEF UnlinkCopied, Goto, TypeOK, Content, Control, Progress, TmpWhole
    <3>2. QED
      BY <2>14, <3>1 DEF UnlinkCopied, Store!vars
  <2>15. ASSUME NEW u \in Uploaders, CopyFails(u) PROVE Shows
    <3>1. pc[u] # "done" /\ Return(u, "notAtomic") /\ UNCHANGED <<args, data, dest>>
      BY <2>15 DEF CopyFails
    <3>2. /\ Outcomes[u] \in {"pending", "published"}
          /\ Outcomes' = [Outcomes EXCEPT ![u] = "failed"]
      BY <3>1, AnsweringStep
    <3>3. Store!Abandon(u)
      BY <3>1, <3>2 DEF Store!Abandon, Store!Become
    <3>4. QED
      BY <3>3, <2>a DEF Store!Answer
  <2>16. ASSUME NEW u \in Uploaders, Recheck(u) PROVE Shows
    <3>1. Outcomes' = Outcomes
      BY <2>16, UnseenStep DEF Recheck, Goto, TypeOK, Content, Control, Progress, TmpWhole
    <3>2. QED
      BY <2>16, <3>1 DEF Recheck, Store!vars
  <2>17. ASSUME NEW u \in Uploaders, RecheckExists(u) PROVE Shows
    <3>1. data[u] = "absent" /\ ~force[u]
      BY <2>17 DEF RecheckExists, Control, Progress, Fallbacks
    <3>2. /\ Outcomes[u] = "pending"
          /\ Outcomes' = [Outcomes EXCEPT ![u] = "exists"]
      BY <2>17, <3>1, AnsweringStep DEF RecheckExists
    <3>3. Store!Reject(u)
      BY <2>17, <3>1, <3>2 DEF RecheckExists, DestExists, Store!Reject, Store!Become
    <3>4. QED
      BY <3>3, <2>a DEF Store!Answer
  <2>18. ASSUME NEW u \in Uploaders, LateReplace(u) PROVE Shows
    <3>1. /\ data[u] = "absent" /\ tmp[u] = "whole" /\ key[u] \in Keys
          /\ fs = "nolink"
      BY <2>18 DEF LateReplace, TypeOK, Control, Progress, TmpWhole, Fallbacks
    <3>2. /\ Outcomes[u] = "pending"
          /\ Outcomes' = [Outcomes EXCEPT ![u] = "published"]
      BY <2>18, <3>1, PublishingStep DEF LateReplace, Goto, Publish, TypeOK
    <3>3. Store!Put(u)
      BY <2>18, <3>1, <3>2 DEF LateReplace, Publish, Store!Put, Store!Become
    <3>4. QED
      BY <3>3, <2>a DEF Store!Answer
  <2>19. ASSUME NEW u \in Uploaders, Stat(u) PROVE Shows
    <3>1. Outcomes' = Outcomes
      BY <2>19, UnseenStep DEF Stat, Goto, TypeOK, Content, Control, Progress, TmpWhole
    <3>2. QED
      BY <2>19, <3>1 DEF Stat, Store!vars
  <2>20. ASSUME NEW u \in Uploaders, WriteSidecar(u) PROVE Shows
    <3>1. Outcomes' = Outcomes
      BY <2>20, UnseenStep DEF WriteSidecar, Goto, TypeOK, Content, Control, Progress, TmpWhole
    <3>2. QED
      BY <2>20, <3>1 DEF WriteSidecar, Store!vars
  <2>21. ASSUME NEW u \in Uploaders, SwapSidecar(u) PROVE Shows
    <3>1. data[u] = "whole"
      BY <2>21 DEF SwapSidecar, Control, Progress
    <3>2. /\ Outcomes[u] = "published"
          /\ Outcomes' = [Outcomes EXCEPT ![u] = "ok"]
      BY <2>21, <3>1, AnsweringStep DEF SwapSidecar, TypeOK
    <3>3. Store!Acknowledge(u)
      BY <2>21, <3>2 DEF SwapSidecar, Store!Acknowledge, Store!Become
    <3>4. QED
      BY <3>3, <2>a DEF Store!Answer
  <2>22. ASSUME NEW u \in Uploaders, Fail(u) PROVE Shows
    <3>1. pc[u] # "done" /\ Return(u, "failed") /\ UNCHANGED <<args, data, dest>>
      BY <2>22 DEF Fail, Cleaned
    <3>2. /\ Outcomes[u] \in {"pending", "published"}
          /\ Outcomes' = [Outcomes EXCEPT ![u] = "failed"]
      BY <3>1, AnsweringStep
    <3>3. Store!Abandon(u)
      BY <3>1, <3>2 DEF Store!Abandon, Store!Become
    <3>4. QED
      BY <3>3, <2>a DEF Store!Answer
  <2>23. ASSUME NEW u \in Uploaders, Crash(u) PROVE Shows
    <3>1. pc[u] # "done" /\ Return(u, "crashed") /\ UNCHANGED <<args, data, dest>>
      BY <2>23 DEF Crash
    <3>2. /\ Outcomes[u] \in {"pending", "published"}
          /\ Outcomes' = [Outcomes EXCEPT ![u] = "failed"]
      BY <3>1, AnsweringStep
    <3>3. Store!Abandon(u)
      BY <3>1, <3>2 DEF Store!Abandon, Store!Become
    <3>4. QED
      BY <3>3, <2>a DEF Store!Answer
  <2>24. CASE UNCHANGED vars
    BY <2>24 DEF vars, Store!vars, Outcomes, Outcome
  <2>25. QED
    BY <2>1, <2>2, <2>3, <2>4, <2>5, <2>6, <2>7, <2>8, <2>9, <2>10,
       <2>11, <2>12, <2>13, <2>14, <2>15, <2>16, <2>17, <2>18, <2>19,
       <2>20, <2>21, <2>22, <2>23, <2>24
       DEF Next, Step, Publishing
<1>2. QED
  BY <1>1, StoreInit, TypeCorrect, ControlInvariant, PTL DEF Spec, Store!Spec, ImplementsStore

(***************************************************************************)
(* How far the comments' sentence goes, and that a call comes to its end.  *)
(***************************************************************************)

\* A step of u leaves the other calls, and the volume, where they are.
LEMMA OneCallMoves ==
  ASSUME TypeOK, NEW u \in Uploaders, Step(u) \/ Crash(u)
  PROVE  /\ UNCHANGED args
         /\ \A v \in Uploaders \ {u} : pc'[v] = pc[v] /\ result'[v] = result[v]
                                       /\ tmp'[v] = tmp[v] /\ sideTmp'[v] = sideTmp[v]
                                       /\ data'[v] = data[v]
<1> USE DEF TypeOK, At, Goto, Return, Publish, args, disk
<1>1. CASE Begin(u) \/ PreCheckRejects(u) \/ NoParent(u) \/ OpenTmp(u) \/ WriteTmp(u)
  BY <1>1 DEF Begin, PreCheckRejects, NoParent, OpenTmp, WriteTmp
<1>2. CASE Replace(u) \/ Link(u) \/ LinkExists(u) \/ LinkRefused(u) \/ UnlinkTmp(u)
  BY <1>2 DEF Replace, Link, LinkExists, LinkRefused, UnlinkTmp
<1>3. CASE OpenExcl(u) \/ ExclExists(u) \/ Copy(u) \/ UnlinkCopied(u) \/ CopyFails(u)
  BY <1>3 DEF OpenExcl, ExclExists, Copy, UnlinkCopied, CopyFails
<1>4. CASE Recheck(u) \/ RecheckExists(u) \/ LateReplace(u) \/ Stat(u)
  BY <1>4 DEF Recheck, RecheckExists, LateReplace, Stat
<1>5. CASE WriteSidecar(u) \/ SwapSidecar(u) \/ Fail(u) \/ Crash(u)
  BY <1>5 DEF WriteSidecar, SwapSidecar, Fail, Crash
<1>6. QED
  BY <1>1, <1>2, <1>3, <1>4, <1>5 DEF Step, Publishing

\* The sentence that local_clobber refutes fails for one reason only: a volume on
\* which os.link is refused, and not for its being another one.
THEOREM ClobbersOnlyWithoutLinks == Spec => (fs # "nolink" => NeverClobbers)
<1>1. TypeOK /\ [Next]_vars => UNCHANGED fs
  BY OneCallMoves DEF Next, args, vars
<1>2. Spec /\ fs # "nolink" => [](fs # "nolink")
  <2>1. TypeOK /\ fs # "nolink" /\ [Next]_vars => (fs # "nolink")'
    BY <1>1
  <2>2. QED
    BY <2>1, TypeCorrect, PTL DEF Spec
<1>3. ASSUME fs # "nolink",
             [\A k \in Keys :
                fs # "nolink" /\ dest[k] # None /\ dest'[k] # dest[k] => force[dest'[k]]]_vars
      PROVE  [\A k \in Keys :
                dest[k] # None /\ dest'[k] # dest[k] => force[dest'[k]]]_vars
  BY <1>3
<1>4. QED
  BY <1>2, <1>3, NothingClobbered, PTL DEF NoClobber, NeverClobbers

\* A step of u brings u's end nearer, a further flush of a copy apart.
LEMMA StepCounts ==
  ASSUME TypeOK, Control, NEW u \in Uploaders, Step(u) \/ Crash(u)
  PROVE  StepsLeft(u)' < StepsLeft(u) \/ UNCHANGED vars
<1> USE DEF TypeOK, Points, Content, Control, Progress, At, Goto, Return, Publish, args,
        disk, StepsLeft
<1>1. CASE Begin(u) \/ PreCheckRejects(u) \/ NoParent(u) \/ OpenTmp(u) \/ WriteTmp(u)
  BY <1>1 DEF Begin, PreCheckRejects, NoParent, OpenTmp, WriteTmp
<1>2. CASE Replace(u) \/ Link(u) \/ LinkExists(u) \/ LinkRefused(u) \/ UnlinkTmp(u)
  BY <1>2 DEF Replace, Link, LinkExists, LinkRefused, UnlinkTmp
<1>3. CASE OpenExcl(u) \/ ExclExists(u) \/ UnlinkCopied(u) \/ CopyFails(u)
  BY <1>3 DEF OpenExcl, ExclExists, UnlinkCopied, CopyFails
<1>4. CASE Copy(u)
  BY <1>4 DEF Copy, vars
<1>5. CASE Recheck(u) \/ RecheckExists(u) \/ LateReplace(u) \/ Stat(u)
  BY <1>5 DEF Recheck, RecheckExists, LateReplace, Stat
<1>6. CASE WriteSidecar(u) \/ SwapSidecar(u) \/ Fail(u)
  BY <1>6 DEF WriteSidecar, SwapSidecar, Fail, Cleaned
<1>7. CASE Crash(u)
  BY <1>7 DEF Crash
<1>8. QED
  BY <1>1, <1>2, <1>3, <1>4, <1>5, <1>6, <1>7 DEF Step, Publishing

\* A call has eleven steps at most, and none of them, its own or a rival's, makes
\* it begin again; it waits for nobody, so it ends.
THEOREM NoCallRetries ==
  Spec => [](\A u \in Uploaders : StepsLeft(u) \in 0 .. 11) /\ OnlyForward
<1>1. TypeOK => \A u \in Uploaders : StepsLeft(u) \in 0 .. 11
  BY DEF TypeOK, StepsLeft
<1>2. TypeOK /\ Control /\ [Next]_vars
        => [\E u \in Uploaders :
              /\ StepsLeft(u)' < StepsLeft(u)
              /\ \A v \in Uploaders \ {u} : StepsLeft(v)' = StepsLeft(v)]_vars
  <2> SUFFICES ASSUME TypeOK, Control, Next, ~UNCHANGED vars
               PROVE  \E u \in Uploaders :
                        /\ StepsLeft(u)' < StepsLeft(u)
                        /\ \A v \in Uploaders \ {u} : StepsLeft(v)' = StepsLeft(v)
    OBVIOUS
  <2>1. PICK u \in Uploaders : Step(u) \/ Crash(u)
    BY DEF Next
  <2>2. StepsLeft(u)' < StepsLeft(u)
    BY <2>1, StepCounts
  <2>3. \A v \in Uploaders \ {u} : StepsLeft(v)' = StepsLeft(v)
    BY <2>1, OneCallMoves DEF StepsLeft
  <2>4. QED
    BY <2>2, <2>3
<1>3. QED
  BY <1>1, <1>2, TypeCorrect, ControlInvariant, PTL DEF Spec, OnlyForward

\* Which temporary files there are, by where a call is.
Temporaries ==
  \A u \in Uploaders :
    /\ pc[u] \in {"begin", "open"} => tmp[u] = "absent"
    /\ pc[u] = "unlink" => fs # "exdev"
    /\ pc[u] \in {"stat", "sidecar", "swap"} /\ tmp[u] # "absent" =>
         tmp[u] = "whole" /\ fs # "exdev" /\ ~force[u]
    /\ sideTmp[u] => pc[u] = "swap" \/ result[u] \in {"failed", "crashed"}

\* What a call leaves of its temporary files is what LeftoversExplained says: only
\* the loser of a race and a copy that broke off leave one without being killed or
\* hindered.
THEOREM NothingElseLeft == Spec => []LeftoversExplained
<1>1. Init => Temporaries /\ LeftoversExplained
  BY DEF Init, Temporaries, LeftoversExplained
<1>2. TypeOK /\ Control /\ Temporaries /\ LeftoversExplained /\ [Next]_vars
        => Temporaries' /\ LeftoversExplained'
  <2> SUFFICES ASSUME TypeOK, Control, Temporaries, LeftoversExplained, [Next]_vars
               PROVE  Temporaries' /\ LeftoversExplained'
    OBVIOUS
  <2>1. ASSUME NEW u \in Uploaders, Step(u) \/ Crash(u)
        PROVE  Temporaries' /\ LeftoversExplained'
    <3>1. /\ UNCHANGED args
          /\ \A v \in Uploaders \ {u} : pc'[v] = pc[v] /\ result'[v] = result[v]
                                        /\ tmp'[v] = tmp[v] /\ sideTmp'[v] = sideTmp[v]
      BY <2>1, OneCallMoves
    <3>2. SUFFICES /\ pc'[u] \in {"begin", "open"} => tmp'[u] = "absent"
                   /\ pc'[u] = "unlink" => fs # "exdev"
                   /\ pc'[u] \in {"stat", "sidecar", "swap"} /\ tmp'[u] # "absent" =>
                        tmp'[u] = "whole" /\ fs # "exdev" /\ ~force[u]
                   /\ sideTmp'[u] => pc'[u] = "swap" \/ result'[u] \in {"failed", "crashed"}
                   /\ pc'[u] = "done" /\ result'[u] \notin {"failed", "crashed"} =>
                        /\ ~sideTmp'[u]
                        /\ tmp'[u] # "absent" =>
                             /\ tmp'[u] = "whole"
                             /\ result'[u] = "success" => fs # "exdev" /\ ~force[u]
      BY <3>1 DEF Temporaries, LeftoversExplained, args
    <3> USE DEF TypeOK, Points, Content, Results, Control, Fallbacks, TmpWhole,
            ResultAtEnd, Temporaries, At, Goto, Return, Publish, args, disk
    <3>3. CASE Begin(u) \/ PreCheckRejects(u) \/ NoParent(u)
      BY <3>3 DEF Begin, PreCheckRejects, NoParent
    <3>4. CASE OpenTmp(u) \/ WriteTmp(u)
      BY <3>4 DEF OpenTmp, WriteTmp
    <3>5. CASE Replace(u) \/ UnlinkCopied(u) \/ LateReplace(u)
      <4>1. /\ pc'[u] = "stat" /\ tmp'[u] = "absent"
            /\ sideTmp'[u] = sideTmp[u] /\ pc[u] \notin {"swap", "done"}
        <5>1. CASE Replace(u)
          BY <5>1 DEF Replace
        <5>2. CASE UnlinkCopied(u)
          BY <5>2 DEF UnlinkCopied
        <5>3. CASE LateReplace(u)
          BY <5>3 DEF LateReplace
        <5>4. QED
          BY <3>5, <5>1, <5>2, <5>3
      <4>2. result[u] = "running"
        BY <4>1
      <4>3. ~sideTmp[u]
        BY <4>1, <4>2
      <4>4. QED
        BY <4>1, <4>3
    <3>6. CASE Link(u)
      BY <3>6 DEF Link
    <3>7. CASE LinkExists(u) \/ LinkRefused(u)
      BY <3>7 DEF LinkExists, LinkRefused
    <3>8. CASE UnlinkTmp(u)
      BY <3>8 DEF UnlinkTmp
    <3>9. CASE OpenExcl(u) \/ ExclExists(u)
      BY <3>9 DEF OpenExcl, ExclExists
    <3>10. CASE Copy(u)
      BY <3>10 DEF Copy
    <3>11. CASE CopyFails(u)
      BY <3>11 DEF CopyFails
    <3>12. CASE Recheck(u) \/ RecheckExists(u)
      BY <3>12 DEF Recheck, RecheckExists
    <3>13. CASE Stat(u) \/ WriteSidecar(u)
      BY <3>13 DEF Stat, WriteSidecar
    <3>14. CASE SwapSidecar(u)
      BY <3>14 DEF SwapSidecar
    <3>15. CASE Fail(u)
      BY <3>15 DEF Fail, Cleaned
    <3>16. CASE Crash(u)
      BY <3>16 DEF Crash
    <3>17. QED
      BY <2>1, <3>3, <3>4, <3>5, <3>6, <3>7, <3>8, <3>9,
         <3>10, <3>11, <3>12, <3>13, <3>14, <3>15, <3>16
         DEF Step, Publishing
  <2>2. CASE UNCHANGED vars
    BY <2>2 DEF vars, Temporaries, LeftoversExplained
  <2>3. QED
    BY <2>1, <2>2 DEF Next
<1>3. QED
  BY <1>1, <1>2, TypeCorrect, ControlInvariant, PTL DEF Spec

(***************************************************************************)
(* What the abstract store guarantees, LocalStorage inherits.              *)
(***************************************************************************)

Inherited == INSTANCE ArtifactStoreProofs
               WITH store <- dest, outcome <- Outcomes, exclusive <- fs # "nolink"

\* From the moment an upload publishes its artifact, and not only once it is
\* acknowledged, the artifact of a key nobody forces stays, where os.link works or
\* says EXDEV: proved of the abstract store, and carried over by the refinement.
THEOREM PublishedStays == Spec => []Store!PutOnce
<1>1. Inherited!Spec => []Inherited!PutOnce
  <2>1. None \notin Uploaders
    BY NoneAssumption
  <2>2. QED
    BY <2>1, Inherited!PutsOnce
<1>2. Store!Spec => Inherited!Spec
  <2>1. Store!Init => Inherited!Init
    BY DEF Store!Init, Inherited!Init
  <2>2. [Store!Next]_Store!vars => [Inherited!Next]_Inherited!vars
    BY DEF Store!Next, Store!vars, Store!Answer, Store!Put, Store!Acknowledge,
           Store!Reject, Store!Abandon, Store!Become,
           Inherited!Next, Inherited!vars, Inherited!Answer, Inherited!Put,
           Inherited!Acknowledge, Inherited!Reject, Inherited!Abandon, Inherited!Become
  <2>3. QED
    BY <2>1, <2>2, PTL DEF Store!Spec, Inherited!Spec
<1>3. Inherited!PutOnce => Store!PutOnce
  BY DEF Inherited!PutOnce, Store!PutOnce
<1>4. QED
  BY <1>1, <1>2, <1>3, Refinement, PTL DEF ImplementsStore

=============================================================================
