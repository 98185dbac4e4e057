------------------------ MODULE ArtifactStoreProofs ------------------------
(***************************************************************************)
(* What every implementation of ArtifactStore inherits.                    *)
(***************************************************************************)

EXTENDS ArtifactStore, TLAPS

Taken == {"published", "ok"}  \* how far a put is that took effect

\* An answer changes the state of its own put; only a put that takes effect changes
\* the store, and no other answer makes a put take effect.
LEMMA AnswerMoves ==
  ASSUME TypeOK, NEW u \in Uploaders, Answer(u)
  PROVE  /\ UNCHANGED <<key, force, exclusive>>
         /\ \E o \in Outcomes : outcome' = [outcome EXCEPT ![u] = o]
         /\ \/ store' = [store EXCEPT ![key[u]] = u]
            \/ /\ UNCHANGED store
               /\ outcome'[u] \in Taken => outcome[u] \in Taken
<1> USE DEF Become, Outcomes, Taken, TypeOK
<1>1. CASE Put(u) \/ Acknowledge(u)
  BY <1>1 DEF Put, Acknowledge
<1>2. CASE Reject(u)
  BY <1>2 DEF Reject
<1>3. CASE Abandon(u)
  BY <1>3 DEF Abandon
<1>4. QED
  BY <1>1, <1>2, <1>3 DEF Answer

LEMMA TypeCorrect == Spec => []TypeOK
<1>1. ASSUME TypeOK, NEW u \in Uploaders, Answer(u)
      PROVE  TypeOK'
  BY <1>1, AnswerMoves DEF TypeOK
<1>2. TypeOK /\ UNCHANGED vars => TypeOK'
  BY DEF TypeOK, vars
<1>3. Init => TypeOK
  BY DEF Init, TypeOK, Outcomes
<1>4. TypeOK /\ [Next]_vars => TypeOK'
  BY <1>1, <1>2 DEF Next
<1>5. QED
  BY <1>3, <1>4, PTL DEF Spec

\* Where the store is exclusive, a put that took effect on a key nobody forces
\* is never displaced, so two such puts of one key never both take effect.
THEOREM PutsOnce ==
  ASSUME None \notin Uploaders
  PROVE  Spec => []PutOnce
<1>1. ASSUME TypeOK, PutOnce, NEW u \in Uploaders, Answer(u)
      PROVE  PutOnce'
  \* Who takes effect on an exclusive store finds its key empty, and then nobody
  \* whose key it is took effect before.
  <2>1. CASE exclusive /\ Put(u)
    <3>1. /\ UNCHANGED <<key, force, exclusive>>
          /\ outcome' = [outcome EXCEPT ![u] = "published"]
          /\ store' = [store EXCEPT ![key[u]] = u]
          /\ force[u] \/ store[key[u]] = None
      BY <2>1 DEF Put, Become
    <3>2. ASSUME NEW v \in Uploaders, v # u, key[v] = key[u], ~force[u],
                 outcome[v] \in Taken
          PROVE  \E w \in Uploaders : key[w] = key[v] /\ force[w]
      BY <1>1, <2>1, <3>1, <3>2 DEF PutOnce, Taken
    <3>3. QED
      BY <1>1, <2>1, <3>1, <3>2 DEF PutOnce, TypeOK, Taken
  <2>2. CASE exclusive /\ ~Put(u)
    <3>1. /\ UNCHANGED <<key, force, exclusive, store>>
          /\ \A v \in Uploaders : outcome'[v] \in Taken => outcome[v] \in Taken
      BY <1>1, <2>2 DEF Answer, Acknowledge, Reject, Abandon, Become, Taken, TypeOK
    <3>2. QED
      BY <1>1, <3>1 DEF PutOnce, Taken
  <2>3. CASE ~exclusive
    <3>1. ~exclusive'
      BY <1>1, <2>3, AnswerMoves, Zenon
    <3>2. QED
      BY <3>1, Zenon DEF PutOnce
  <2>4. QED
    BY <2>1, <2>2, <2>3, Zenon
<1>2. PutOnce /\ UNCHANGED vars => PutOnce'
  BY DEF PutOnce, vars
<1>3. Init => PutOnce
  BY DEF Init, PutOnce
<1>4. TypeOK /\ PutOnce /\ [Next]_vars => PutOnce'
  BY <1>1, <1>2 DEF Next
<1>5. QED
  BY <1>3, <1>4, TypeCorrect, PTL DEF Spec

=============================================================================
