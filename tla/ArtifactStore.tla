---------------------------- MODULE ArtifactStore ----------------------------
(***************************************************************************)
(* What StorageBackend.upload promises (storage/base.py, and "fail-if-     *)
(* exists unless force" of storage/local.py): a put takes effect in one    *)
(* step and is answered later, with an error if the key was taken and the  *)
(* put was not forced.  A store that is not exclusive may miss that the    *)
(* key was taken meanwhile.  How files, links and sidecars bring this      *)
(* about is LocalStorage's business.                                       *)
(***************************************************************************)

CONSTANTS
  Uploaders,  \* the puts
  Keys,
  Flags,      \* the values the force flag takes
  None        \* a key without an artifact

VARIABLES
  key,      \* key[u], force[u]: the arguments of put u
  force,
  exclusive,  \* whether the store can tell that a key is taken while it puts
  store,    \* store[k]: the put whose artifact key k holds, or None
  outcome   \* outcome[u]: how far put u is, or how it was answered

vars == <<key, force, exclusive, store, outcome>>

Outcomes == {"pending", "published", "ok", "exists", "failed"}

TypeOK ==
  /\ key \in [Uploaders -> Keys]
  /\ force \in [Uploaders -> Flags]
  /\ exclusive \in BOOLEAN
  /\ store \in [Keys -> Uploaders \union {None}]
  /\ outcome \in [Uploaders -> Outcomes]

Init ==
  /\ key \in [Uploaders -> Keys]
  /\ force \in [Uploaders -> Flags]
  /\ exclusive \in BOOLEAN
  /\ store = [k \in Keys |-> None]
  /\ outcome = [u \in Uploaders |-> "pending"]

Become(u, from, to) ==
  /\ outcome[u] = from
  /\ outcome' = [outcome EXCEPT ![u] = to]
  /\ UNCHANGED <<key, force, exclusive>>

Put(u) ==
  /\ Become(u, "pending", "published")
  /\ force[u] \/ ~exclusive \/ store[key[u]] = None
  /\ store' = [store EXCEPT ![key[u]] = u]

Acknowledge(u) ==
  /\ Become(u, "published", "ok")
  /\ UNCHANGED store

Reject(u) ==
  /\ Become(u, "pending", "exists")
  /\ ~force[u]
  /\ store[key[u]] # None
  /\ UNCHANGED store

\* An error or a crash, before or after the artifact was stored.
Abandon(u) ==
  /\ Become(u, "pending", "failed") \/ Become(u, "published", "failed")
  /\ UNCHANGED store

Answer(u) == Put(u) \/ Acknowledge(u) \/ Reject(u) \/ Abandon(u)

Next == \E u \in Uploaders : Answer(u)

Spec == Init /\ [][Next]_vars

\* Among the puts of a key that nobody forces, at most one is stored or was
\* acknowledged, and an exclusive store holds it.
PutOnce ==
  exclusive =>
  \A u \in Uploaders :
    /\ outcome[u] \in {"published", "ok"}
    /\ \A v \in Uploaders : key[v] = key[u] => ~force[v]
    => store[key[u]] = u

=============================================================================
