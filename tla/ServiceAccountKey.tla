------------------------- MODULE ServiceAccountKey -------------------------
(***************************************************************************)
(* The ServiceAccountKey controller.  The service chooses the id of a key, *)
(* so the id has to be recorded in the object's external-name annotation   *)
(* after the key was made, and the private half of a key is only in the    *)
(* answer to its creation.  Keys are numbered in the order they are made.  *)
(*                                                                         *)
(* One replica.  A fault is something the sequence create, record, publish *)
(* is not protected from: a failure or restart inside it, or a copy of the *)
(* object from before the last id was recorded.  The spec counts them, and *)
(* the properties say what a bounded number of them can do.                *)
(***************************************************************************)
EXTENDS Naturals, FiniteSets

CONSTANTS
  MaxFaults,   \* bound on faults
  MaxForeign,  \* bound on deletions of the recorded key by somebody else
  MaxKeys      \* bound on keys made

ASSUME KeyAssumption == MaxFaults \in Nat /\ MaxForeign \in Nat /\ MaxKeys \in Nat

VARIABLES
  cr,      \* the object in the API server
  cache,   \* the provider's informer cache of it
  worker,  \* the provider's worker
  keys,    \* the account's keys
  made,    \* how many keys were made
  secret,  \* whose public and private halves the connection secret holds
  faults, foreign,
  lost     \* history: the keys whose Create answer never reached the secret

vars == <<cr, cache, worker, keys, made, secret, faults, foreign, lost>>

NoKey == 0
Key == 1..MaxKeys
OptKey == 0..MaxKeys
\* asks: spec.publicKeyType asks for the public half.
CR == [state : {"new", "managed", "deleting", "gone"}, externalName : OptKey, asks : BOOLEAN]

\* seen: the copy of the object; key: what Create made and has not handed on.
Idle == [pc |-> "idle"]
Busy == [pc : {"observe", "publishObserved", "finalizer", "create", "record",
               "publishCreated", "delete", "unfinalize"},
         seen : CR, key : OptKey]

TypeOK ==
  /\ cr \in CR /\ cache \in CR
  /\ worker \in Busy \cup {Idle}
  /\ keys \subseteq Key /\ made \in OptKey
  /\ secret \in [public : OptKey, private : OptKey]
  /\ faults \in 0..MaxFaults /\ foreign \in 0..MaxForeign
  /\ lost \subseteq Key

Init ==
  /\ cr \in [state : {"new"}, externalName : {NoKey}, asks : BOOLEAN]
  /\ cache = cr
  /\ worker = Idle
  /\ keys = {} /\ made = 0
  /\ secret = [public |-> NoKey, private |-> NoKey]
  /\ faults = 0 /\ foreign = 0 /\ lost = {}

-----------------------------------------------------------------------------
(***************************************************************************)
(* The user, the watch and other clients of the service.                   *)
(***************************************************************************)
DeleteCR ==
  /\ cr.state \in {"new", "managed"}
  /\ cr' = [cr EXCEPT !.state = IF @ = "new" THEN "gone" ELSE "deleting"]
  /\ UNCHANGED <<cache, worker, keys, made, secret, faults, foreign, lost>>

\* The user edits spec.publicKeyType.
EditPublicKeyType ==
  /\ cr.state \in {"new", "managed"}
  /\ cr' = [cr EXCEPT !.asks = ~@]
  /\ UNCHANGED <<cache, worker, keys, made, secret, faults, foreign, lost>>

Sync ==
  /\ cache # cr
  /\ cache' = cr
  /\ UNCHANGED <<cr, worker, keys, made, secret, faults, foreign, lost>>

ForeignDelete ==
  /\ foreign < MaxForeign
  /\ cr.externalName \in keys
  /\ keys' = keys \ {cr.externalName}
  /\ foreign' = foreign + 1
  /\ UNCHANGED <<cr, cache, worker, made, secret, faults, lost>>

-----------------------------------------------------------------------------
(***************************************************************************)
(* The worker.                                                             *)
(***************************************************************************)
At(pc) == worker.pc = pc
Goto(pc) == worker' = [worker EXCEPT !.pc = pc]

Begin ==
  /\ At("idle")
  /\ cache.state # "gone"
  /\ worker' = [pc |-> "observe", seen |-> cache, key |-> NoKey]
  /\ UNCHANGED <<cr, cache, keys, made, secret, faults, foreign, lost>>

\* A failure, a lost answer or a restart; a fault when Create's key is lost
\* with it.
Fail ==
  /\ ~At("idle")
  /\ worker' = Idle
  /\ IF worker.key = NoKey THEN UNCHANGED <<faults, lost>>
     ELSE faults < MaxFaults /\ faults' = faults + 1 /\ lost' = lost \cup {worker.key}
  /\ UNCHANGED <<cr, cache, keys, made, secret, foreign>>

\* Mutated: a key of an object that is being deleted is not looked for.
ExistsIfLive(seen) == seen.externalName \in keys /\ seen.state # "deleting"
\* Observe: no external name, or a key the service does not know, is no key.
Exists(seen) == seen.externalName \in keys

\* Mutated: a key is out of date, and Update has to be called.
ObserveOutdated ==
  /\ At("observe")
  /\ Goto(IF worker.seen.state = "deleting"
            THEN IF Exists(worker.seen) THEN "delete" ELSE "unfinalize"
          ELSE IF Exists(worker.seen) THEN "update"
          ELSE IF worker.seen.state = "new" THEN "finalizer" ELSE "create")
  /\ UNCHANGED <<cr, cache, keys, made, secret, faults, foreign, lost>>

\* A key that exists is up to date: it is never updated.
Observe ==
  /\ At("observe")
  /\ Goto(IF worker.seen.state = "deleting"
            THEN IF Exists(worker.seen) THEN "delete" ELSE "unfinalize"
          ELSE IF Exists(worker.seen) THEN "publishObserved"
          ELSE IF worker.seen.state = "new" THEN "finalizer" ELSE "create")
  /\ UNCHANGED <<cr, cache, keys, made, secret, faults, foreign, lost>>

\* Mutated: no connection details.
ObservedNothing(seen) == secret
\* getConnectionDetails of the answer to Get: the public half, if the spec asks
\* for it.
ObservedDetails(seen) ==
  IF seen.asks THEN [secret EXCEPT !.public = seen.externalName] ELSE secret

\* The details are published over those in the secret; with that the reconcile
\* ends.
PublishObserved ==
  /\ At("publishObserved")
  /\ secret' = ObservedDetails(worker.seen)
  /\ worker' = Idle
  /\ UNCHANGED <<cr, cache, keys, made, faults, foreign, lost>>

AddFinalizer ==
  /\ At("finalizer")
  /\ cr = worker.seen
  /\ cr' = [cr EXCEPT !.state = "managed"]
  /\ worker' = [worker EXCEPT !.pc = "create", !.seen = cr']
  /\ UNCHANGED <<cache, keys, made, secret, faults, foreign, lost>>

\* The secret is owned by the object and goes with it.
RemoveFinalizer ==
  /\ At("unfinalize")
  /\ cr = worker.seen
  /\ cr' = [cr EXCEPT !.state = "gone"]
  /\ secret' = [public |-> NoKey, private |-> NoKey]
  /\ worker' = Idle
  /\ UNCHANGED <<cache, keys, made, faults, foreign, lost>>

\* Mutated: the external name is not set.
CreateForgetsName ==
  /\ At("create") /\ made < MaxKeys
  /\ made' = made + 1
  /\ keys' = keys \cup {made + 1}
  /\ worker' = [worker EXCEPT !.pc = "publishCreated", !.key = made + 1]
  /\ IF cr.externalName \in keys THEN faults < MaxFaults /\ faults' = faults + 1
     ELSE UNCHANGED faults
  /\ UNCHANGED <<cr, cache, secret, foreign, lost>>

\* Create makes a key whatever is there: a fault when the object has one that
\* the copy does not name.
Create ==
  /\ At("create") /\ made < MaxKeys
  /\ made' = made + 1
  /\ keys' = keys \cup {made + 1}
  /\ worker' = [worker EXCEPT !.pc = "record", !.key = made + 1]
  /\ IF cr.externalName \in keys THEN faults < MaxFaults /\ faults' = faults + 1
     ELSE UNCHANGED faults
  /\ UNCHANGED <<cr, cache, secret, foreign, lost>>

\* The reconciler, told that Create assigned the external name, reads the
\* object again, from the cache, and stores the name; a conflict is retried
\* until the cache has caught up, or ends in Fail.
RecordExternalName ==
  /\ At("record")
  /\ cache = cr
  /\ cr' = [cr EXCEPT !.externalName = worker.key]
  /\ worker' = [worker EXCEPT !.pc = "publishCreated", !.seen = cr']
  /\ UNCHANGED <<cache, keys, made, secret, faults, foreign, lost>>

\* Mutated: a private half that the secret has already is kept.
CreatedIfNone(key) == IF secret.private = NoKey THEN [secret EXCEPT !.private = key] ELSE secret
\* getConnectionDetails of the answer to Create: the private half; the public
\* one comes with Get only, and the secret keeps what it has of it.
CreatedDetails(key) == [secret EXCEPT !.private = key]

PublishCreated ==
  /\ At("publishCreated")
  /\ secret' = CreatedDetails(worker.key)
  /\ worker' = Idle
  /\ UNCHANGED <<cr, cache, keys, made, faults, foreign, lost>>

\* Mutated: Delete does nothing, as Update does.
DeleteNothing ==
  /\ At("delete")
  /\ worker' = Idle
  /\ UNCHANGED <<cr, cache, keys, made, secret, faults, foreign, lost>>

\* Delete takes a key that has gone already for deleted.
Delete ==
  /\ At("delete")
  /\ keys' = keys \ {worker.seen.externalName}
  /\ worker' = Idle
  /\ UNCHANGED <<cr, cache, made, secret, faults, foreign, lost>>

WorkerStep ==
  \/ Observe \/ PublishObserved \/ AddFinalizer \/ RemoveFinalizer
  \/ Create \/ RecordExternalName \/ PublishCreated \/ Delete

Next == DeleteCR \/ EditPublicKeyType \/ Sync \/ ForeignDelete \/ Begin \/ Fail \/ WorkerStep

Spec == Init /\ [][Next]_vars

-----------------------------------------------------------------------------
(***************************************************************************)
(* Properties.                                                             *)
(***************************************************************************)

\* Keys that exist and that neither the object nor the worker knows of.
Leaked == keys \ ({cr.externalName} \cup (IF At("idle") THEN {} ELSE {worker.key}))

\* Create is not idempotent (serviceaccountkey.go:184), and a key that is not
\* recorded is never deleted: at most one key leaks per fault, so that keys
\* made again after a lost key, a deletion or a failed call do not pile up.
LeaksNeedFaults == Cardinality(Leaked) <= faults

\* The recorded key does not outlive its object, whatever the cache, the
\* failures and the restarts before: Observe looks the key up again before the
\* finalizer goes.
RecordedKeyDeleted == cr.state = "gone" => cr.externalName \notin keys

\* The private half can be published only by the reconcile that made the key
\* (serviceaccountkey.go:266).  Whenever the worker rests on an object with a
\* key, the secret has the private half of that key, also when it is the
\* successor of one that somebody deleted or that a stale copy did not name:
\* only the answer to this key's own creation, lost by a failure, is missing for
\* good, and no failure before or after takes the private half away again.
SecretHoldsKey ==
  At("idle") /\ cr.externalName # NoKey /\ cr.state # "gone" =>
    secret.private = cr.externalName \/ cr.externalName \in lost

-----------------------------------------------------------------------------
(***************************************************************************)
(* Fairness, as for the other controllers.                                 *)
(***************************************************************************)
Fairness ==
  /\ WF_vars(Sync)
  /\ WF_vars(Begin)
  /\ []<>At("idle")
  /\ <>[][Fail /\ ENABLED WorkerStep => WorkerStep]_vars

FairSpec == Spec /\ Fairness

\* A deleted object is let go in the end, also when it never got a key or its
\* key was deleted by somebody else.
KeyDeletionEnds == cr.state = "deleting" ~> cr.state = "gone"

\* The public half is published by a later reconcile than the private half, if
\* the spec asks for it (serviceaccountkey.go:129): as long as it does and the
\* key is there, the secret has, again and again, the public half of the key the
\* object names, whichever keys were made and lost before it.
PublicHalfFollows ==
  []<>(cr.state = "managed" /\ cr.asks /\ cr.externalName \in keys =>
         secret.public = cr.externalName)
=============================================================================
