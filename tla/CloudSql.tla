------------------------------ MODULE CloudSql ------------------------------
(***************************************************************************)
(* The CloudSQLInstance controller: one custom resource, its instance, and *)
(* the connection secret.  The root password is generated by Create, goes  *)
(* to the service with the new instance, and is published only from        *)
(* Create's result: no later reconcile can read it back.                   *)
(*                                                                         *)
(* Replicas are provider processes; leader election is off by default.     *)
(***************************************************************************)
EXTENDS Naturals

CONSTANTS
  Replicas,
  Values, Unset,  \* what users set the one parameter to that stands for all
  Default,        \* what the service gives it when the request leaves it out
  MaxChanges,     \* bound on spec edits and on deletions of the instance by somebody else
  MaxCreates      \* bound on instances created, hence on passwords

Opt == Values \cup {Default, Unset}

ASSUME CloudSqlAssumption ==
  /\ Unset \notin Values \cup {Default}
  /\ MaxChanges \in Nat /\ MaxCreates \in Nat

VARIABLES
  cr,        \* the object in the API server
  cache,     \* each replica's informer cache of it
  worker,    \* each replica's worker
  inst,      \* the instance in the service
  secret,    \* the password in the connection secret
  passwords, \* how many passwords instances were created with
  edits, foreign

vars == <<cr, cache, worker, inst, secret, passwords, edits, foreign>>

\* tagged: spec.forProvider.settings.userLabels has the external tags.
CR == [state : {"new", "managed", "deleting", "gone"}, tagged : BOOLEAN, param : Opt]

NoPassword == 0
State == {"NONE", "PENDING_CREATE", "RUNNABLE"}
Instance == [state : State, tagged : BOOLEAN, param : Opt, password : 0..MaxCreates]
NoInstance == [state |-> "NONE", tagged |-> FALSE, param |-> Unset, password |-> NoPassword]

\* seen: the object as last read or written; mem: the copy being worked on;
\* observed: status.atProvider.state in that copy, which the object's own
\* never replaces, because Observe sets it after its last Update.
Idle == [pc |-> "idle"]
Busy == [pc : {"init", "observe", "lateInit", "finalizer", "create", "publish", "update",
               "delete", "unfinalize"},
         next : {"create", "update", "delete", "idle"},
         seen : CR, mem : CR, observed : State, password : 0..MaxCreates]

TypeOK ==
  /\ cr \in CR
  /\ cache \in [Replicas -> CR]
  /\ worker \in [Replicas -> Busy \cup {Idle}]
  /\ inst \in Instance
  /\ secret \in 0..MaxCreates
  /\ passwords \in 0..MaxCreates
  /\ edits \in 0..MaxChanges /\ foreign \in 0..MaxChanges

-----------------------------------------------------------------------------
(***************************************************************************)
(* pkg/clients/cloudsql.                                                   *)
(***************************************************************************)

\* Mutated: what the spec does not set is sent as the empty string.
GenerateEmpty(spec, base) == IF spec = Unset THEN "" ELSE spec
\* GenerateDatabaseInstance, with what a request does: for what the spec does not
\* set it writes a zero, which JSON omits, so that the service keeps what it has.
\* A comparison never meets this case: the spec has been filled in by then.
GenerateDatabaseInstance(spec, base) == IF spec = Unset THEN base ELSE spec

\* Of the observation, only the state is ever read again.
GenerateObservation(i) == i.state

LateInitializeSpec(spec, observed) == IF spec = Unset THEN observed ELSE spec

\* The labels are compared with the parameters.
IsUpToDate(mem, i) ==
  /\ GenerateDatabaseInstance(mem.param, i.param) = i.param
  /\ mem.tagged = i.tagged

-----------------------------------------------------------------------------
Init ==
  /\ cr = [state |-> "new", tagged |-> FALSE, param |-> Unset]
  /\ cache = [r \in Replicas |-> cr]
  /\ worker = [r \in Replicas |-> Idle]
  /\ inst = NoInstance
  /\ secret = NoPassword /\ passwords = 0
  /\ edits = 0 /\ foreign = 0

(***************************************************************************)
(* The user, the watch and the service.                                    *)
(***************************************************************************)

\* An edit of the spec may drop the tags: kubectl replace, a GitOps tool.
EditSpec ==
  /\ cr.state \in {"new", "managed"} /\ edits + foreign < MaxChanges
  /\ \E v \in Values : cr' = [cr EXCEPT !.param = v, !.tagged = FALSE]
  /\ edits' = edits + 1
  /\ UNCHANGED <<cache, worker, inst, secret, passwords, foreign>>

DeleteCR ==
  /\ cr.state \in {"new", "managed"}
  /\ cr' = [cr EXCEPT !.state = IF @ = "new" THEN "gone" ELSE "deleting"]
  /\ UNCHANGED <<cache, worker, inst, secret, passwords, edits, foreign>>

Sync(r) ==
  /\ cache[r] # cr
  /\ cache' = [cache EXCEPT ![r] = cr]
  /\ UNCHANGED <<cr, worker, inst, secret, passwords, edits, foreign>>

FinishCreation ==
  /\ inst.state = "PENDING_CREATE"
  /\ inst' = [inst EXCEPT !.state = "RUNNABLE"]
  /\ UNCHANGED <<cr, cache, worker, secret, passwords, edits, foreign>>

ForeignDelete ==
  /\ inst.state = "RUNNABLE" /\ edits + foreign < MaxChanges
  /\ inst' = NoInstance
  /\ foreign' = foreign + 1
  /\ UNCHANGED <<cr, cache, worker, secret, passwords, edits>>

(***************************************************************************)
(* The worker of replica r.                                                *)
(***************************************************************************)
At(r, pc) == worker[r].pc = pc
Goto(r, pc) == worker' = [worker EXCEPT ![r].pc = pc]
Done(r) == worker' = [worker EXCEPT ![r] = Idle]

\* Refused when the object is not the one seen; the response replaces the copy.
UpdateObject(r, new, pc) ==
  /\ cr = worker[r].seen
  /\ cr' = new
  /\ worker' = [worker EXCEPT ![r] = [@ EXCEPT !.pc = pc, !.seen = new, !.mem = new]]

Begin(r) ==
  /\ At(r, "idle")
  /\ cache[r].state # "gone"
  /\ worker' = [worker EXCEPT ![r] =
       [pc |-> "init", next |-> "idle", seen |-> cache[r], mem |-> cache[r],
        observed |-> "NONE", password |-> NoPassword]]
  /\ UNCHANGED <<cr, cache, inst, secret, passwords, edits, foreign>>

\* A call fails, its answer is lost, or the process restarts.
Fail(r) ==
  /\ ~At(r, "idle")
  /\ Done(r)
  /\ UNCHANGED <<cr, cache, inst, secret, passwords, edits, foreign>>

\* Mutated: only an object without the finalizer is tagged.
InitializeNew(r) ==
  /\ At(r, "init")
  /\ UpdateObject(r, [cr EXCEPT !.tagged = @ \/ cr.state = "new"], "observe")
  /\ UNCHANGED <<cache, inst, secret, passwords, edits, foreign>>

\* cloudsqlTagger: tags the object and stores it, changed or not, so that a
\* reconcile of a stale copy ends here.
Initialize(r) ==
  /\ At(r, "init")
  /\ UpdateObject(r, [cr EXCEPT !.tagged = TRUE], "observe")
  /\ UNCHANGED <<cache, inst, secret, passwords, edits, foreign>>

\* Mutated: an instance that is not running yet is taken as missing.
ExistsRunning(i) == i.state = "RUNNABLE"
\* Observe: only an instance the service does not know is taken as missing.
Exists(i) == i.state # "NONE"

AfterObserve(state, next) == IF state = "new" THEN "finalizer" ELSE next

\* The pc "idle" as a successor ends the reconcile.
Proceed(r, w, pc) ==
  worker' = [worker EXCEPT ![r] = IF pc = "idle" THEN Idle ELSE [w EXCEPT !.pc = pc]]

Observe(r) ==
  /\ At(r, "observe")
  /\ LET w     == worker[r]
         state == w.seen.state
         mem   == [w.mem EXCEPT !.param = LateInitializeSpec(@, inst.param)]
         next  == IF state = "deleting" THEN "delete"
                  ELSE IF IsUpToDate(mem, inst) THEN "idle" ELSE "update"
         seen  == [w EXCEPT !.mem = mem, !.observed = GenerateObservation(inst), !.next = next] IN
     IF Exists(inst)
       THEN Proceed(r, seen, IF mem # w.mem THEN "lateInit" ELSE AfterObserve(state, next))
       ELSE IF state = "deleting" THEN Goto(r, "unfinalize")
            ELSE Proceed(r, [w EXCEPT !.next = "create"], AfterObserve(state, "create"))
  /\ UNCHANGED <<cr, cache, inst, secret, passwords, edits, foreign>>

\* Observe stores the late-initialised spec, and only then sets the status.
LateInit(r) ==
  /\ At(r, "lateInit")
  /\ cr = worker[r].seen
  /\ cr' = worker[r].mem
  /\ Proceed(r, [worker[r] EXCEPT !.seen = worker[r].mem],
             AfterObserve(worker[r].seen.state, worker[r].next))
  /\ UNCHANGED <<cache, inst, secret, passwords, edits, foreign>>

AddFinalizer(r) ==
  /\ At(r, "finalizer")
  /\ cr = worker[r].seen
  /\ cr' = [cr EXCEPT !.state = "managed"]
  /\ Proceed(r, [worker[r] EXCEPT !.seen = cr', !.mem = cr'], worker[r].next)
  /\ UNCHANGED <<cache, inst, secret, passwords, edits, foreign>>

\* The connection secret is owned by the object and goes with it.
RemoveFinalizer(r) ==
  /\ At(r, "unfinalize")
  /\ cr = worker[r].seen
  /\ cr' = [cr EXCEPT !.state = "gone"]
  /\ secret' = NoPassword
  /\ Done(r)
  /\ UNCHANGED <<cache, inst, passwords, edits, foreign>>

\* The instance the service makes of an Insert.
Inserted(mem, password) ==
  [state |-> "PENDING_CREATE", tagged |-> mem.tagged, password |-> password,
   param |-> GenerateDatabaseInstance(mem.param, Default)]

\* Mutated: the answer "already exists" counts as success.
CreateIgnoresExists(r) ==
  /\ At(r, "create") /\ passwords < MaxCreates
  /\ worker' = [worker EXCEPT ![r].pc = "publish", ![r].password = passwords + 1]
  /\ IF inst.state = "NONE"
       THEN /\ inst' = Inserted(worker[r].mem, passwords + 1)
            /\ passwords' = passwords + 1
       ELSE UNCHANGED <<inst, passwords>>
  /\ UNCHANGED <<cr, cache, secret, edits, foreign>>

\* Create generates a password and inserts the instance with it; when the name
\* is taken, the password is dropped with the error.
Create(r) ==
  /\ At(r, "create") /\ passwords < MaxCreates
  /\ IF inst.state = "NONE"
       THEN /\ inst' = Inserted(worker[r].mem, passwords + 1)
            /\ passwords' = passwords + 1
            /\ worker' = [worker EXCEPT ![r].pc = "publish", ![r].password = passwords + 1]
       ELSE /\ Done(r)
            /\ UNCHANGED <<inst, passwords>>
  /\ UNCHANGED <<cr, cache, secret, edits, foreign>>

\* The reconciler publishes Create's connection details.
PublishConnection(r) ==
  /\ At(r, "publish")
  /\ secret' = worker[r].password
  /\ Done(r)
  /\ UNCHANGED <<cr, cache, inst, passwords, edits, foreign>>

\* Mutated: the state is compared with the one that allows the patch.
UpdateInverted(r) ==
  /\ At(r, "update")
  /\ Done(r)
  /\ inst' = IF worker[r].observed = "PENDING_CREATE" /\ inst.state = "RUNNABLE"
             THEN [inst EXCEPT !.param = GenerateDatabaseInstance(worker[r].mem.param, @),
                               !.tagged = worker[r].mem.tagged]
             ELSE inst
  /\ UNCHANGED <<cr, cache, secret, passwords, edits, foreign>>

\* Update patches the whole instance, unless it was observed being created; the
\* service refuses an instance that is missing or being created.
Update(r) ==
  /\ At(r, "update")
  /\ Done(r)
  /\ inst' = IF worker[r].observed # "PENDING_CREATE" /\ inst.state = "RUNNABLE"
             THEN [inst EXCEPT !.param = GenerateDatabaseInstance(worker[r].mem.param, @),
                               !.tagged = worker[r].mem.tagged]
             ELSE inst
  /\ UNCHANGED <<cr, cache, secret, passwords, edits, foreign>>

\* Mutated: nothing is deleted unless it is being created.
DeleteInverted(r) ==
  /\ At(r, "delete")
  /\ Done(r)
  /\ inst' = IF inst.state = "RUNNABLE" /\ worker[r].observed # "RUNNABLE" THEN NoInstance ELSE inst
  /\ UNCHANGED <<cr, cache, secret, passwords, edits, foreign>>

\* Delete does not look at the state; the service refuses while it creates.
Delete(r) ==
  /\ At(r, "delete")
  /\ Done(r)
  /\ inst' = IF inst.state = "RUNNABLE" THEN NoInstance ELSE inst
  /\ UNCHANGED <<cr, cache, secret, passwords, edits, foreign>>

WorkerStep(r) ==
  \/ Initialize(r) \/ Observe(r) \/ LateInit(r) \/ AddFinalizer(r) \/ RemoveFinalizer(r)
  \/ Create(r) \/ PublishConnection(r) \/ Update(r) \/ Delete(r)

Next ==
  \/ EditSpec \/ DeleteCR \/ FinishCreation \/ ForeignDelete
  \/ \E r \in Replicas : Sync(r) \/ Begin(r) \/ Fail(r) \/ WorkerStep(r)

Spec == Init /\ [][Next]_vars

-----------------------------------------------------------------------------
(***************************************************************************)
(* Properties.                                                             *)
(***************************************************************************)

\* "We don't want to return (and thus publish) our randomly generated password
\* if we didn't actually successfully create a new instance" (cloudsql.go:157):
\* of several replicas that try to create the instance at once, and however
\* late they publish, the password in the secret of an object that is not
\* being deleted is the one its instance was created with (as long as nobody
\* else deletes the instance: its successor has a new password, which a replica
\* that is late to publish the old one, or stops before it publishes, loses).
PublishedPasswordWorks ==
  cr.state = "managed" /\ foreign = 0 /\ secret # NoPassword /\ inst.state # "NONE" =>
    secret = inst.password

\* cloudsqlTagger runs before every Observe (cloudsql.go:67, 235): no instance
\* is created, or patched, without the external tags, even when the user edits
\* them out of the spec while a reconcile runs.
EveryInstanceTagged == inst.state # "NONE" => inst.tagged

\* The finalizer goes on before Create and comes off only when Observe found no
\* instance: as long as one replica does all the work, no interleaving of
\* deletion, stale reads, refused calls, restarts and deletions by others leaves
\* an instance without its object.  (A second replica that is late with its
\* Create may: the object it saw has gone.)
Sole(r) == \A q \in Replicas \ {r} : At(q, "idle")
Orphan == cr.state = "gone" /\ inst.state # "NONE"
NoOrphan == \A r \in Replicas : []Sole(r) => []~Orphan

-----------------------------------------------------------------------------
(***************************************************************************)
(* Fairness, as for the other controllers: creation ends, the watch        *)
(* delivers, the queue hands the object out, every reconcile ends, and     *)
(* calls that could succeed do not fail for ever.                          *)
(***************************************************************************)
Fairness ==
  /\ WF_vars(FinishCreation)
  /\ \A r \in Replicas :
       /\ WF_vars(Sync(r))
       /\ WF_vars(Begin(r))
       /\ []<>At(r, "idle")
  /\ <>[][\A r \in Replicas : Fail(r) /\ ENABLED WorkerStep(r) => WorkerStep(r)]_vars

FairSpec == Spec /\ Fairness

\* Late initialisation, an Update that is skipped during creation, and a spec
\* stored by every reconcile: the instance still ends up as the object says.
InstanceConverges ==
  <>[](cr.state = "managed" =>
         inst.state # "NONE" /\ cr.param \in {Unset, inst.param})

\* A deleted object is let go in the end, even if its first Delete is refused
\* because the instance is still being created.
InstanceDeletionEnds == cr.state = "deleting" ~> cr.state = "gone"
=============================================================================
