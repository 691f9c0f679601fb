------------------------------ MODULE Managed ------------------------------
(***************************************************************************)
(* A managed resource of any kind: its object in the API server, the       *)
(* provider's worker for it, and the resource in the service.              *)
(*                                                                         *)
(* A behaviour is about one instance: a controller and a few parameters of *)
(* its kind, each with what its client does to it.  Two parameters that    *)
(* are treated alike are the same instance, so that all parameters of all  *)
(* kinds make a few dozen instances.                                       *)
(***************************************************************************)
EXTENDS Controllers

CONSTANTS
  Instances,   \* the controllers and parameters, each with a bound on changes
  Defaults,    \* what the service gives parameters that a request leaves out
  Initial,     \* what the spec of a new object can have
  Referenced   \* the value of a parameter that is given by a reference

ASSUME ManagedAssumption ==
  /\ \A x \in Instances : /\ x.controller \in ControllerType
                          /\ \A i \in DOMAIN x.par : x.par[i] \in Parameter
                          /\ x.changes \in Nat
  /\ Referenced \in Values
  /\ Defaults \subseteq Values \cup {Zero, Absent}
  /\ Initial \subseteq Values \cup {Zero, Nil, Absent}

\* What the kinds have in common: a parameter that names where the resource is,
\* and may be a reference, is in no optional struct and is sent by Create; and
\* where IsUpToDate compares the spec as it is, LateInitializeSpec does not put
\* a zero of the resource in the place of what is missing.
ASSUME ClientAssumption ==
  \A x \in Instances : \A i \in DOMAIN x.par : LET c == x.par[i] IN
    /\ c.ref # "no" /\ c.fixed = "yes" => ~c.nested /\ c.created /\ c.gen # "never"
    /\ c.compare \in {"exact", "spec"} => c.late # "overwrite"

\* And the controllers: one whose calls carry an etag compares what it read with
\* the etag; one whose calls carry the fingerprint of the status stores the spec
\* itself, and sets the status after that.
ASSUME VersionAssumption ==
  \A x \in Instances :
    /\ x.controller.etag # {} => x.controller.reread = "compare"
    /\ x.controller.fingerprint # {} => x.controller.late # "runtime" /\ x.controller.status = "after"

VARIABLES
  ctl,      \* the controller
  par,      \* the parameters
  default,  \* and their defaults: these three never change
  cr,       \* the object in the API server: lifecycle, spec, recorded status
  cache,    \* the provider's informer cache of it
  worker,   \* the provider's worker
  ext,      \* the resource in the service
  target,   \* is the object that is referred to ready
  left      \* how often the user may still edit the spec, or others the resource

instance == <<ctl, par, default>>
vars == <<ctl, par, default, cr, cache, worker, ext, target, left>>

Lifecycle == {"new", "managed", "deleting", "gone"}
Specs == [DOMAIN par -> Values \cup {Zero, Nil, Absent}]
Vals == [DOMAIN par -> Values \cup {Zero, Absent}]
Nothing == [i \in DOMAIN par |-> Absent]
Resource == [state : {"PROVISIONING", "RUNNING", "RECONCILING", "STOPPING"}, val : Vals]
None == [state |-> "NONE", val |-> Nothing]
Recorded == [state : {"", "PROVISIONING", "RUNNING", "RECONCILING", "STOPPING"}, val : Vals]
NotRecorded == [state |-> "", val |-> Nothing]
Object == [state : Lifecycle, spec : Specs, status : Recorded]

\* A worker has nothing to do, has a status to record, or is at a step of a
\* reconcile.
Idle == [pc |-> "idle"]
Finishing == [pc : {"status"}, seen : Object, status : Recorded]
Busy == [pc : {"resolve", "observe", "store", "finalizer", "late", "create", "update", "call",
               "delete", "unfinalize"},
         next : {"create", "update", "delete", "status", "none"},
         late : BOOLEAN,   \* the runtime is to store a late-initialised spec
         seen : Object,    \* the object as last read or written
         spec : Specs,     \* the spec and the status of the copy in memory
         status : Recorded,
         read : Vals]   \* the resource as it was last read for an update

TypeOK ==
  /\ cr \in Object /\ cache \in Object
  /\ worker \in Busy \cup Finishing \cup {Idle}
  /\ ext \in Resource \cup {None}
  /\ target \in BOOLEAN
  /\ left \in Nat

-----------------------------------------------------------------------------
(***************************************************************************)
(* The client of the kind: the treatment of one parameter for all of them. *)
(***************************************************************************)
LateInitialized(spec, o) == [i \in DOMAIN par |-> LateInitializeSpec(par[i], spec[i], o[i])]
LateInitializeCrashes(spec, o) ==
  \E i \in DOMAIN par : LateInitializePanics(par[i], spec[i], o[i])
IsUpToDateCrashes(spec, o) == \E i \in DOMAIN par : IsUpToDatePanics(par[i], spec[i], o[i])
Differences(spec, o) == {i \in DOMAIN par : Differs(par[i], spec[i], o[i])}
IsUpToDate(spec, o) == Differences(spec, o) = {}

\* The first of the update calls that are called for; a controller that calls
\* without a difference has one only.
SelectedCall(spec, o) ==
  LET calls == {UpdateFor(par[i], spec[i], o[i]) : i \in Differences(spec, o)} IN
  IF calls = {} THEN 1 ELSE CHOOSE c \in calls : \A d \in calls : c <= d

\* Mutated: the observed fields are left out.
ObservationOfState(r) ==
  [state |-> IF ctl.async /\ ctl.skips # Always THEN r.state ELSE "",
   val |-> IF ctl.fingerprint # {} THEN r.val ELSE Nothing]
\* What is recorded of the resource: its state, if that changes and the
\* controller looks at it again; its values, if a call carries their fingerprint
\* or they are the status.
GenerateObservation(r) ==
  [state |-> IF ctl.async /\ ctl.skips # Always THEN r.state ELSE "",
   val |-> IF ctl.fingerprint # {} \/ \E i \in DOMAIN par : par[i].out THEN r.val ELSE Nothing]

\* ResolveReferences gives a parameter that is missing or empty the value of the
\* reference; without a reference, it makes an empty one a missing one.
Open(i, spec) == par[i].ref = "given" /\ spec[i] \in {Nil, Zero}
Unresolved(spec) == \E i \in DOMAIN par : Open(i, spec)
\* Mutated: an empty value counts as one.
ResolvedIfMissing(spec) ==
  [i \in DOMAIN par |-> IF par[i].ref = "given" /\ spec[i] = Nil THEN Referenced ELSE spec[i]]
Resolved(spec) ==
  [i \in DOMAIN par |->
     IF Open(i, spec) THEN Referenced ELSE IF par[i].ref # "no" /\ spec[i] = Zero THEN Nil ELSE spec[i]]

-----------------------------------------------------------------------------
(***************************************************************************)
(* A parameter that may be a reference is one, or not.                     *)
(***************************************************************************)
Init ==
  /\ \E x \in Instances, given \in BOOLEAN :
       /\ ctl = x.controller
       /\ left = x.changes
       /\ par = [i \in DOMAIN x.par |-> [x.par[i] EXCEPT !.ref = IF @ = "may" /\ given THEN "given" ELSE @]]
  /\ default \in [DOMAIN par -> Defaults]
  /\ \A i \in DOMAIN par : IF par[i].nested THEN default[i] # Zero ELSE default[i] # Absent
  /\ \E s \in [DOMAIN par -> Initial] :
                      /\ \A i \in DOMAIN par : s[i] \in SpecValues(par[i])
                      /\ cr = [state |-> "new", spec |-> s, status |-> NotRecorded]
  /\ cache = cr
  /\ worker = Idle
  /\ ext = None
  /\ target = ~Unresolved(cr.spec)

(***************************************************************************)
(* The user, the watch, and the object that is referred to.                *)
(***************************************************************************)
EditSpec ==
  /\ cr.state \in {"new", "managed"} /\ left > 0
  /\ \E i \in DOMAIN par : \E v \in SpecValues(par[i]) \ {cr.spec[i]} :
       cr' = [cr EXCEPT !.spec[i] = v]
  /\ left' = left - 1
  /\ UNCHANGED <<instance, cache, worker, ext, target>>

DeleteCR ==
  /\ cr.state \in {"new", "managed"}
  /\ cr' = [cr EXCEPT !.state = IF @ = "new" THEN "gone" ELSE "deleting"]
  /\ UNCHANGED <<instance, cache, worker, ext, target, left>>

Sync ==
  /\ cache # cr
  /\ cache' = cr
  /\ UNCHANGED <<instance, cr, worker, ext, target, left>>

TargetReady ==
  /\ ~target
  /\ target' = TRUE
  /\ UNCHANGED <<instance, cr, cache, worker, ext, left>>

(***************************************************************************)
(* The service, and others who use it.                                     *)
(***************************************************************************)
FinishOperation ==
  /\ ext.state \in {"PROVISIONING", "RECONCILING", "STOPPING"}
  /\ ext' = IF ext.state = "STOPPING" THEN None ELSE [ext EXCEPT !.state = "RUNNING"]
  /\ UNCHANGED <<instance, cr, cache, worker, target, left>>

\* Somebody else, or the service itself, changes a value that can change...
Drift ==
  /\ ext.state = "RUNNING" /\ left > 0
  /\ \E i \in DOMAIN par : \E v \in ResourceValues(par[i]) \ {ext.val[i]} :
       /\ ~Refused(par[i], ext.val[i], v)
       /\ ext' = [ext EXCEPT !.val[i] = v]
  /\ left' = left - 1
  /\ UNCHANGED <<instance, cr, cache, worker, target>>

\* ...or deletes the resource.
ForeignDelete ==
  /\ ext.state = "RUNNING" /\ left > 0 /\ ~ctl.keeps
  /\ ext' = None
  /\ left' = left - 1
  /\ UNCHANGED <<instance, cr, cache, worker, target>>

-----------------------------------------------------------------------------
(***************************************************************************)
(* The worker.  An Update of the object is refused when the object is no   *)
(* longer the one seen; its response replaces the copy in memory, but for  *)
(* what is not in it: a status that was never recorded, and an empty list, *)
(* which is not sent either.                                               *)
(***************************************************************************)
At(pc) == worker.pc = pc
Goes(w, pc) ==
  IF pc = "status" THEN [pc |-> pc, seen |-> w.seen, status |-> w.status] ELSE [w EXCEPT !.pc = pc]
Goto(pc) == worker' = Goes(worker, pc)

StoredSpec(spec) == [i \in DOMAIN par |-> Stored(par[i], spec[i])]
UpdateObject(new, pc, status) ==
  /\ cr = worker.seen
  /\ cr' = [new EXCEPT !.spec = StoredSpec(@)]
  /\ worker' = Goes([worker EXCEPT !.seen = cr', !.spec = new.spec, !.status = status], pc)
StatusInResponse == IF cr.status = NotRecorded THEN worker.status ELSE cr.status

Begin ==
  /\ At("idle")
  /\ cache.state # "gone"
  /\ worker' = [pc |-> IF cache.state # "deleting" /\ Resolved(cache.spec) # cache.spec THEN "resolve" ELSE "observe",
                next |-> "none", late |-> FALSE, seen |-> cache, spec |-> cache.spec,
                status |-> cache.status, read |-> Nothing]
  /\ UNCHANGED <<instance, cr, cache, ext, target, left>>

\* A call fails, or its answer is lost, and the reconciler records the status
\* before it gives up; or the process restarts.
Fail ==
  /\ ~At("idle")
  /\ worker' = Idle \/ (~At("status") /\ Goto("status"))
  /\ UNCHANGED <<instance, cr, cache, ext, target, left>>

ResolveReferences ==
  /\ At("resolve")
  /\ Unresolved(worker.spec) => target
  /\ UpdateObject([cr EXCEPT !.spec = Resolved(@)], "observe", StatusInResponse)
  /\ UNCHANGED <<instance, cache, ext, target, left>>

\* Mutated: no finalizer.
AfterObserveAtOnce(w) == IF w.late THEN "late" ELSE w.next
AfterObserve(w) ==
  IF w.seen.state = "new" THEN "finalizer" ELSE IF w.late THEN "late" ELSE w.next

\* Mutated: a resource that is being deleted counts as gone.
ObserveStoppingMissing ==
  /\ At("observe")
  /\ ext.state \in {"NONE", "STOPPING"} \/ (ctl.keeps /\ worker.seen.state = "deleting")
  /\ IF worker.seen.state = "deleting"
       THEN Goto("unfinalize")
       ELSE LET w == [worker EXCEPT !.next = "create"] IN
            worker' = Goes(w, AfterObserve(w))
  /\ UNCHANGED <<instance, cr, cache, ext, target, left>>
\* Observe of a resource that is not there, or of one that is kept when its
\* object is deleted.
ObserveMissing ==
  /\ At("observe")
  /\ ext = None \/ (ctl.keeps /\ worker.seen.state = "deleting")
  /\ IF worker.seen.state = "deleting"
       THEN Goto("unfinalize")
       ELSE LET w == [worker EXCEPT !.next = "create"] IN
            worker' = Goes(w, AfterObserve(w))
  /\ UNCHANGED <<instance, cr, cache, ext, target, left>>

\* Observe of one that is: the spec is filled in, and stored by Observe or left
\* to the runtime; the comparison is with the spec that has been filled in.
ObserveFound ==
  /\ At("observe")
  /\ ext # None /\ ~(ctl.keeps /\ worker.seen.state = "deleting")
  /\ LET deleting == worker.seen.state = "deleting"
         spec == LateInitialized(worker.spec, ext.val)
         new  == spec # worker.spec
         w    == [worker EXCEPT
                    !.next = IF deleting THEN "delete"
                             ELSE IF IsUpToDate(spec, ext.val) THEN "status" ELSE "update",
                    !.late = new /\ ctl.late = "runtime" /\ ~deleting,
                    !.read = IF ctl.reread = "no" THEN ext.val ELSE @,
                    !.spec = spec,
                    !.status = GenerateObservation(ext)] IN
     IF LateInitializeCrashes(worker.spec, ext.val) \/ IsUpToDateCrashes(spec, ext.val)
     THEN worker' = Idle
     ELSE worker' = Goes(w, IF new /\ ctl.late = "observe" THEN "store" ELSE AfterObserve(w))
  /\ UNCHANGED <<instance, cr, cache, ext, target, left>>

\* Observe stores the spec.  A status set before that is lost in the response,
\* unless none was ever recorded.
StoreSpec ==
  /\ At("store")
  /\ UpdateObject([cr EXCEPT !.spec = worker.spec], AfterObserve(worker),
                  IF ctl.status = "after" THEN worker.status ELSE StatusInResponse)
  /\ UNCHANGED <<instance, cache, ext, target, left>>

\* The finalizer is stored with the rest of the copy in memory, the spec that
\* Observe filled in included.
AddFinalizer ==
  /\ At("finalizer")
  /\ UpdateObject([cr EXCEPT !.state = "managed", !.spec = worker.spec],
                  IF worker.late THEN "late" ELSE worker.next, StatusInResponse)
  /\ UNCHANGED <<instance, cache, ext, target, left>>

RemoveFinalizer ==
  /\ At("unfinalize")
  /\ cr = worker.seen
  /\ cr' = [cr EXCEPT !.state = "gone"]
  /\ worker' = Idle
  /\ UNCHANGED <<instance, cache, ext, target, left>>

\* The runtime stores the spec that Observe filled in.
StoreLateInitialized ==
  /\ At("late")
  /\ UpdateObject([cr EXCEPT !.spec = worker.spec], worker.next, StatusInResponse)
  /\ UNCHANGED <<instance, cache, ext, target, left>>

\* Create, unless the status in memory says it is under way.  A resource that
\* exists is written over or left alone, as the service has it.
Create ==
  /\ At("create")
  /\ LET made == [state |-> IF ctl.async THEN "PROVISIONING" ELSE "RUNNING",
                  val |-> [i \in DOMAIN par |-> Created(par[i], worker.spec[i], default[i])]] IN
     IF \/ worker.status.state \in ctl.skips["create"]
        \/ ext # None /\ ~ctl.upsert
     THEN Goto("status") /\ UNCHANGED ext
     ELSE /\ ext' = made
          /\ worker' = Goes([worker EXCEPT
                               !.status = IF ctl.answers THEN GenerateObservation(made) ELSE @],
                             "status")
  /\ UNCHANGED <<instance, cr, cache, target, left>>

\* Mutated: the state is compared with those that allow the update.
UpdateInverted ==
  /\ At("update")
  /\ IF worker.status.state \notin ctl.skips["update"]
     THEN Goto("status")
     ELSE worker' = [worker EXCEPT !.pc = "call", !.read = IF ctl.reread = "no" THEN @ ELSE ext.val]
  /\ UNCHANGED <<instance, cr, cache, ext, target, left>>
\* Mutated: the resource that is read again is not compared again.
UpdateUncompared ==
  /\ At("update")
  /\ IF \/ worker.status.state \in ctl.skips["update"]
        \/ ctl.reread # "no" /\ ext = None /\ ~ctl.empties
     THEN Goto("status")
     ELSE worker' = [worker EXCEPT !.pc = "call", !.read = IF ctl.reread = "no" THEN @ ELSE ext.val]
  /\ UNCHANGED <<instance, cr, cache, ext, target, left>>
\* Update, unless the status in memory says an operation is under way: it may
\* read the resource again, and then compare it again.
Update ==
  /\ At("update")
  /\ IF \/ worker.status.state \in ctl.skips["update"]
        \/ ctl.reread # "no" /\ ext = None /\ ~ctl.empties
        \/ ctl.reread = "compare" /\ IsUpToDate(worker.spec, ext.val)
     THEN Goto("status")
     ELSE IF ctl.reread = "compare" /\ IsUpToDateCrashes(worker.spec, ext.val) THEN worker' = Idle
     ELSE worker' = [worker EXCEPT !.pc = "call", !.read = IF ctl.reread = "no" THEN @ ELSE ext.val]
  /\ UNCHANGED <<instance, cr, cache, ext, target, left>>

\* The call it makes, and what the service makes of it: it refuses a call whose
\* fingerprint or etag is not that of the resource, a call while an operation
\* is under way, and a change of what is fixed.
Call(w) == SelectedCall(w.spec, w.read)
\* Mutated: the request is that of the first call, whichever is made.
RequestOfFirst(w) ==
  [i \in DOMAIN par |->
     IF ext = None THEN Created(par[i], w.spec[i], default[i])
                   ELSE Patched(par[i], w.spec[i], ext.val[i], w.read[i], 1)]
Request(w) ==
  [i \in DOMAIN par |->
     IF ext = None THEN Created(par[i], w.spec[i], default[i])
                   ELSE Patched(par[i], w.spec[i], ext.val[i], w.read[i], Call(w))]
Dereferences(w) ==
  \E i \in DOMAIN par : par[i].deref = "call" /\ par[i].on = Call(w) /\ w.spec[i] = Nil
Accepted(w) ==
  /\ ext.state = "RUNNING" \/ (ext = None /\ ctl.empties)
  /\ Call(w) \in ctl.fingerprint => w.status.val = ext.val
  /\ Call(w) \in ctl.etag => w.read = ext.val
  /\ \A i \in DOMAIN par : ~Refused(par[i], ext.val[i], Request(w)[i])

UpdateCall ==
  /\ At("call")
  /\ IF Dereferences(worker) THEN worker' = Idle /\ UNCHANGED ext
     ELSE /\ Goto("status")
          /\ ext' = IF Accepted(worker)
                      THEN [state |-> IF ctl.async THEN "RECONCILING" ELSE "RUNNING",
                            val |-> Request(worker)]
                      ELSE ext
  /\ UNCHANGED <<instance, cr, cache, target, left>>

\* Mutated: only what is being deleted is deleted.
DeleteInverted ==
  /\ At("delete")
  /\ Goto("status")
  /\ ext' = IF ext.state # "RUNNING" \/ worker.status.state \notin ctl.skips["delete"] THEN ext
             ELSE IF ctl.async THEN [ext EXCEPT !.state = "STOPPING"] ELSE None
  /\ UNCHANGED <<instance, cr, cache, target, left>>
\* Delete, unless the status in memory says it is under way.
Delete ==
  /\ At("delete")
  /\ Goto("status")
  /\ ext' = IF ext.state # "RUNNING" \/ worker.status.state \in ctl.skips["delete"] THEN ext
             ELSE IF ctl.async THEN [ext EXCEPT !.state = "STOPPING"] ELSE None
  /\ UNCHANGED <<instance, cr, cache, target, left>>

\* The reconciler ends by recording the status.
UpdateStatus ==
  /\ At("status")
  /\ cr = worker.seen
  /\ cr' = [cr EXCEPT !.status = worker.status]
  /\ worker' = Idle
  /\ UNCHANGED <<instance, cache, ext, target, left>>

WorkerStep ==
  \/ ResolveReferences \/ ObserveMissing \/ ObserveFound \/ StoreSpec \/ AddFinalizer
  \/ RemoveFinalizer \/ StoreLateInitialized \/ Create \/ Update \/ UpdateCall \/ Delete
  \/ UpdateStatus

Environment == EditSpec \/ DeleteCR \/ Sync \/ TargetReady \/ FinishOperation \/ Drift \/ ForeignDelete

Next == Environment \/ Begin \/ Fail \/ WorkerStep

Spec == Init /\ [][Next]_vars

Fairness ==
  /\ WF_vars(FinishOperation)
  /\ WF_vars(Sync)
  /\ WF_vars(TargetReady)
  /\ WF_vars(Begin)
  /\ []<>At("idle")
  /\ <>[][Fail /\ ENABLED WorkerStep => WorkerStep]_vars

FairSpec == Spec /\ Fairness

-----------------------------------------------------------------------------
(***************************************************************************)
(* Properties.                                                             *)
(***************************************************************************)
\* Nothing is left behind: when the object is gone, so is the resource, unless
\* the service cannot delete it.  Only the finalizer, added before Create and
\* removed after Observe found nothing, sees to this.
NoOrphan == cr.state = "gone" => ext = None \/ ctl.keeps

\* The object and the resource, and nothing else of a kind, as ManagedLifecycle
\* has them: every step of the worker, of the service and of the user is one of
\* its steps or changes neither.
Promise ==
  INSTANCE ManagedLifecycle WITH object <- cr.state, exists <- ext # None, kept <- ctl.keeps, others <- left
KeepsPromise == Promise!Spec

\* A parameter that LateInitializeSpec or ResolveReferences writes over although
\* it is set, or that is not stored.
Overwritten(c, s) ==
  \/ c.late \in {"overwrite", "copy"}
  \/ s = Zero /\ (c.late = "ifZero" \/ c.ref # "no" \/ c.type = "list")

\* What the user set stays: no store of a late-initialised spec, of a finalizer
\* or of a resolved reference changes a parameter that has a value, however old
\* the copy it is made from.
UserValuesSurvive ==
  [][left' = left =>
       \A i \in DOMAIN par :
         ~Unset(cr.spec[i]) /\ ~Overwritten(par[i], cr.spec[i]) => cr'.spec[i] = cr.spec[i]]_vars

\* An update that carries a fingerprint or an etag is accepted only by a resource
\* that differs from the spec at that moment: what somebody else did to it after
\* Observe or Update looked is not written over, least of all when it made the
\* resource right, although the object was stored and the status in memory read
\* back in between.
UpdatesOnlyWhatDiffers ==
  [][UpdateCall /\ Accepted(worker) /\ ~Dereferences(worker)
       /\ Call(worker) \in ctl.fingerprint \cup ctl.etag
       => ~IsUpToDate(worker.spec, ext.val)]_vars

\* A resource that is created in what another object names is created there,
\* never with the reference still open.
CreatedWhereReferred ==
  ext # None => \A i \in DOMAIN par : par[i].ref = "given" /\ par[i].fixed = "yes" => ext.val[i] \in Values

\* Can the client bring this parameter to the value of the spec?  Not if it is
\* not compared, not carried by the call a difference selects, or immutable, and
\* a zero not if requests omit it or it never compares as equal, as an empty list
\* does not with the missing one of a resource.
Applies(c, s) ==
  /\ c.on # 0 /\ {c.on, c.off} \subseteq c.carried
  /\ c.gen \notin {"ifEmpty", "never"}
  /\ c.fixed = "no" \/ (c.fixed = "on" /\ s = Zero)
  /\ s = Zero => c.zero # "omitted" /\ c.gen # "ifAny" /\ c.compare \notin {"exact", "spec"}
Crashing(c) == c.late \in {"panics", "panicsWhole"} \/ c.deref = "compare"

\* What LateInitializeSpec makes of any spec and any resource is final, and gives
\* IsUpToDate no difference that was not there before: a reconcile stores the
\* spec once, and never updates a resource because of what it filled in.
FilledInOnce ==
  At("observe") /\ ext # None =>
    LET filled == LateInitialized(worker.spec, ext.val) IN
    /\ LateInitialized(filled, ext.val) = filled
    /\ Differences(filled, ext.val) \subseteq Differences(worker.spec, ext.val)

\* An update that is accepted, of a resource that is still the one it was
\* computed from, leaves no difference in any parameter that the call carries:
\* the next reconcile does not make the same call again.
CallsSettle ==
  [][UpdateCall /\ Accepted(worker) /\ ~Dereferences(worker) /\ ext # None /\ worker.read = ext.val =>
       \A i \in DOMAIN par :
         Call(worker) \in par[i].carried /\ Applies(par[i], worker.spec[i]) /\ ~Unset(worker.spec[i])
           => ~Differs(par[i], worker.spec[i], ext'.val[i])]_vars

\* The status says that the resource is being created when there is none: Create
\* waits for ever.
Stuck == ext = None /\ cr.status.state \in ctl.skips["create"]

\* Whatever is edited, lost or fails, and in whatever order, the resource ends up
\* with the values of the spec that the client can apply.
Converges ==
  <>[](cr.state = "managed" /\ ~Stuck
         => \A i \in DOMAIN par :
              /\ Applies(par[i], cr.spec[i]) /\ ~Crashing(par[i]) /\ ~Unset(cr.spec[i])
              => ZeroIfNil(ext.val[i]) = cr.spec[i])

\* And then it is left alone: the worker does not update for ever, but for a
\* parameter that differs and that the client cannot apply.
UpdatesEnd ==
  <>[](At("call") => \E i \in Differences(worker.spec, worker.read) : ~Applies(par[i], worker.spec[i]))

\* What is observed of the resource is recorded in the status.
StatusFollows ==
  <>[](cr.state = "managed" => \A i \in DOMAIN par : par[i].out => cr.status.val[i] = ext.val[i])

\* An object that is deleted goes away: only RemoveFinalizer ends the deletion.
DeletionEnds == <>[](cr.state = "deleting" => \E i \in DOMAIN par : Crashing(par[i]))
=============================================================================
