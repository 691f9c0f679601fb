----------------------------- MODULE GkeCluster -----------------------------
(***************************************************************************)
(* The GKE Cluster controller: one custom resource, one cluster, and the   *)
(* cluster service, whose operations take time and exclude one another.    *)
(*                                                                         *)
(* A parameter of the spec is Unset or has a value.  IsUpToDate compares   *)
(* the parameters in a fixed order and picks the update call of the first  *)
(* that differs: one parameter changes per reconcile.                      *)
(***************************************************************************)
EXTENDS Naturals, Sequences

CONSTANTS
  Fields,       \* the parameters of a cluster
  UpdateOrder,  \* those IsUpToDate compares, in its order
  Scalars,      \* those GenerateCluster assigns even when the spec has none
  Sticky,       \* those it fills in only where the cluster has none
  LateInited,   \* those LateInitializeSpec copies into an unset spec
  Overwritten,  \* those it copies whatever the spec says
  Values, Unset,
  Default,      \* what the service gives a parameter the request leaves out
  Autopilot,    \* is spec.forProvider.autopilot enabled
  SpecEdits,    \* the <<parameter, value>> edits users make, Unset included
  InitialSpec,
  MaxEdits,     \* bound on spec edits
  MaxFailures,  \* bound on operations that fail
  MaxForeign    \* bound on deletions of the cluster by somebody else

Opt == Values \cup {Unset}
Params == [Fields -> Opt]

ASSUME ClusterAssumption ==
  /\ UpdateOrder \in Seq(Fields)
  /\ Scalars \subseteq Fields /\ Sticky \subseteq Fields
  /\ LateInited \subseteq Fields /\ Overwritten \subseteq Fields
  /\ Unset \notin Values
  /\ Default \in Params /\ InitialSpec \in Params
  /\ Autopilot \in BOOLEAN
  /\ SpecEdits \subseteq Fields \X Opt
  /\ MaxEdits \in Nat /\ MaxFailures \in Nat /\ MaxForeign \in Nat

VARIABLES
  cr,       \* the object in the API server: lifecycle, spec, recorded status
  cache,    \* the provider's informer cache of it
  worker,   \* the provider's worker
  cluster,  \* the cluster in the service, status "NONE" when there is none
  edits, failures, foreign

vars == <<cr, cache, worker, cluster, edits, failures, foreign>>

Lifecycle == {"new", "managed", "deleting", "gone"}
Status == {"PROVISIONING", "RUNNING", "RECONCILING", "STOPPING", "ERROR"}
NoStatus == ""
CR == [state : Lifecycle, spec : Params, status : Status \cup {NoStatus}]

\* What an update call changes: a parameter, or the bootstrap node pool.
Bootstrap == "bootstrap"
NoTarget == "none"
Cluster == [status : Status \cup {"NONE"}, params : Params, boot : BOOLEAN,
            op : [target : Fields \cup {Bootstrap, NoTarget}, value : Opt]]
NoOp == [target |-> NoTarget, value |-> Unset]
NoCluster == [status |-> "NONE", params |-> [f \in Fields |-> Unset], boot |-> FALSE, op |-> NoOp]

\* seen: the object as last read or written; mem: the copy being worked on;
\* late: this reconcile has stored a late-initialised spec.
Idle == [pc |-> "idle"]
Busy == [pc : {"observe", "lateInit", "finalizer", "create", "update", "updateGet",
               "call", "delete", "status", "unfinalize"},
         next : {"create", "update", "delete", "status", "none"},
         late : BOOLEAN, seen : CR, mem : CR, target : Fields \cup {Bootstrap, NoTarget}]

TypeOK ==
  /\ cr \in CR /\ cache \in CR
  /\ worker \in Busy \cup {Idle}
  /\ cluster \in Cluster
  /\ edits \in 0..MaxEdits /\ failures \in 0..MaxFailures
  /\ foreign \in 0..MaxForeign

-----------------------------------------------------------------------------
(***************************************************************************)
(* pkg/clients/cluster.                                                    *)
(***************************************************************************)

\* GenerateCluster writes the spec over base: over an empty cluster for
\* Create, over a copy of the observed one for IsUpToDate.
GenerateCluster(spec, base) ==
  [f \in Fields |->
     IF spec[f] = Unset THEN (IF f \in Scalars THEN Unset ELSE base[f])
     ELSE IF f \in Sticky /\ base[f] # Unset THEN base[f]
     ELSE spec[f]]

\* Of the observation, only the status is ever read again.
GenerateObservation(c) == c.status

\* Mutated: a parameter neither side has is set to the empty string.
LateInitEmpty(spec, observed) ==
  [f \in Fields |-> IF spec[f] # Unset THEN spec[f]
                    ELSE IF observed[f] # Unset THEN observed[f] ELSE ""]
\* Mutated: what the cluster has replaces what the spec says.
LateInitAll(spec, observed) ==
  [f \in Fields |-> IF observed[f] # Unset THEN observed[f] ELSE spec[f]]
LateInitializeSpec(spec, observed) ==
  [f \in Fields |->
     IF /\ observed[f] # Unset
        /\ f \in Overwritten \/ (f \in LateInited /\ spec[f] = Unset)
     THEN observed[f] ELSE spec[f]]

\* Mutated: the last parameter is not compared.
DiffsButLast(spec, observed) ==
  {i \in 1..(Len(UpdateOrder) - 1) :
     GenerateCluster(spec, observed)[UpdateOrder[i]] # observed[UpdateOrder[i]]}

\* The positions of UpdateOrder where desired and observed differ.
Diffs(spec, observed) ==
  {i \in 1..Len(UpdateOrder) :
     GenerateCluster(spec, observed)[UpdateOrder[i]] # observed[UpdateOrder[i]]}

IsUpToDate(spec, c) == ~c.boot /\ Diffs(spec, c.params) = {}

\* The update IsUpToDate selects: the bootstrap node pool goes first.
UpdateFn(spec, c) ==
  LET d == Diffs(spec, c.params) IN
  IF c.boot THEN Bootstrap
  ELSE UpdateOrder[CHOOSE i \in d : \A j \in d : i <= j]

-----------------------------------------------------------------------------
Init ==
  /\ cr = [state |-> "new", spec |-> InitialSpec, status |-> NoStatus]
  /\ cache = cr
  /\ worker = Idle
  /\ cluster = NoCluster
  /\ edits = 0 /\ failures = 0 /\ foreign = 0

(***************************************************************************)
(* The user, the watch and the cluster service.                            *)
(***************************************************************************)
EditSpec ==
  /\ cr.state \in {"new", "managed"} /\ edits < MaxEdits
  /\ \E e \in SpecEdits : /\ cr.spec[e[1]] # e[2]
                          /\ cr' = [cr EXCEPT !.spec[e[1]] = e[2]]
  /\ edits' = edits + 1
  /\ UNCHANGED <<cache, worker, cluster, failures, foreign>>

DeleteCR ==
  /\ cr.state \in {"new", "managed"}
  /\ cr' = [cr EXCEPT !.state = IF @ = "new" THEN "gone" ELSE "deleting"]
  /\ UNCHANGED <<cache, worker, cluster, edits, failures, foreign>>

Sync ==
  /\ cache # cr
  /\ cache' = cr
  /\ UNCHANGED <<cr, worker, cluster, edits, failures, foreign>>

\* An operation of the service ends.
FinishOperation ==
  /\ cluster.status \in {"PROVISIONING", "RECONCILING", "STOPPING"}
  /\ cluster' =
       IF cluster.status = "STOPPING" THEN NoCluster
       ELSE [cluster EXCEPT
               !.status = "RUNNING",
               !.op = NoOp,
               !.boot = @ /\ cluster.op.target # Bootstrap,
               !.params = [f \in Fields |-> IF cluster.op.target = f THEN cluster.op.value
                                                                     ELSE @[f]]]
  /\ UNCHANGED <<cr, cache, worker, edits, failures, foreign>>

\* An operation fails: the service keeps the cluster, in error.
FailOperation ==
  /\ failures < MaxFailures
  /\ cluster.status \in {"PROVISIONING", "RECONCILING"}
  /\ cluster' = [cluster EXCEPT !.status = "ERROR", !.op = NoOp]
  /\ failures' = failures + 1
  /\ UNCHANGED <<cr, cache, worker, edits, foreign>>

\* Somebody else deletes the cluster.
ForeignDelete ==
  /\ foreign < MaxForeign
  /\ cluster.status = "RUNNING"
  /\ cluster' = NoCluster
  /\ foreign' = foreign + 1
  /\ UNCHANGED <<cr, cache, worker, edits, failures>>

(***************************************************************************)
(* The worker.  An Update of the object is refused when the object is no   *)
(* longer the one seen.  Its response replaces the copy in memory: the     *)
(* recorded status, when there is one, takes the place of the observed.    *)
(***************************************************************************)
At(pc) == worker.pc = pc
Goto(pc) == worker' = [worker EXCEPT !.pc = pc]

UpdateObject(new, pc, late) ==
  /\ cr = worker.seen
  /\ cr' = new
  /\ worker' = [worker EXCEPT
       !.pc = pc,
       !.late = late,
       !.seen = new,
       !.mem = [new EXCEPT !.status = IF new.status = NoStatus THEN worker.mem.status ELSE @]]

Begin ==
  /\ At("idle")
  /\ cache.state # "gone"
  /\ worker' = [pc |-> "observe", next |-> "none", late |-> FALSE, seen |-> cache,
                mem |-> cache, target |-> NoTarget]
  /\ UNCHANGED <<cr, cache, cluster, edits, failures, foreign>>

\* A call fails and the reconciler records the status before it gives up, or
\* the process restarts.
Fail ==
  /\ ~At("idle")
  /\ worker' = Idle \/ (~At("status") /\ Goto("status"))
  /\ UNCHANGED <<cr, cache, cluster, edits, failures, foreign>>

\* Mutated: a cluster that is being deleted counts as gone.
FoundUnlessStopping(c) == c.status \notin {"NONE", "STOPPING"}
\* Observe: only a cluster the service does not know is taken as missing.
Found(c) == c.status # "NONE"

\* Mutated: no finalizer.
AfterObserveAtOnce(state, next) == next
\* What follows Observe, once the spec is late-initialised.
AfterObserve(state, next) ==
  IF state = "new" THEN "finalizer" ELSE next

Observe ==
  /\ At("observe")
  /\ LET state == worker.seen.state
         spec  == LateInitializeSpec(worker.mem.spec, cluster.params)
         next  == IF state = "deleting" THEN "delete"
                  ELSE IF IsUpToDate(spec, cluster) THEN "status" ELSE "update" IN
     IF Found(cluster)
       THEN worker' = [worker EXCEPT
                         !.pc = IF spec # worker.mem.spec THEN "lateInit"
                                                          ELSE AfterObserve(state, next),
                         !.next = next,
                         !.mem = [@ EXCEPT !.status = GenerateObservation(cluster), !.spec = spec]]
       ELSE IF state = "deleting" THEN Goto("unfinalize")
            ELSE worker' = [worker EXCEPT !.pc = AfterObserve(state, "create"), !.next = "create"]
  /\ UNCHANGED <<cr, cache, cluster, edits, failures, foreign>>

\* Observe stores the late-initialised spec.
LateInit ==
  /\ At("lateInit")
  /\ UpdateObject([cr EXCEPT !.spec = worker.mem.spec],
                  AfterObserve(worker.seen.state, worker.next), TRUE)
  /\ UNCHANGED <<cache, cluster, edits, failures, foreign>>

AddFinalizer ==
  /\ At("finalizer")
  /\ UpdateObject([cr EXCEPT !.state = "managed"], worker.next, worker.late)
  /\ UNCHANGED <<cache, cluster, edits, failures, foreign>>

RemoveFinalizer ==
  /\ At("unfinalize")
  /\ cr = worker.seen
  /\ cr' = [cr EXCEPT !.state = "gone"]
  /\ worker' = Idle
  /\ UNCHANGED <<cache, cluster, edits, failures, foreign>>

\* Create does nothing when the status in memory says the cluster is being
\* provisioned already; the service refuses a cluster that exists.
Create ==
  /\ At("create")
  /\ Goto("status")
  /\ IF worker.mem.status = "PROVISIONING" \/ cluster.status # "NONE"
       THEN UNCHANGED cluster
       ELSE LET req == GenerateCluster(worker.mem.spec, NoCluster.params) IN
            cluster' = [status |-> "PROVISIONING", boot |-> ~Autopilot, op |-> NoOp,
                        params |-> [f \in Fields |-> IF req[f] = Unset THEN Default[f] ELSE req[f]]]
  /\ UNCHANGED <<cr, cache, edits, failures, foreign>>

\* Mutated: no look at the status.
UpdateAnyway ==
  /\ At("update")
  /\ Goto("updateGet")
  /\ UNCHANGED <<cr, cache, cluster, edits, failures, foreign>>

\* Update: not while the status in memory says an operation is under way.
Update ==
  /\ At("update")
  /\ Goto(IF worker.mem.status \in {"RECONCILING", "PROVISIONING"} THEN "status" ELSE "updateGet")
  /\ UNCHANGED <<cr, cache, cluster, edits, failures, foreign>>

\* It reads the cluster again to choose the call...
UpdateGet ==
  /\ At("updateGet")
  /\ IF cluster.status = "NONE" \/ IsUpToDate(worker.mem.spec, cluster)
       THEN Goto("status")
       ELSE worker' = [worker EXCEPT !.pc = "call", !.target = UpdateFn(worker.mem.spec, cluster)]
  /\ UNCHANGED <<cr, cache, cluster, edits, failures, foreign>>

\* ...and makes it; the service takes one operation at a time.
UpdateCall ==
  /\ At("call")
  /\ Goto("status")
  /\ IF cluster.status \in {"RUNNING", "ERROR"}
       THEN cluster' = [cluster EXCEPT
              !.status = "RECONCILING",
              !.op = [target |-> worker.target,
                      value |-> IF worker.target = Bootstrap THEN Unset
                                ELSE worker.mem.spec[worker.target]]]
       ELSE UNCHANGED cluster
  /\ UNCHANGED <<cr, cache, edits, failures, foreign>>

\* Mutated: the cluster is deleted only if it is being deleted already.
DeleteInverted ==
  /\ At("delete")
  /\ Goto("status")
  /\ IF worker.mem.status = "STOPPING" /\ cluster.status \in {"RUNNING", "ERROR"}
       THEN cluster' = [cluster EXCEPT !.status = "STOPPING", !.op = NoOp]
       ELSE UNCHANGED cluster
  /\ UNCHANGED <<cr, cache, edits, failures, foreign>>

\* Delete: not again while the status in memory says it is under way.
Delete ==
  /\ At("delete")
  /\ Goto("status")
  /\ IF worker.mem.status # "STOPPING" /\ cluster.status \in {"RUNNING", "ERROR"}
       THEN cluster' = [cluster EXCEPT !.status = "STOPPING", !.op = NoOp]
       ELSE UNCHANGED cluster
  /\ UNCHANGED <<cr, cache, edits, failures, foreign>>

\* The reconciler ends by recording the status.
UpdateStatus ==
  /\ At("status")
  /\ cr = worker.seen
  /\ cr' = [cr EXCEPT !.status = worker.mem.status]
  /\ worker' = Idle
  /\ UNCHANGED <<cache, cluster, edits, failures, foreign>>

WorkerStep ==
  \/ Observe \/ LateInit \/ AddFinalizer \/ RemoveFinalizer \/ Create
  \/ Update \/ UpdateGet \/ UpdateCall \/ Delete \/ UpdateStatus

Service == FinishOperation \/ FailOperation \/ ForeignDelete

Next == EditSpec \/ DeleteCR \/ Sync \/ Service \/ Begin \/ Fail \/ WorkerStep

Spec == Init /\ [][Next]_vars

-----------------------------------------------------------------------------
(***************************************************************************)
(* Properties.                                                             *)
(***************************************************************************)

\* cluster.go:176 "Do not issue another update until the cluster finishes the
\* previous one": no update call is made while the cluster is reconciling.
OneUpdateAtATime == At("call") => cluster.status # "RECONCILING"

\* Where that guard does hold: a reconcile that did not store a late-initialised
\* spec read the status from the service, and no update is under way when it
\* makes its own, however long ago it looked and whatever happened since.
UpdatesWait == At("call") /\ ~worker.late => cluster.status # "RECONCILING"

\* LateInitializeSpec "fills unassigned fields" (cluster.go:646 of the client):
\* no step of the provider changes a parameter its object has set, neither by
\* copying over it nor by storing a spec that was read before a user's edit.
UserValuesSurvive ==
  [][\A f \in Fields : cr.spec[f] # Unset /\ cr'.spec[f] # cr.spec[f] => edits' # edits]_vars

\* The finalizer keeps the object until its cluster has gone: whatever fails or
\* restarts, and however late the cache, no cluster outlives its object.
NoOrphanedCluster == cr.state = "gone" => cluster.status = "NONE"

\* The cluster and its object are a ManagedLifecycle: the cluster is made only
\* for an object that has the finalizer, and taken away by the provider, or by an
\* operation it began, only when the object is being deleted.
Promise ==
  INSTANCE ManagedLifecycle WITH
    object <- cr.state, exists <- cluster.status # "NONE", kept <- FALSE, others <- foreign
KeepsPromise == Promise!Spec

\* IsUpToDate "checks whether current state is up-to-date compared to the given
\* set of parameters" (cluster.go:1261 of the client): when it says so, the
\* parameters it is there to compare have the values the object sets.
UpToDateMeansSame ==
  cluster.status # "NONE" /\ IsUpToDate(cr.spec, cluster) =>
    \A i \in 1..Len(UpdateOrder) :
      cr.spec[UpdateOrder[i]] # Unset => cluster.params[UpdateOrder[i]] = cr.spec[UpdateOrder[i]]

\* cluster.go:145 "Wait until creation is complete if already provisioning":
\* Create passes over an object only while its cluster is being provisioned.
CreateWaitsForProvisioning ==
  At("create") /\ worker.mem.status = "PROVISIONING" => cluster.status = "PROVISIONING"

-----------------------------------------------------------------------------
(***************************************************************************)
(* Fairness: operations end, the watch delivers, the queue hands the       *)
(* object out again and again, and every reconcile ends; calls that could  *)
(* succeed do not fail for ever.                                           *)
(***************************************************************************)
Fairness ==
  /\ WF_vars(FinishOperation)
  /\ WF_vars(Sync)
  /\ WF_vars(Begin)
  /\ []<>At("idle")
  /\ <>[][Fail /\ ENABLED WorkerStep => WorkerStep]_vars

FairSpec == Spec /\ Fairness

\* One parameter per reconcile, a reconcile at a time, and yet the cluster ends
\* up, and stays, as the object says: it exists, its bootstrap node pool is
\* gone, and every parameter the object sets has its value.
ClusterConverges ==
  <>[](cr.state = "managed" =>
         /\ cluster.status # "NONE"
         /\ ~cluster.boot
         /\ \A f \in Fields : cr.spec[f] # Unset => cluster.params[f] = cr.spec[f])

\* A deleted object is let go in the end, even if a first Delete is refused
\* because an operation is under way.
ClusterDeletionEnds == cr.state = "deleting" ~> cr.state = "gone"
=============================================================================
