-------------------------- MODULE GkeClusterProofs --------------------------
(***************************************************************************)
(* Proofs about GkeCluster, for any parameters, values, order of           *)
(* comparison and number of edits, failures and deletions by others.       *)
(***************************************************************************)
EXTENDS GkeCluster, WellFoundedInduction, TLAPS

-----------------------------------------------------------------------------
(* The inductive invariant.                                                *)

\* The informer cache is never ahead of the object, and is up to date with a
\* deletion before the provider can end it.
CacheFollows ==
  /\ cr.state = "new" => cache.state = "new"
  /\ cr.state = "managed" => cache.state \in {"new", "managed"}
  /\ cr.state = "deleting" => cache.state \in {"new", "managed", "deleting"}
  /\ cr.state = "gone" => cache.state \in {"new", "deleting", "gone"}

\* A cluster has an object that holds it.
ClusterHeld ==
  /\ cluster.status # "NONE" => cr.state \in {"managed", "deleting"}
  /\ cluster.status = "STOPPING" => cr.state = "deleting"

\* The object as the worker last saw it, now.
SeenHeld ==
  ~At("idle") =>
    /\ worker.seen.state \in {"new", "managed", "deleting"}
    /\ worker.seen.state = "managed" => cr.state \in {"managed", "deleting"}
    /\ worker.seen.state = "deleting" => {cr.state, cache.state} \subseteq {"deleting", "gone"}

\* What the worker has seen when it is at a step.
StepJustified ==
  /\ worker.pc \in {"create", "update", "updateGet", "call"} => worker.seen.state = "managed"
  /\ At("call") => worker.target \in Fields \cup {Bootstrap}
  /\ At("delete") => worker.seen.state = "deleting"
  /\ At("unfinalize") => worker.seen.state = "deleting" /\ cluster.status = "NONE"
  /\ At("finalizer") => worker.seen.state = "new" /\ worker.next \in {"create", "update", "status"}
  /\ At("lateInit") => IF worker.seen.state = "deleting" THEN worker.next = "delete"
                                                         ELSE worker.next \in {"update", "status"}

\* The worker knows of an operation that is under way, unless it has lost the
\* observed status by storing the spec.
OperationKnown ==
  ~At("idle") /\ cluster.status = "RECONCILING" =>
    /\ At("update") /\ ~worker.late => worker.mem.status = "RECONCILING"
    /\ worker.pc \in {"updateGet", "call"} => worker.late

\* The spec in memory has every value that the object seen has, but for those
\* that are written over.
SpecKept ==
  ~At("idle") =>
    \A f \in Fields \ Overwritten :
      worker.seen.spec[f] # Unset => worker.mem.spec[f] = worker.seen.spec[f]

Held == CacheFollows /\ ClusterHeld /\ SeenHeld /\ StepJustified
IInv == TypeOK /\ Held /\ OperationKnown /\ SpecKept

-----------------------------------------------------------------------------
(* The types.                                                              *)

Steps == {"observe", "lateInit", "finalizer", "create", "update", "updateGet", "call", "delete", "status",
          "unfinalize"}

LEMMA ParamsAssumption ==
  /\ UpdateOrder \in Seq(Fields) /\ Default \in Params /\ InitialSpec \in Params
  /\ SpecEdits \subseteq Fields \X Opt /\ MaxEdits \in Nat /\ MaxFailures \in Nat /\ MaxForeign \in Nat
  BY ClusterAssumption

LEMMA NoClusterType ==
  NoCluster \in Cluster /\ NoCluster.status = "NONE" /\ NoCluster.params \in Params
  BY DEF NoCluster, Cluster, NoOp, Params, Opt

LEMMA CRType ==
  ASSUME NEW o \in CR
  PROVE  /\ o.state \in Lifecycle /\ o.spec \in Params /\ o.status \in Status \cup {NoStatus}
         /\ \A st \in Lifecycle : [o EXCEPT !.state = st] \in CR
         /\ \A s \in Params : [o EXCEPT !.spec = s] \in CR
         /\ \A t \in Status \cup {NoStatus} : [o EXCEPT !.status = t] \in CR
         /\ \A t \in Status \cup {NoStatus}, s \in Params : [o EXCEPT !.status = t, !.spec = s] \in CR
  BY DEF CR

LEMMA BusyWorker ==
  ASSUME TypeOK, ~At("idle")
  PROVE  /\ worker \in Busy /\ worker.pc \in Steps /\ worker.late \in BOOLEAN
         /\ worker.next \in {"create", "update", "delete", "status", "none"}
         /\ worker.seen \in CR /\ worker.mem \in CR /\ worker.target \in Fields \cup {Bootstrap, NoTarget}
  BY DEF TypeOK, Idle, Busy, Steps, At

LEMMA GotoType ==
  ASSUME TypeOK, ~At("idle"), NEW pc \in Steps, Goto(pc)
  PROVE  /\ worker' \in Busy /\ worker'.pc = pc /\ worker'.seen = worker.seen /\ worker'.mem = worker.mem
         /\ worker'.late = worker.late /\ worker'.next = worker.next /\ worker'.target = worker.target
  BY BusyWorker DEF Goto, Busy, Steps

LEMMA LateInitializeType ==
  ASSUME NEW s \in Params, NEW o \in Params
  PROVE  /\ LateInitializeSpec(s, o) \in Params
         /\ \A f \in Fields \ Overwritten : s[f] # Unset => LateInitializeSpec(s, o)[f] = s[f]
  BY DEF LateInitializeSpec, Params

LEMMA GenerateType ==
  ASSUME NEW s \in Params, NEW o \in Params
  PROVE  GenerateCluster(s, o) \in Params
  BY DEF GenerateCluster, Params, Opt

\* A set of numbers that is not empty has a least one.
LEMMA LeastNumber ==
  ASSUME NEW S \in SUBSET Nat, S # {}
  PROVE  \E i \in S : \A j \in S : i <= j
<1> DEFINE R == OpToRel(<, Nat)
<1>1. IsWellFoundedOn(R, Nat)
  BY NatLessThanWellFounded
<1>2. \A x, y \in Nat : x < y => <<x, y>> \in R
  BY DEF OpToRel
<1> HIDE DEF R
<1>3. PICK x \in S : \A y \in S : ~(<<y, x>> \in R)
  BY <1>1, WFMin
<1>4. \A y \in S : x <= y
  <2> SUFFICES ASSUME NEW y \in S PROVE x <= y
    OBVIOUS
  <2>1. x \in Nat /\ y \in Nat
    OBVIOUS
  <2>2. ~(y < x)
    BY <1>2, <1>3, <2>1, Zenon
  <2>3. QED
    BY <2>1, <2>2
<1>5. QED
  BY <1>4

\* IsUpToDate names an update when it finds a difference.
LEMMA UpdateFnType ==
  ASSUME NEW s \in Params, NEW c \in Cluster, ~IsUpToDate(s, c)
  PROVE  UpdateFn(s, c) \in Fields \cup {Bootstrap}
<1> DEFINE d == Diffs(s, c.params)
           first == CHOOSE i \in d : \A j \in d : i <= j
<1>1. c.boot \/ d # {}
  BY DEF IsUpToDate
<1>2. CASE c.boot
  BY <1>2 DEF UpdateFn
<1>3. CASE ~c.boot
  <2>1. d \in SUBSET Nat /\ d \subseteq 1..Len(UpdateOrder) /\ d # {}
    BY <1>1, <1>3, ParamsAssumption DEF Diffs
  <2>2. \E i \in d : \A j \in d : i <= j
    BY <2>1, LeastNumber
  <2>3. first \in d
    BY <2>2
  <2>4. UpdateOrder[first] \in Fields
    BY <2>1, <2>3, ParamsAssumption
  <2>5. QED
    BY <1>3, <2>4 DEF UpdateFn
<1>4. QED
  BY <1>2, <1>3

-----------------------------------------------------------------------------
(* The invariant holds at first, and every step keeps it.                  *)

LEMMA InitialInvariant ==
  ASSUME Init PROVE IInv
<1>1. /\ cr = [state |-> "new", spec |-> InitialSpec, status |-> NoStatus] /\ cache = cr
      /\ worker = Idle /\ worker.pc = "idle" /\ cluster = NoCluster
      /\ edits = 0 /\ failures = 0 /\ foreign = 0
  BY DEF Init, Idle
<1>2. cr \in CR /\ cr.state = "new"
  BY <1>1, ParamsAssumption DEF CR, Lifecycle
<1>3. TypeOK
  BY <1>1, <1>2, NoClusterType, ParamsAssumption DEF TypeOK
<1>4. Held /\ OperationKnown /\ SpecKept
  BY <1>1, <1>2, NoClusterType
     DEF Held, CacheFollows, ClusterHeld, SeenHeld, StepJustified, OperationKnown, SpecKept, At
<1>5. QED
  BY <1>3, <1>4 DEF IInv

\* A step of the user, the watch or the service that leaves the worker alone.
LEMMA StepAround ==
  ASSUME IInv, UNCHANGED worker, TypeOK',
         CacheFollows', ClusterHeld',
         cr'.state = cr.state \/ (cr.state = "new" /\ cr'.state = "gone")
                              \/ (cr.state = "managed" /\ cr'.state = "deleting"),
         cache' \in {cache, cr},
         cluster.status = "NONE" => cluster'.status = "NONE",
         cluster'.status = "RECONCILING" => cluster.status = "RECONCILING"
  PROVE  IInv'
<1>1. SeenHeld'
  BY DEF SeenHeld, IInv, Held, CacheFollows, At
<1>2. StepJustified'
  BY DEF StepJustified, IInv, Held, At
<1>3. OperationKnown' /\ SpecKept'
  BY DEF OperationKnown, SpecKept, IInv, At
<1>4. QED
  BY <1>1, <1>2, <1>3 DEF IInv, Held

LEMMA EditSpecInvariant ==
  ASSUME IInv, EditSpec PROVE IInv'
<1>1. PICK e \in SpecEdits : cr' = [cr EXCEPT !.spec[e[1]] = e[2]]
  BY DEF EditSpec
<1>2. e[1] \in Fields /\ e[2] \in Opt
  BY ParamsAssumption
<1>3. cr \in CR /\ edits \in 0..MaxEdits /\ edits < MaxEdits
  BY DEF IInv, TypeOK, EditSpec
<1>4. [cr.spec EXCEPT ![e[1]] = e[2]] \in Params
  BY <1>2, <1>3 DEF CR, Params
<1>5. cr' = [cr EXCEPT !.spec = [cr.spec EXCEPT ![e[1]] = e[2]]]
  BY <1>1, <1>3 DEF CR
<1>6. cr' \in CR /\ cr'.state = cr.state
  BY <1>3, <1>4, <1>5 DEF CR
<1>7. edits' \in 0..MaxEdits
  BY <1>3, ParamsAssumption DEF EditSpec
<1>8. TypeOK' /\ CacheFollows' /\ ClusterHeld'
  BY <1>6, <1>7 DEF EditSpec, IInv, TypeOK, Held, CacheFollows, ClusterHeld
<1>9. QED
  BY <1>6, <1>8, StepAround DEF EditSpec

LEMMA DeleteCRInvariant ==
  ASSUME IInv, DeleteCR PROVE IInv'
<1>1. cr \in CR
  BY DEF IInv, TypeOK
<1>2. /\ cr' \in CR
      /\ (cr.state = "new" /\ cr'.state = "gone") \/ (cr.state = "managed" /\ cr'.state = "deleting")
  BY <1>1 DEF CR, Lifecycle, DeleteCR
<1>3. TypeOK' /\ CacheFollows' /\ ClusterHeld'
  BY <1>2 DEF DeleteCR, IInv, TypeOK, Held, CacheFollows, ClusterHeld
<1>4. QED
  BY <1>2, <1>3, StepAround DEF DeleteCR

LEMMA SyncInvariant ==
  ASSUME IInv, Sync PROVE IInv'
<1>1. TypeOK' /\ CacheFollows' /\ ClusterHeld'
  BY DEF Sync, IInv, Held, CacheFollows, ClusterHeld, TypeOK, CR, Lifecycle
<1>2. QED
  BY <1>1, StepAround DEF Sync

LEMMA FinishOperationInvariant ==
  ASSUME IInv, FinishOperation PROVE IInv'
<1>1. cluster \in Cluster /\ cluster.status \in {"PROVISIONING", "RECONCILING", "STOPPING"}
  BY DEF IInv, TypeOK, FinishOperation
<1>2. cluster' \in Cluster /\ cluster'.status \in {"NONE", "RUNNING"}
  <2>1. CASE cluster.status = "STOPPING"
    BY <2>1, NoClusterType DEF FinishOperation
  <2>2. CASE cluster.status # "STOPPING"
    <3> DEFINE p == [f \in Fields |-> IF cluster.op.target = f THEN cluster.op.value ELSE cluster.params[f]]
               b == cluster.boot /\ cluster.op.target # Bootstrap
    <3>1. p \in Params
      BY <1>1 DEF Cluster, Params
    <3>2. b \in BOOLEAN /\ NoOp \in [target : Fields \cup {Bootstrap, NoTarget}, value : Opt]
      BY DEF NoOp, Opt
    <3>3. cluster' = [cluster EXCEPT !.status = "RUNNING", !.op = NoOp, !.boot = b, !.params = p]
      BY <2>2 DEF FinishOperation
    <3> HIDE DEF p, b
    <3>4. QED
      BY <1>1, <3>1, <3>2, <3>3 DEF Cluster, Status
  <2>3. QED
    BY <2>1, <2>2
<1>3. TypeOK' /\ CacheFollows' /\ ClusterHeld'
  BY <1>1, <1>2 DEF FinishOperation, IInv, TypeOK, Held, CacheFollows, ClusterHeld
<1>4. QED
  BY <1>1, <1>2, <1>3, StepAround DEF FinishOperation

LEMMA FailOperationInvariant ==
  ASSUME IInv, FailOperation PROVE IInv'
<1>1. cluster \in Cluster /\ cluster.status \in {"PROVISIONING", "RECONCILING"}
  BY DEF IInv, TypeOK, FailOperation
<1>2. cluster' \in Cluster /\ cluster'.status = "ERROR"
  BY <1>1 DEF FailOperation, Cluster, Status, NoOp, Opt
<1>3. failures' \in 0..MaxFailures
  BY ParamsAssumption DEF FailOperation, IInv, TypeOK
<1>4. TypeOK' /\ CacheFollows' /\ ClusterHeld'
  BY <1>1, <1>2, <1>3 DEF FailOperation, IInv, TypeOK, Held, CacheFollows, ClusterHeld
<1>5. QED
  BY <1>1, <1>2, <1>4, StepAround DEF FailOperation

LEMMA ForeignDeleteInvariant ==
  ASSUME IInv, ForeignDelete PROVE IInv'
<1>1. cluster' = NoCluster /\ foreign' \in 0..MaxForeign
  BY ParamsAssumption DEF ForeignDelete, IInv, TypeOK
<1>2. TypeOK' /\ CacheFollows' /\ ClusterHeld'
  BY <1>1, NoClusterType DEF ForeignDelete, IInv, TypeOK, Held, CacheFollows, ClusterHeld
<1>3. QED
  BY <1>1, <1>2, NoClusterType, StepAround DEF ForeignDelete

LEMMA BeginInvariant ==
  ASSUME IInv, Begin PROVE IInv'
<1>1. cache \in CR /\ cache.state \in {"new", "managed", "deleting"}
  BY DEF Begin, IInv, TypeOK, CR, Lifecycle
<1>2. /\ worker' \in Busy /\ worker'.pc = "observe" /\ worker'.seen = cache /\ worker'.mem = cache
  BY <1>1 DEF Begin, Busy
<1>3. TypeOK' /\ CacheFollows' /\ ClusterHeld'
  BY <1>2 DEF Begin, IInv, TypeOK, Held, CacheFollows, ClusterHeld
<1>4. SeenHeld'
  BY <1>1, <1>2 DEF Begin, IInv, Held, CacheFollows, SeenHeld, TypeOK, CR, Lifecycle
<1>5. StepJustified' /\ OperationKnown' /\ SpecKept'
  BY <1>2 DEF StepJustified, OperationKnown, SpecKept, At
<1>6. QED
  BY <1>3, <1>4, <1>5 DEF IInv, Held

\* A worker that gives up or goes on to record the status.
LEMMA Finish ==
  ASSUME IInv, ~At("idle"), UNCHANGED <<cr, cache, edits, failures, foreign>>,
         worker' = Idle \/ Goto("status"), cluster' \in Cluster, ClusterHeld'
  PROVE  IInv'
<1>1. worker' = Idle \/ (/\ worker' \in Busy /\ worker'.pc = "status"
                         /\ worker'.seen = worker.seen /\ worker'.mem = worker.mem)
  BY GotoType DEF IInv, Steps
<1>2. worker' \in Busy \cup {Idle} /\ worker'.pc \in {"idle", "status"}
  BY <1>1 DEF Idle
<1>3. TypeOK' /\ CacheFollows'
  BY <1>2 DEF IInv, TypeOK, Held, CacheFollows
<1>4. SeenHeld' /\ SpecKept'
  BY <1>1, <1>2 DEF IInv, Held, SeenHeld, SpecKept, At, Idle
<1>5. StepJustified' /\ OperationKnown'
  BY <1>2 DEF StepJustified, OperationKnown, At
<1>6. QED
  BY <1>3, <1>4, <1>5 DEF IInv, Held

LEMMA FailInvariant ==
  ASSUME IInv, Fail PROVE IInv'
<1>1. ClusterHeld' /\ cluster' \in Cluster
  BY DEF Fail, IInv, Held, ClusterHeld, TypeOK
<1>2. QED
  BY <1>1, Finish DEF Fail

LEMMA UpdateStatusInvariant ==
  ASSUME IInv, UpdateStatus PROVE IInv'
<1>1. ~At("idle")
  BY DEF UpdateStatus, At
<1>2. cr \in CR /\ worker.mem.status \in Status \cup {NoStatus}
  BY <1>1, BusyWorker, CRType DEF IInv, TypeOK
<1>3. cr' \in CR /\ cr'.state = cr.state /\ worker' = Idle /\ worker'.pc = "idle"
  BY <1>2 DEF UpdateStatus, CR, Idle
<1>4. TypeOK' /\ Held' /\ OperationKnown' /\ SpecKept'
  BY <1>3 DEF UpdateStatus, IInv, TypeOK, Held, CacheFollows, ClusterHeld, SeenHeld, StepJustified,
              OperationKnown, SpecKept, At
<1>5. QED
  BY <1>4 DEF IInv

LEMMA RemoveFinalizerInvariant ==
  ASSUME IInv, RemoveFinalizer PROVE IInv'
<1>1. cr' \in CR /\ cr'.state = "gone" /\ worker' = Idle /\ worker'.pc = "idle"
  BY DEF RemoveFinalizer, IInv, TypeOK, CR, Lifecycle, Idle
<1>2. cr.state = "deleting" /\ cache.state \in {"deleting", "gone"} /\ cluster.status = "NONE"
  BY DEF RemoveFinalizer, IInv, Held, SeenHeld, StepJustified, At
<1>3. TypeOK' /\ Held' /\ OperationKnown' /\ SpecKept'
  BY <1>1, <1>2 DEF RemoveFinalizer, IInv, TypeOK, Held, CacheFollows, ClusterHeld, SeenHeld,
                    StepJustified, OperationKnown, SpecKept, At
<1>4. QED
  BY <1>3 DEF IInv

\* An Update of the object, that leaves its lifecycle alone or adds the finalizer.
LEMMA UpdateObjectInvariant ==
  ASSUME IInv, ~At("idle"), UNCHANGED <<cache, cluster, edits, failures, foreign>>,
         NEW new \in CR, NEW pc \in Steps, NEW late \in BOOLEAN, UpdateObject(new, pc, late),
         new.state = cr.state \/ (cr.state = "new" /\ new.state = "managed"),
         pc \notin {"updateGet", "call", "unfinalize", "lateInit"},
         pc \in {"create", "update"} => new.state = "managed",
         pc = "delete" => new.state = "deleting",
         pc = "finalizer" => new.state = "new" /\ worker.next \in {"create", "update", "status"},
         late \/ cluster.status = "NONE"
  PROVE  IInv'
<1> DEFINE mem == [new EXCEPT !.status = IF new.status = NoStatus THEN worker.mem.status ELSE @]
<1>1. worker \in Busy /\ worker.mem.status \in Status \cup {NoStatus}
  BY BusyWorker, CRType DEF IInv
<1>2. mem \in CR /\ mem.spec = new.spec
  BY <1>1 DEF CR
<1>3. worker' = [worker EXCEPT !.pc = pc, !.late = late, !.seen = new, !.mem = mem]
  BY DEF UpdateObject
<1> HIDE DEF mem
<1>4. /\ worker' \in Busy /\ worker'.pc = pc /\ worker'.late = late /\ worker'.seen = new
      /\ worker'.mem = mem /\ worker'.next = worker.next /\ cr' = new /\ cr = worker.seen
  <2>1. cr' = new /\ cr = worker.seen
    BY DEF UpdateObject
  <2>2. /\ worker' \in Busy /\ worker'.pc = pc /\ worker'.late = late /\ worker'.seen = new
        /\ worker'.mem = mem /\ worker'.next = worker.next
    BY <1>1, <1>2, <1>3 DEF Busy, Steps
  <2>3. QED
    BY <2>1, <2>2
<1>5. TypeOK' /\ CacheFollows' /\ ClusterHeld'
  BY <1>4 DEF IInv, TypeOK, Held, CacheFollows, ClusterHeld
<1>6. SeenHeld'
  BY <1>4 DEF IInv, Held, CacheFollows, SeenHeld, At
<1>7. StepJustified' /\ OperationKnown' /\ SpecKept'
  BY <1>2, <1>4 DEF StepJustified, OperationKnown, SpecKept, At
<1>8. QED
  BY <1>5, <1>6, <1>7 DEF IInv, Held

LEMMA LateInitInvariant ==
  ASSUME IInv, LateInit PROVE IInv'
<1> DEFINE new == [cr EXCEPT !.spec = worker.mem.spec]
           pc == AfterObserve(worker.seen.state, worker.next)
<1>1. ~At("idle") /\ At("lateInit") /\ cr \in CR
  BY DEF LateInit, At, IInv, TypeOK
<1>2. new \in CR /\ new.state = cr.state
  BY <1>1, BusyWorker DEF CR, IInv
<1>3. UpdateObject(new, pc, TRUE) /\ cr = worker.seen
  BY DEF LateInit, UpdateObject
<1>4. /\ worker.seen.state \in {"new", "managed", "deleting"}
      /\ IF worker.seen.state = "deleting" THEN worker.next = "delete" ELSE worker.next \in {"update", "status"}
  BY <1>1 DEF IInv, Held, SeenHeld, StepJustified
<1>5. /\ pc \in {"finalizer", "update", "status", "delete"} /\ pc \in Steps
      /\ pc = "finalizer" => worker.seen.state = "new" /\ worker.next \in {"update", "status"}
      /\ pc = "update" => worker.seen.state = "managed"
      /\ pc = "delete" => worker.seen.state = "deleting"
  BY <1>4 DEF AfterObserve, Steps
<1>6. UNCHANGED <<cache, cluster, edits, failures, foreign>>
  BY DEF LateInit
<1> HIDE DEF new, pc
<1>7. QED
  BY <1>1, <1>2, <1>3, <1>5, <1>6, UpdateObjectInvariant

LEMMA AddFinalizerInvariant ==
  ASSUME IInv, AddFinalizer PROVE IInv'
<1> DEFINE new == [cr EXCEPT !.state = "managed"]
           pc == worker.next
<1>1. ~At("idle") /\ At("finalizer") /\ cr \in CR /\ worker.late \in BOOLEAN
  BY BusyWorker DEF AddFinalizer, At, IInv, TypeOK
<1>2. new \in CR /\ new.state = "managed"
  BY <1>1 DEF CR, Lifecycle
<1>3. UpdateObject(new, pc, worker.late) /\ cr = worker.seen
  BY DEF AddFinalizer, UpdateObject
<1>4. cr.state = "new" /\ pc \in {"create", "update", "status"} /\ cluster.status = "NONE"
  BY <1>1, <1>3 DEF IInv, Held, StepJustified, ClusterHeld
<1>5. pc \in Steps /\ UNCHANGED <<cache, cluster, edits, failures, foreign>>
  BY <1>4 DEF Steps, AddFinalizer
<1> HIDE DEF new, pc
<1>6. QED
  BY <1>1, <1>2, <1>3, <1>4, <1>5, UpdateObjectInvariant

\* A step of the worker alone, that keeps what it has seen.
LEMMA WorkerMoves ==
  ASSUME IInv, ~At("idle"), UNCHANGED <<cr, cache, cluster, edits, failures, foreign>>,
         worker' \in Busy, worker'.seen = worker.seen, StepJustified', OperationKnown', SpecKept'
  PROVE  IInv'
<1>1. TypeOK' /\ CacheFollows' /\ ClusterHeld'
  BY DEF IInv, TypeOK, Held, CacheFollows, ClusterHeld
<1>2. SeenHeld'
  BY DEF IInv, Held, SeenHeld
<1>3. QED
  BY <1>1, <1>2 DEF IInv, Held

LEMMA ObserveInvariant ==
  ASSUME IInv, Observe PROVE IInv'
<1> DEFINE state == worker.seen.state
           spec  == LateInitializeSpec(worker.mem.spec, cluster.params)
           next  == IF state = "deleting" THEN "delete"
                    ELSE IF IsUpToDate(spec, cluster) THEN "status" ELSE "update"
           pc    == IF spec # worker.mem.spec THEN "lateInit" ELSE AfterObserve(state, next)
           mem   == [worker.mem EXCEPT !.status = GenerateObservation(cluster), !.spec = spec]
<1>1. ~At("idle") /\ At("observe") /\ UNCHANGED <<cr, cache, cluster, edits, failures, foreign>>
  BY DEF Observe, At
<1>2. /\ worker \in Busy /\ worker.mem \in CR /\ worker.mem.spec \in Params /\ cluster \in Cluster
      /\ cluster.params \in Params /\ state \in {"new", "managed", "deleting"}
  BY <1>1, BusyWorker, CRType DEF IInv, TypeOK, Cluster, Held, SeenHeld
<1>3. \A f \in Fields \ Overwritten :
        worker.seen.spec[f] # Unset => worker.mem.spec[f] = worker.seen.spec[f]
  BY <1>1 DEF IInv, SpecKept
<1>4. CASE Found(cluster)
  <2>1. worker' = [worker EXCEPT !.pc = pc, !.next = next, !.mem = mem]
    BY <1>4 DEF Observe
  <2>2. /\ spec \in Params
        /\ \A f \in Fields \ Overwritten : worker.mem.spec[f] # Unset => spec[f] = worker.mem.spec[f]
    BY <1>2, LateInitializeType
  <2>3. GenerateObservation(cluster) \in Status
    BY <1>2, <1>4 DEF Found, GenerateObservation, Cluster
  <2>4. mem \in CR /\ mem.spec = spec /\ mem.status = cluster.status
    BY <1>2, <2>2, <2>3 DEF CR, GenerateObservation
  <2>5. IF state = "deleting" THEN next = "delete" ELSE next \in {"update", "status"}
    OBVIOUS
  <2>6. /\ pc \in {"lateInit", "finalizer", "update", "status", "delete"} /\ pc \in Steps
        /\ pc = "finalizer" => state = "new"
        /\ pc = "update" => state = "managed"
        /\ pc = "delete" => state = "deleting"
    BY <1>2, <2>5 DEF AfterObserve, Steps
  <2> HIDE DEF pc, next, mem, spec
  <2>7. /\ worker' \in Busy /\ worker'.pc = pc /\ worker'.next = next /\ worker'.mem = mem
        /\ worker'.seen = worker.seen
    BY <1>2, <2>1, <2>4, <2>5, <2>6 DEF Busy, Steps
  <2>8. StepJustified'
    BY <2>5, <2>6, <2>7 DEF StepJustified, At
  <2>9. OperationKnown'
    BY <1>1, <2>4, <2>6, <2>7 DEF OperationKnown, At
  <2>10. SpecKept'
    BY <1>3, <2>2, <2>4, <2>7 DEF SpecKept
  <2>11. QED
    BY <1>1, <2>7, <2>8, <2>9, <2>10, WorkerMoves
<1>5. CASE ~Found(cluster) /\ state = "deleting"
  <2>1. Goto("unfinalize") /\ cluster.status = "NONE"
    BY <1>5 DEF Observe, Found
  <2>2. /\ worker' \in Busy /\ worker'.pc = "unfinalize" /\ worker'.seen = worker.seen
        /\ worker'.mem = worker.mem
    BY <1>1, <2>1, GotoType DEF IInv, Steps
  <2>3. StepJustified' /\ OperationKnown' /\ SpecKept'
    BY <1>1, <1>3, <1>5, <2>1, <2>2 DEF StepJustified, OperationKnown, SpecKept, At
  <2>4. QED
    BY <1>1, <2>2, <2>3, WorkerMoves
<1>6. CASE ~Found(cluster) /\ state # "deleting"
  <2> DEFINE to == AfterObserve(state, "create")
  <2>1. worker' = [worker EXCEPT !.pc = to, !.next = "create"] /\ cluster.status = "NONE"
    BY <1>6 DEF Observe, Found
  <2>2. to \in {"finalizer", "create"} /\ (to = "finalizer" <=> state = "new")
    BY DEF AfterObserve
  <2> HIDE DEF to
  <2>3. /\ worker' \in Busy /\ worker'.pc = to /\ worker'.next = "create" /\ worker'.seen = worker.seen
        /\ worker'.mem = worker.mem
    BY <1>2, <2>1, <2>2 DEF Busy
  <2>4. StepJustified' /\ OperationKnown' /\ SpecKept'
    BY <1>1, <1>2, <1>3, <1>6, <2>1, <2>2, <2>3 DEF StepJustified, OperationKnown, SpecKept, At
  <2>5. QED
    BY <1>1, <2>3, <2>4, WorkerMoves
<1>7. QED
  BY <1>4, <1>5, <1>6

LEMMA CreateInvariant ==
  ASSUME IInv, Create PROVE IInv'
<1> DEFINE req == GenerateCluster(worker.mem.spec, NoCluster.params)
           p == [f \in Fields |-> IF req[f] = Unset THEN Default[f] ELSE req[f]]
           made == [status |-> "PROVISIONING", boot |-> ~Autopilot, op |-> NoOp, params |-> p]
<1>1. ~At("idle") /\ At("create") /\ UNCHANGED <<cr, cache, edits, failures, foreign>> /\ Goto("status")
  BY DEF Create, At
<1>2. cluster' = cluster \/ cluster' = made
  BY DEF Create
<1>3. p \in Params
  <2>1. req \in Params
    BY <1>1, GenerateType, NoClusterType, BusyWorker, CRType DEF IInv
  <2>2. QED
    BY <2>1, ParamsAssumption DEF Params
<1>4. made \in Cluster /\ made.status = "PROVISIONING"
  BY <1>3 DEF Cluster, Status, NoOp, Opt
<1>5. cr.state \in {"managed", "deleting"}
  BY <1>1 DEF IInv, Held, SeenHeld, StepJustified, At
<1> HIDE DEF made
<1>6. ClusterHeld' /\ cluster' \in Cluster
  BY <1>1, <1>2, <1>4, <1>5 DEF IInv, TypeOK, Held, ClusterHeld
<1>7. QED
  BY <1>1, <1>6, Finish

LEMMA UpdateInvariant ==
  ASSUME IInv, Update PROVE IInv'
<1> DEFINE pc == IF worker.mem.status \in {"RECONCILING", "PROVISIONING"} THEN "status" ELSE "updateGet"
<1>1. /\ ~At("idle") /\ At("update") /\ UNCHANGED <<cr, cache, cluster, edits, failures, foreign>> /\ Goto(pc)
  BY DEF Update, At
<1>2. pc \in {"status", "updateGet"} /\ pc \in Steps
  BY DEF Steps
<1>3. /\ worker' \in Busy /\ worker'.pc = pc /\ worker'.seen = worker.seen /\ worker'.mem = worker.mem
      /\ worker'.late = worker.late
  BY <1>1, <1>2, GotoType DEF IInv
<1>4. StepJustified' /\ SpecKept'
  BY <1>1, <1>2, <1>3 DEF IInv, Held, StepJustified, SpecKept, At
<1>5. OperationKnown'
  BY <1>1, <1>3, BusyWorker DEF IInv, OperationKnown, At
<1>6. QED
  BY <1>1, <1>3, <1>4, <1>5, WorkerMoves

LEMMA UpdateGetInvariant ==
  ASSUME IInv, UpdateGet PROVE IInv'
<1>1. ~At("idle") /\ At("updateGet") /\ UNCHANGED <<cr, cache, cluster, edits, failures, foreign>>
  BY DEF UpdateGet, At
<1>2. CASE Goto("status")
  <2>1. ClusterHeld' /\ cluster' \in Cluster
    BY <1>1 DEF IInv, TypeOK, Held, ClusterHeld
  <2>2. QED
    BY <1>1, <1>2, <2>1, Finish
<1>3. CASE ~Goto("status")
  <2> DEFINE t == UpdateFn(worker.mem.spec, cluster)
  <2>1. worker' = [worker EXCEPT !.pc = "call", !.target = t] /\ ~IsUpToDate(worker.mem.spec, cluster)
    BY <1>3 DEF UpdateGet
  <2>2. worker \in Busy /\ worker.mem.spec \in Params /\ cluster \in Cluster
    BY <1>1, BusyWorker, CRType DEF IInv, TypeOK
  <2>3. t \in Fields \cup {Bootstrap}
    BY <2>1, <2>2, UpdateFnType
  <2> HIDE DEF t
  <2>4. /\ worker' \in Busy /\ worker'.pc = "call" /\ worker'.target = t /\ worker'.seen = worker.seen
        /\ worker'.mem = worker.mem /\ worker'.late = worker.late
    BY <2>1, <2>2, <2>3 DEF Busy
  <2>5. StepJustified' /\ OperationKnown' /\ SpecKept'
    BY <1>1, <2>3, <2>4 DEF IInv, Held, StepJustified, OperationKnown, SpecKept, At
  <2>6. QED
    BY <1>1, <2>4, <2>5, WorkerMoves
<1>4. QED
  BY <1>2, <1>3

LEMMA UpdateCallInvariant ==
  ASSUME IInv, UpdateCall PROVE IInv'
<1> DEFINE v == IF worker.target = Bootstrap THEN Unset ELSE worker.mem.spec[worker.target]
           o == [target |-> worker.target, value |-> v]
<1>1. ~At("idle") /\ At("call") /\ UNCHANGED <<cr, cache, edits, failures, foreign>> /\ Goto("status")
  BY DEF UpdateCall, At
<1>2. /\ worker.target \in Fields \cup {Bootstrap} /\ worker.seen.state = "managed"
      /\ cr.state \in {"managed", "deleting"}
  BY <1>1 DEF IInv, Held, SeenHeld, StepJustified, At
<1>3. v \in Opt
  BY <1>1, <1>2, BusyWorker, CRType DEF IInv, Params, Opt
<1>4. o \in [target : Fields \cup {Bootstrap, NoTarget}, value : Opt]
  BY <1>2, <1>3
<1>5. cluster' = cluster \/ cluster' = [cluster EXCEPT !.status = "RECONCILING", !.op = o]
  BY DEF UpdateCall
<1> HIDE DEF v, o
<1>6. cluster' \in Cluster /\ (cluster' = cluster \/ cluster'.status = "RECONCILING")
  BY <1>4, <1>5 DEF IInv, TypeOK, Cluster, Status
<1>7. ClusterHeld'
  BY <1>1, <1>2, <1>6 DEF IInv, Held, ClusterHeld
<1>8. QED
  BY <1>1, <1>6, <1>7, Finish

LEMMA DeleteInvariant ==
  ASSUME IInv, Delete PROVE IInv'
<1>1. ~At("idle") /\ At("delete") /\ UNCHANGED <<cr, cache, edits, failures, foreign>> /\ Goto("status")
  BY DEF Delete, At
<1>2. cluster.status # "NONE" => cr.state = "deleting"
  BY <1>1 DEF IInv, Held, ClusterHeld, SeenHeld, StepJustified
<1>3. \/ cluster' = cluster
      \/ /\ cluster.status # "NONE"
         /\ cluster' = [cluster EXCEPT !.status = "STOPPING", !.op = NoOp]
  BY DEF Delete
<1>4. cluster' \in Cluster /\ (cluster' = cluster \/ (cluster.status # "NONE" /\ cluster'.status = "STOPPING"))
  <2>1. cluster \in Cluster /\ NoOp \in [target : Fields \cup {Bootstrap, NoTarget}, value : Opt]
    BY DEF IInv, TypeOK, NoOp, Opt
  <2>2. QED
    BY <1>3, <2>1 DEF Cluster, Status
<1>5. ClusterHeld'
  BY <1>1, <1>2, <1>4 DEF IInv, Held, ClusterHeld
<1>6. QED
  BY <1>1, <1>4, <1>5, Finish

LEMMA InvariantStep ==
  ASSUME IInv, [Next]_vars PROVE IInv'
<1>1. CASE UNCHANGED vars
  <2>1. TypeOK' /\ CacheFollows' /\ ClusterHeld'
    BY <1>1 DEF vars, IInv, TypeOK, Held, CacheFollows, ClusterHeld
  <2>2. QED
    BY <1>1, <2>1, StepAround DEF vars
<1>2. CASE Service
  BY <1>2, FinishOperationInvariant, FailOperationInvariant, ForeignDeleteInvariant DEF Service
<1>3. CASE WorkerStep
  BY <1>3, ObserveInvariant, LateInitInvariant, AddFinalizerInvariant, RemoveFinalizerInvariant,
     CreateInvariant, UpdateInvariant, UpdateGetInvariant, UpdateCallInvariant, DeleteInvariant,
     UpdateStatusInvariant DEF WorkerStep
<1>4. QED
  BY <1>1, <1>2, <1>3, EditSpecInvariant, DeleteCRInvariant, SyncInvariant, BeginInvariant,
     FailInvariant DEF Next

LEMMA Invariance == Spec => []IInv
<1>1. Init => IInv
  BY InitialInvariant
<1>2. IInv /\ [Next]_vars => IInv'
  BY InvariantStep
<1>3. QED
  BY <1>1, <1>2, PTL DEF Spec

-----------------------------------------------------------------------------
(* Every step is one of ManagedLifecycle's.                                *)

LEMMA Stutters ==
  ASSUME UNCHANGED foreign, cr'.state = cr.state, (cluster'.status = "NONE") = (cluster.status = "NONE")
  PROVE  UNCHANGED Promise!lifecycle
  BY DEF Promise!lifecycle

LEMMA PromiseStep ==
  ASSUME IInv, [Next]_vars PROVE [Promise!Next]_(Promise!lifecycle)
<1> USE DEF Promise!Next
<1>1. CASE UNCHANGED vars
  BY <1>1, Stutters DEF vars
<1>2. CASE EditSpec
  <2>1. cr'.state = cr.state
    BY <1>2 DEF EditSpec, IInv, TypeOK, CR
  <2>2. QED
    BY <1>2, <2>1, Stutters DEF EditSpec
<1>3. CASE DeleteCR
  <2>1. cr.state \in {"new", "managed"} /\ cr'.state = IF cr.state = "new" THEN "gone" ELSE "deleting"
    BY <1>3 DEF DeleteCR, IInv, TypeOK, CR
  <2>2. Promise!GiveUp
    BY <1>3, <2>1 DEF Promise!GiveUp, DeleteCR
  <2>3. QED
    BY <2>2
<1>4. CASE Sync \/ Begin \/ Fail \/ Observe \/ Update \/ UpdateGet
  BY <1>4, Stutters DEF Sync, Begin, Fail, Observe, Update, UpdateGet
<1>5. CASE FinishOperation
  <2>1. CASE cluster.status = "STOPPING"
    <3>1. Promise!Remove
      BY <1>5, <2>1, NoClusterType DEF Promise!Remove, FinishOperation, IInv, Held, ClusterHeld
    <3>2. QED
      BY <3>1
  <2>2. CASE cluster.status # "STOPPING"
    <3>1. cluster'.status = "RUNNING" /\ cluster.status # "NONE"
      BY <1>5, <2>2 DEF FinishOperation, IInv, TypeOK, Cluster
    <3>2. QED
      BY <1>5, <3>1, Stutters DEF FinishOperation
  <2>3. QED
    BY <2>1, <2>2
<1>6. CASE FailOperation
  <2>1. cluster'.status = "ERROR" /\ cluster.status # "NONE"
    BY <1>6 DEF FailOperation, IInv, TypeOK, Cluster
  <2>2. QED
    BY <1>6, <2>1, Stutters DEF FailOperation
<1>7. CASE ForeignDelete
  <2>1. foreign' # foreign /\ cluster'.status = "NONE"
    BY <1>7, NoClusterType DEF ForeignDelete, IInv, TypeOK
  <2>2. Promise!OthersAct
    BY <1>7, <2>1 DEF Promise!OthersAct, ForeignDelete
  <2>3. QED
    BY <2>2
<1>8. CASE LateInit \/ UpdateStatus
  <2>1. cr'.state = cr.state
    BY <1>8 DEF LateInit, UpdateStatus, UpdateObject, IInv, TypeOK, CR
  <2>2. QED
    BY <1>8, <2>1, Stutters DEF LateInit, UpdateStatus
<1>9. CASE AddFinalizer
  <2>1. cr.state = "new" /\ cr'.state = "managed"
    BY <1>9 DEF AddFinalizer, UpdateObject, IInv, TypeOK, CR, Held, StepJustified
  <2>2. Promise!Hold
    BY <1>9, <2>1 DEF Promise!Hold, AddFinalizer
  <2>3. QED
    BY <2>2
<1>10. CASE RemoveFinalizer
  <2>1. cr.state = "deleting" /\ cr'.state = "gone" /\ cluster.status = "NONE"
    BY <1>10 DEF RemoveFinalizer, IInv, TypeOK, CR, Held, StepJustified
  <2>2. Promise!Release
    BY <1>10, <2>1 DEF Promise!Release, RemoveFinalizer
  <2>3. QED
    BY <2>2
<1>11. CASE Create \/ UpdateCall
  <2>1. cr.state \in {"managed", "deleting"} /\ UNCHANGED <<cr, foreign>>
    BY <1>11 DEF Create, UpdateCall, At, IInv, Held, SeenHeld, StepJustified
  <2>2. cluster' = cluster \/ cluster'.status # "NONE"
    <3>1. CASE Create
      BY <3>1 DEF Create
    <3>2. CASE UpdateCall
      <4>1. cluster' = cluster \/ \E o : cluster' = [cluster EXCEPT !.status = "RECONCILING", !.op = o]
        BY <3>2, Zenon DEF UpdateCall
      <4>2. QED
        BY <4>1 DEF IInv, TypeOK, Cluster
    <3>3. QED
      BY <1>11, <3>1, <3>2
  <2>3. Promise!Provision \/ UNCHANGED Promise!lifecycle
    BY <2>1, <2>2 DEF Promise!Provision, Promise!lifecycle
  <2>4. QED
    BY <2>3
<1>12. CASE Delete
  <2>1. cluster' = cluster \/ (cluster.status # "NONE" /\ cluster'.status = "STOPPING")
    BY <1>12 DEF Delete, IInv, TypeOK, Cluster
  <2>2. QED
    BY <1>12, <2>1, Stutters DEF Delete
<1>13. QED
  BY <1>1, <1>2, <1>3, <1>4, <1>5, <1>6, <1>7, <1>8, <1>9, <1>10, <1>11, <1>12
     DEF Next, Service, WorkerStep

\* What a step of the provider does to a value that the user has set.
LEMMA SurvivesStep ==
  ASSUME IInv, [Next]_vars, edits' = edits, NEW f \in Fields \ Overwritten, cr.spec[f] # Unset
  PROVE  cr'.spec[f] = cr.spec[f]
<1>1. cr \in CR /\ edits \in Int
  BY DEF IInv, TypeOK
<1>2. CASE LateInit
  <2>1. cr = worker.seen /\ cr'.spec = worker.mem.spec /\ ~At("idle")
    BY <1>1, <1>2 DEF LateInit, UpdateObject, CR, At
  <2>2. QED
    BY <2>1 DEF IInv, SpecKept
<1>3. CASE AddFinalizer \/ DeleteCR \/ RemoveFinalizer \/ UpdateStatus
  BY <1>1, <1>3 DEF AddFinalizer, UpdateObject, DeleteCR, RemoveFinalizer, UpdateStatus, CR
<1>4. CASE EditSpec
  BY <1>1, <1>4 DEF EditSpec
<1>5. CASE UNCHANGED cr
  BY <1>5
<1>6. QED
  <2>1. UNCHANGED vars => UNCHANGED cr
    BY DEF vars
  <2>2. Sync \/ Service \/ Begin \/ Fail => UNCHANGED cr
    BY DEF Sync, Service, FinishOperation, FailOperation, ForeignDelete, Begin, Fail
  <2>3. Observe \/ Create \/ Update \/ UpdateGet \/ UpdateCall \/ Delete => UNCHANGED cr
    BY DEF Observe, Create, Update, UpdateGet, UpdateCall, Delete
  <2>4. QED
    BY <1>2, <1>3, <1>4, <1>5, <2>1, <2>2, <2>3 DEF Next, WorkerStep

-----------------------------------------------------------------------------
(* The theorems.                                                           *)

\* The object, its copies and the cluster are well formed: the update that
\* IsUpToDate selects is always one there is.
THEOREM TypeCorrect == Spec => []TypeOK
<1>1. IInv => TypeOK
  BY DEF IInv
<1>2. QED
  BY <1>1, Invariance, PTL

\* However Create and Delete are passed over by their guards, fail or are called
\* twice, and however old the recorded status is: no cluster outlives its object.
THEOREM NoClusterOrphaned == Spec => []NoOrphanedCluster
<1>1. IInv => NoOrphanedCluster
  BY DEF IInv, Held, ClusterHeld, NoOrphanedCluster
<1>2. QED
  BY <1>1, Invariance, PTL

\* Update's guard works: an update waits for the one before it, if the reconcile
\* has not stored a late-initialised spec.
THEOREM UpdateWaits == Spec => []UpdatesWait
<1>1. IInv => UpdatesWait
  BY DEF IInv, OperationKnown, UpdatesWait, At
<1>2. QED
  BY <1>1, Invariance, PTL

\* Observe, Create, Update and Delete of the cluster controller, with the
\* reconciler that calls them, implement ManagedLifecycle.
THEOREM Implementation == Spec => KeepsPromise
<1>1. Init => Promise!Init
  BY NoClusterType DEF Init, Promise!Init
<1>2. IInv /\ [Next]_vars => [Promise!Next]_(Promise!lifecycle)
  BY PromiseStep
<1>3. QED
  BY <1>1, <1>2, Invariance, PTL DEF Spec, KeepsPromise, Promise!Spec

\* What the user has set is never changed by a store of the provider, as long as
\* LateInitializeSpec writes over nothing.
THEOREM ValuesSurvive ==
  ASSUME Overwritten = {} PROVE Spec => UserValuesSurvive
<1> DEFINE Survive == \A f \in Fields : cr.spec[f] # Unset /\ cr'.spec[f] # cr.spec[f] => edits' # edits
<1>1. IInv /\ [Next]_vars => [Survive]_vars
  BY SurvivesStep
<1>2. QED
  BY <1>1, Invariance, PTL DEF Spec, UserValuesSurvive

-----------------------------------------------------------------------------
(* Where the statements hold that the code contradicts elsewhere.          *)

\* A parameter that is not filled in only where the cluster has none is
\* compared: where IsUpToDate finds nothing, it has the value the object sets.
THEOREM ComparisonMeansSame ==
  ASSUME \A i \in 1..Len(UpdateOrder) : UpdateOrder[i] \notin Sticky PROVE UpToDateMeansSame
<1>1. SUFFICES ASSUME Diffs(cr.spec, cluster.params) = {}, NEW i \in 1..Len(UpdateOrder),
                      cr.spec[UpdateOrder[i]] # Unset
               PROVE  cluster.params[UpdateOrder[i]] = cr.spec[UpdateOrder[i]]
  BY DEF UpToDateMeansSame, IsUpToDate
<1>2. GenerateCluster(cr.spec, cluster.params)[UpdateOrder[i]] = cluster.params[UpdateOrder[i]]
  BY <1>1 DEF Diffs
<1>3. UpdateOrder[i] \in Fields
  BY ParamsAssumption
<1>4. QED
  BY <1>1, <1>2, <1>3 DEF GenerateCluster

\* Without late initialisation no reconcile loses the status it observed.
NeverLate == ~At("idle") => worker.late = FALSE /\ ~At("lateInit")

LEMMA NeverLateStep ==
  ASSUME LateInited \cup Overwritten = {}, IInv, NeverLate, [Next]_vars PROVE NeverLate'
<1>1. CASE EditSpec \/ DeleteCR \/ Sync \/ Service \/ UNCHANGED vars
  BY <1>1 DEF EditSpec, DeleteCR, Sync, Service, FinishOperation, FailOperation, ForeignDelete, vars,
              NeverLate, At
<1>2. CASE Begin
  BY <1>2 DEF Begin, NeverLate, At
<1>3. ASSUME ~At("idle"), NEW pc \in Steps, Goto(pc), pc # "lateInit" PROVE NeverLate'
  BY <1>3, GotoType DEF IInv, NeverLate, At
<1>4. CASE worker' = Idle
  BY <1>4 DEF Idle, NeverLate, At
<1>5. CASE Fail \/ Create \/ Update \/ Delete \/ UpdateCall \/ RemoveFinalizer \/ UpdateStatus
  <2>1. worker' = Idle \/ (~At("idle") /\ \E pc \in {"status", "updateGet"} : Goto(pc))
    BY <1>5 DEF Fail, Create, Update, Delete, UpdateCall, RemoveFinalizer, UpdateStatus, At
  <2>2. QED
    BY <1>3, <1>4, <2>1 DEF Steps
<1>6. CASE UpdateGet
  <2>1. CASE Goto("status")
    BY <1>3, <1>6, <2>1 DEF UpdateGet, Steps, At
  <2>2. CASE worker' = [worker EXCEPT !.pc = "call", !.target = UpdateFn(worker.mem.spec, cluster)]
    <3>1. worker \in Busy /\ worker.late = FALSE
      BY <1>6, BusyWorker DEF UpdateGet, IInv, NeverLate, At
    <3>2. worker'.pc = "call" /\ worker'.late = FALSE
      BY <2>2, <3>1 DEF Busy
    <3>3. QED
      BY <3>2 DEF NeverLate, At
  <2>3. QED
    BY <1>6, <2>1, <2>2 DEF UpdateGet
<1>7. CASE AddFinalizer
  <2>1. worker \in Busy /\ worker.late = FALSE /\ worker.next # "lateInit"
    BY <1>7, BusyWorker DEF AddFinalizer, IInv, NeverLate, At
  <2>2. worker'.pc = worker.next /\ worker'.late = FALSE
    BY <1>7, <2>1 DEF AddFinalizer, UpdateObject, Busy
  <2>3. QED
    BY <2>1, <2>2 DEF NeverLate, At
<1>8. CASE Observe
  <2> DEFINE spec == LateInitializeSpec(worker.mem.spec, cluster.params)
  <2>1. worker \in Busy /\ worker.late = FALSE /\ worker.mem.spec \in Params
    BY <1>8, BusyWorker, CRType DEF Observe, IInv, NeverLate, At
  <2>2. spec = worker.mem.spec
    BY <2>1 DEF LateInitializeSpec, Params
  <2>3. CASE Found(cluster)
    <3>1. PICK next \in {"delete", "status", "update"} :
            worker' = [worker EXCEPT !.pc = AfterObserve(worker.seen.state, next), !.next = next,
                         !.mem = [@ EXCEPT !.status = GenerateObservation(cluster), !.spec = spec]]
      BY <1>8, <2>2, <2>3 DEF Observe
    <3>2. worker'.pc \in {"finalizer", "delete", "status", "update"} /\ worker'.late = FALSE
      BY <2>1, <3>1 DEF Busy, AfterObserve
    <3>3. QED
      BY <3>2 DEF NeverLate, At
  <2>4. CASE ~Found(cluster)
    <3>1. worker'.pc \in {"unfinalize", "finalizer", "create"} /\ worker'.late = FALSE
      BY <1>8, <2>1, <2>4 DEF Observe, Goto, Busy, AfterObserve
    <3>2. QED
      BY <3>1 DEF NeverLate, At
  <2>5. QED
    BY <2>3, <2>4
<1>9. CASE LateInit
  BY <1>9 DEF LateInit, NeverLate, At
<1>10. QED
  BY <1>1, <1>2, <1>5, <1>6, <1>7, <1>8, <1>9 DEF Next, WorkerStep

\* "Do not issue another update until the cluster finishes the previous one"
\* (cluster.go:176) is kept where no parameter is late-initialised.
THEOREM UpdatesOneAtATime ==
  ASSUME LateInited \cup Overwritten = {} PROVE Spec => []OneUpdateAtATime
<1>1. Init => NeverLate
  BY DEF Init, Idle, NeverLate, At
<1>2. IInv /\ NeverLate /\ [Next]_vars => NeverLate'
  BY NeverLateStep
<1>3. IInv /\ NeverLate => OneUpdateAtATime
  BY DEF IInv, OperationKnown, NeverLate, OneUpdateAtATime, At
<1>4. QED
  BY <1>1, <1>2, <1>3, Invariance, PTL DEF Spec

\* When nobody else deletes the cluster: nothing that is not being deleted has a
\* status while there is no cluster, ...
Dying == {"deleting", "gone"}
Blank(o) == o.state \notin Dying => o.status = NoStatus
MissingUnrecorded ==
  cluster.status = "NONE" =>
    /\ Blank(cr) /\ Blank(cache)
    /\ ~At("idle") /\ worker.seen.state \notin Dying =>
         worker.seen.status = NoStatus /\ worker.mem.status = NoStatus

\* ... because the cluster goes only when everybody has seen the deletion, ...
DeletionSeen ==
  cluster.status = "STOPPING" =>
    /\ cache.state \in Dying
    /\ ~At("idle") => worker.seen.state \in Dying

\* ... and whoever goes to Create has found none.
NoneFound == At("create") \/ (At("finalizer") /\ worker.next = "create") => cluster.status = "NONE"

RecordInv == MissingUnrecorded /\ DeletionSeen /\ NoneFound

\* The user, the watch and the service.
LEMMA RecordAround ==
  ASSUME MaxForeign = 0, IInv, RecordInv, EditSpec \/ DeleteCR \/ Sync \/ Service PROVE RecordInv'
<1>0. cr \in CR /\ cluster \in Cluster
  BY DEF IInv, TypeOK
<1>1. CASE EditSpec \/ DeleteCR
  <2>1. /\ UNCHANGED <<cache, worker, cluster>> /\ cr'.status = cr.status
        /\ cr'.state = cr.state \/ cr'.state \in Dying
    BY <1>0, <1>1 DEF EditSpec, DeleteCR, CR, Dying
  <2>2. Blank(cr) => Blank(cr)'
    BY <2>1 DEF Blank, Dying
  <2>3. QED
    BY <2>1, <2>2 DEF RecordInv, MissingUnrecorded, DeletionSeen, NoneFound, Blank, At
<1>2. CASE Sync
  <2>1. cache' = cr /\ UNCHANGED <<cr, worker, cluster>>
    BY <1>2 DEF Sync
  <2>2. cluster.status = "STOPPING" => cr.state \in Dying
    BY DEF IInv, Held, ClusterHeld, Dying
  <2>3. QED
    BY <2>1, <2>2 DEF RecordInv, MissingUnrecorded, DeletionSeen, NoneFound, Blank, At
<1>3. CASE Service
  <2>1. ~ForeignDelete
    BY DEF ForeignDelete, IInv, TypeOK
  <2>2. UNCHANGED <<cr, cache, worker>> /\ cluster.status # "NONE"
    BY <1>3, <2>1 DEF Service, FinishOperation, FailOperation
  <2>3. \/ cluster'.status \in {"RUNNING", "ERROR"}
        \/ cluster.status = "STOPPING" /\ cluster'.status = "NONE"
    BY <1>0, <1>3, <2>1, NoClusterType DEF Service, FinishOperation, FailOperation, Cluster
  <2>4. cluster.status = "STOPPING" => cr.state \in Dying
    BY DEF IInv, Held, ClusterHeld, Dying
  <2>5. MissingUnrecorded'
    BY <2>2, <2>3, <2>4 DEF RecordInv, DeletionSeen, MissingUnrecorded, Blank, At
  <2>6. DeletionSeen' /\ NoneFound'
    BY <2>2, <2>3 DEF RecordInv, DeletionSeen, NoneFound, At
  <2>7. QED
    BY <2>5, <2>6 DEF RecordInv
<1>4. QED
  BY <1>1, <1>2, <1>3

\* A worker that ends, or goes on from what it knows, without Create or Delete.
LEMMA RecordGoesOn ==
  ASSUME RecordInv, UNCHANGED <<cr, cache, cluster>>,
         \/ worker'.pc = "idle"
         \/ ~At("idle") /\ worker'.seen = worker.seen /\ worker'.mem = worker.mem,
         NoneFound'
  PROVE  RecordInv'
<1>1. MissingUnrecorded'
  BY DEF RecordInv, MissingUnrecorded, Blank, At
<1>2. DeletionSeen'
  BY DEF RecordInv, DeletionSeen, At
<1>3. QED
  BY <1>1, <1>2 DEF RecordInv

LEMMA RecordWorker ==
  ASSUME IInv, RecordInv, Begin \/ Fail \/ Update \/ UpdateGet \/ RemoveFinalizer \/ UpdateStatus
  PROVE  RecordInv'
<1>1. CASE Begin
  <2>1. /\ worker'.pc = "observe" /\ worker'.seen = cache /\ worker'.mem = cache
        /\ UNCHANGED <<cr, cache, cluster>>
    BY <1>1 DEF Begin
  <2>2. QED
    BY <2>1 DEF RecordInv, MissingUnrecorded, DeletionSeen, NoneFound, Blank, At
<1>2. CASE Fail \/ Update
  <2>1. ~At("idle") /\ UNCHANGED <<cr, cache, cluster>>
        /\ (worker' = Idle \/ \E pc \in {"status", "updateGet"} : Goto(pc))
    BY <1>2 DEF Fail, Update, At
  <2>2. CASE worker' = Idle
    BY <2>1, <2>2, RecordGoesOn DEF Idle, NoneFound, At
  <2>3. ASSUME NEW pc \in {"status", "updateGet"}, Goto(pc) PROVE RecordInv'
    <3>1. worker'.pc = pc /\ worker'.seen = worker.seen /\ worker'.mem = worker.mem
      BY <2>1, <2>3, GotoType DEF IInv, Steps
    <3>2. QED
      BY <2>1, <3>1, RecordGoesOn DEF NoneFound, At
  <2>4. QED
    BY <2>1, <2>2, <2>3
<1>3. CASE UpdateGet
  <2>1. worker \in Busy /\ ~At("idle") /\ UNCHANGED <<cr, cache, cluster>>
    BY <1>3, BusyWorker DEF UpdateGet, IInv, At
  <2>2. /\ worker'.pc \in {"status", "call"}
        /\ worker'.seen = worker.seen /\ worker'.mem = worker.mem
    BY <1>3, <2>1 DEF UpdateGet, Goto, Busy
  <2>3. QED
    BY <2>1, <2>2, RecordGoesOn DEF NoneFound, At
<1>4. CASE RemoveFinalizer \/ UpdateStatus
  <2>1. /\ worker'.pc = "idle" /\ UNCHANGED <<cache, cluster>> /\ cr = worker.seen /\ ~At("idle")
        /\ cr'.state = "gone" \/ (cr'.state = cr.state /\ cr'.status = worker.mem.status)
    BY <1>4 DEF RemoveFinalizer, UpdateStatus, Idle, IInv, TypeOK, CR, At
  <2>2. cluster.status = "NONE" => Blank(cr)'
    BY <2>1 DEF RecordInv, MissingUnrecorded, Blank, Dying
  <2>3. QED
    BY <2>1, <2>2 DEF RecordInv, MissingUnrecorded, DeletionSeen, NoneFound, Blank, At
<1>5. QED
  BY <1>1, <1>2, <1>3, <1>4

\* Create, Update and Delete leave a cluster that has not gone.
LEMMA RecordCall ==
  ASSUME IInv, RecordInv, Create \/ UpdateCall \/ Delete PROVE RecordInv'
<1>1. ~At("idle") /\ Goto("status") /\ UNCHANGED <<cr, cache>>
  BY DEF Create, UpdateCall, Delete, At
<1>2. worker'.pc = "status" /\ worker'.seen = worker.seen /\ worker'.mem = worker.mem
  BY <1>1, GotoType DEF IInv, Steps
<1>3. NoneFound'
  BY <1>2 DEF NoneFound, At
<1>4. CASE cluster' = cluster
  BY <1>1, <1>2, <1>3, <1>4, RecordGoesOn
<1>5. CASE cluster'.status \in {"PROVISIONING", "RECONCILING"}
  BY <1>3, <1>5 DEF RecordInv, MissingUnrecorded, DeletionSeen
<1>6. CASE cluster'.status = "STOPPING" /\ Delete
  <2>1. worker.seen.state = "deleting" /\ cache.state \in Dying
    BY <1>1, <1>6 DEF Delete, At, IInv, Held, StepJustified, SeenHeld, Dying
  <2>2. QED
    BY <1>1, <1>2, <1>3, <1>6, <2>1 DEF RecordInv, MissingUnrecorded, DeletionSeen, Dying
<1>7. QED
  <2>1. CASE Create
    <3>1. cluster' = cluster \/ cluster'.status = "PROVISIONING"
      BY <2>1 DEF Create
    <3>2. QED
      BY <1>4, <1>5, <3>1
  <2>2. CASE UpdateCall
    <3>1. cluster' = cluster \/ \E o : cluster' = [cluster EXCEPT !.status = "RECONCILING", !.op = o]
      BY <2>2, Zenon DEF UpdateCall
    <3>2. cluster' = cluster \/ cluster'.status = "RECONCILING"
      BY <3>1 DEF IInv, TypeOK, Cluster
    <3>3. QED
      BY <1>4, <1>5, <3>2
  <2>3. CASE Delete
    <3>1. cluster' = cluster \/ cluster'.status = "STOPPING"
      BY <2>3 DEF Delete, IInv, TypeOK, Cluster
    <3>2. QED
      BY <1>4, <1>6, <2>3, <3>1
  <2>4. QED
    BY <2>1, <2>2, <2>3

LEMMA RecordObserve ==
  ASSUME IInv, RecordInv, Observe PROVE RecordInv'
<1>1. worker \in Busy /\ ~At("idle") /\ UNCHANGED <<cr, cache, cluster>>
  BY BusyWorker DEF Observe, IInv, At
<1>2. CASE Found(cluster)
  <2>1. /\ worker'.seen = worker.seen
        /\ worker'.next \in {"delete", "status", "update"}
        /\ worker'.pc \in {"lateInit", "finalizer", "delete", "status", "update"}
    BY <1>1, <1>2 DEF Observe, Busy, AfterObserve
  <2>2. cluster.status # "NONE"
    BY <1>2 DEF Found
  <2>3. QED
    BY <1>1, <2>1, <2>2 DEF RecordInv, MissingUnrecorded, DeletionSeen, NoneFound, At
<1>3. CASE ~Found(cluster)
  <2>1. worker'.seen = worker.seen /\ worker'.mem = worker.mem
    BY <1>1, <1>3 DEF Observe, Goto, Busy
  <2>2. NoneFound'
    BY <1>1, <1>3 DEF NoneFound, Found
  <2>3. QED
    BY <1>1, <2>1, <2>2, RecordGoesOn
<1>4. QED
  BY <1>2, <1>3

LEMMA RecordStore ==
  ASSUME IInv, RecordInv, LateInit \/ AddFinalizer PROVE RecordInv'
<1>1. worker \in Busy /\ ~At("idle") /\ UNCHANGED <<cache, cluster>> /\ cr \in CR /\ cr = worker.seen
  BY BusyWorker DEF LateInit, AddFinalizer, UpdateObject, IInv, TypeOK, At
<1>2. PICK pc, late :
        /\ UpdateObject(cr', pc, late)
        /\ \/ At("lateInit") /\ pc = AfterObserve(worker.seen.state, worker.next) /\ cr'.state = cr.state
           \/ At("finalizer") /\ pc = worker.next /\ cr'.state = "managed" /\ cr.state = "new"
        /\ cr'.status = cr.status
  <2>1. CASE LateInit
    <3>1. UpdateObject(cr', AfterObserve(worker.seen.state, worker.next), TRUE)
      BY <2>1 DEF LateInit, UpdateObject
    <3>2. cr'.state = cr.state /\ cr'.status = cr.status
      BY <1>1, <2>1 DEF LateInit, UpdateObject, CR
    <3>3. QED
      BY <2>1, <3>1, <3>2 DEF LateInit
  <2>2. CASE AddFinalizer
    <3>1. UpdateObject(cr', worker.next, worker.late)
      BY <2>2 DEF AddFinalizer, UpdateObject
    <3>2. cr'.state = "managed" /\ cr'.status = cr.status /\ cr.state = "new"
      BY <1>1, <2>2 DEF AddFinalizer, UpdateObject, CR, IInv, Held, StepJustified
    <3>3. QED
      BY <2>2, <3>1, <3>2 DEF AddFinalizer
  <2>3. QED
    BY <2>1, <2>2
<1>3. /\ worker'.pc = pc /\ worker'.seen = cr' /\ worker'.next = worker.next
      /\ worker'.mem = [cr' EXCEPT !.status = IF cr'.status = NoStatus THEN worker.mem.status ELSE @]
  BY <1>1, <1>2 DEF UpdateObject, Busy
<1>4. cr' \in CR
  <2>1. IInv'
    BY InvariantStep DEF Next, WorkerStep
  <2>2. QED
    BY <2>1 DEF IInv, TypeOK
<1>5. worker'.mem.status = IF cr'.status = NoStatus THEN worker.mem.status ELSE cr'.status
  BY <1>3, <1>4 DEF CR
<1>6. MissingUnrecorded'
  BY <1>1, <1>2, <1>3, <1>5 DEF RecordInv, MissingUnrecorded, Blank, Dying
<1>7. DeletionSeen'
  BY <1>1, <1>2, <1>3 DEF RecordInv, DeletionSeen, Dying
<1>8. NoneFound'
  <2>1. CASE At("lateInit")
    <3>1. worker.next # "create"
      BY <2>1 DEF IInv, Held, StepJustified
    <3>2. QED
      BY <1>2, <1>3, <2>1, <3>1 DEF NoneFound, AfterObserve, At
  <2>2. CASE At("finalizer")
    BY <1>1, <1>2, <1>3, <2>2 DEF RecordInv, NoneFound, At
  <2>3. QED
    BY <1>2, <2>1, <2>2
<1>9. QED
  BY <1>6, <1>7, <1>8 DEF RecordInv

\* "Wait until creation is complete if already provisioning" (cluster.go:145)
\* does no more than that as long as nobody else deletes the cluster: Create then
\* never passes over an object whose cluster is missing.
THEOREM CreateWaits ==
  ASSUME MaxForeign = 0 PROVE Spec => []CreateWaitsForProvisioning
<1>1. Init => RecordInv
  <2>1. Init => /\ worker.pc = "idle" /\ cr.status = NoStatus /\ cache = cr /\ cluster.status = "NONE"
    BY NoClusterType DEF Init, Idle
  <2>2. QED
    BY <2>1 DEF RecordInv, MissingUnrecorded, DeletionSeen, NoneFound, Blank, At
<1>2. IInv /\ RecordInv /\ [Next]_vars => RecordInv'
  <2>1. UNCHANGED vars /\ RecordInv => RecordInv'
    BY DEF vars, RecordInv, MissingUnrecorded, DeletionSeen, NoneFound, Blank, At
  <2>2. QED
    BY <2>1, RecordAround, RecordWorker, RecordCall, RecordObserve, RecordStore DEF Next, WorkerStep
<1>3. IInv /\ RecordInv => CreateWaitsForProvisioning
  <2>1. SUFFICES ASSUME IInv, RecordInv, At("create") PROVE worker.mem.status = NoStatus
    BY DEF CreateWaitsForProvisioning, NoStatus
  <2>2. worker.seen.state = "managed" /\ cluster.status = "NONE" /\ ~At("idle")
    BY <2>1 DEF IInv, Held, StepJustified, RecordInv, NoneFound, At
  <2>3. QED
    BY <2>1, <2>2 DEF RecordInv, MissingUnrecorded, Dying
<1>4. QED
  BY <1>1, <1>2, <1>3, Invariance, PTL DEF Spec
=============================================================================
