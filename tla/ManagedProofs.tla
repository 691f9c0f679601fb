--------------------------- MODULE ManagedProofs ---------------------------
(***************************************************************************)
(* Proofs about Managed, for any controllers, parameters, values and       *)
(* number of changes by users and others.                                  *)
(***************************************************************************)
EXTENDS Managed, TLAPS

SpecValue == Values \cup {Zero, Nil, Absent}
ResourceValue == Values \cup {Zero, Absent}

-----------------------------------------------------------------------------
(* What the client does to one parameter.                                  *)

LEMMA Distinct ==
  /\ Zero \notin Values /\ Nil \notin Values /\ Absent \notin Values
  /\ Zero # Nil /\ Zero # Absent /\ Nil # Absent
  BY AtomAssumption

LEMMA LateInitializeSpecType ==
  ASSUME NEW c \in Parameter, NEW s \in SpecValue, NEW o \in ResourceValue
  PROVE  LateInitializeSpec(c, s, o) \in SpecValue
<1>1. c.late \in {"ifUnset", "ifZero", "whole", "overwrite", "copy", "panics", "panicsWhole", "never"}
  BY DEF Parameter
<1>2. InSpec(c, o) \in SpecValue /\ LateInitialize(c, s, o) \in SpecValue /\ LateInitialize(c, Nil, o) \in SpecValue
  BY DEF InSpec, LateInitialize, SpecValue, ResourceValue
<1>3. QED
  BY <1>1, <1>2 DEF LateInitializeSpec, SpecValue, ResourceValue

LEMMA GenerateType ==
  ASSUME NEW c \in Parameter, NEW s \in SpecValue, NEW base \in ResourceValue
  PROVE  Generate(c, s, base) \in ResourceValue
<1>1. c.gen \in {"always", "inStruct", "ifSet", "ifAny", "ifEmpty", "never"}
  BY DEF Parameter
<1>2. ZeroIfNil(s) \in ResourceValue /\ (~Unset(s) => s \in ResourceValue)
  BY DEF ZeroIfNil, Unset, SpecValue, ResourceValue
<1>3. QED
  BY <1>1, <1>2 DEF Generate

LEMMA SentType ==
  ASSUME NEW c \in Parameter, NEW s \in SpecValue
  PROVE  Sent(c, s) \in ResourceValue
<1>1. Blank(c) \in ResourceValue
  BY DEF Blank, ResourceValue
<1>2. Generate(c, s, Blank(c)) \in ResourceValue
  BY <1>1, GenerateType
<1>3. QED
  BY <1>2 DEF Sent, ZeroIfNil, ResourceValue

LEMMA CreatedType ==
  ASSUME NEW c \in Parameter, NEW s \in SpecValue, NEW d \in ResourceValue
  PROVE  Created(c, s, d) \in ResourceValue
  BY SentType DEF Created, ResourceValue

LEMMA PatchedType ==
  ASSUME NEW c \in Parameter, NEW s \in SpecValue, NEW old \in ResourceValue, NEW seen, NEW r
  PROVE  Patched(c, s, old, seen, r) \in ResourceValue
  BY SentType DEF Patched, ResourceValue

\* LateInitializeSpec keeps a value that is set and not to be written over.
LEMMA LateInitializeKeeps ==
  ASSUME NEW c \in Parameter, NEW s \in SpecValue, NEW o, ~Unset(s), ~Overwritten(c, s)
  PROVE  LateInitializeSpec(c, s, o) = s
<1>1. c.late \in {"ifUnset", "ifZero", "whole", "panics", "panicsWhole", "never"}
  BY DEF Parameter, Overwritten
<1>2. s # Nil /\ s # Absent /\ (c.late = "ifZero" => s # Zero) /\ ~EmptyList(c, s)
  BY DEF Unset, Overwritten, EmptyList
<1>3. QED
  BY <1>1, <1>2 DEF LateInitializeSpec, LateInitialize

\* An Update of the object stores a value, or nothing.
LEMMA StoredCases ==
  ASSUME NEW c, NEW s
  PROVE  /\ Stored(c, s) \in {s, Nil}
         /\ ~Unset(s) /\ ~Overwritten(c, s) => Stored(c, s) = s
  BY DEF Stored, Unset, Overwritten, EmptyList

-----------------------------------------------------------------------------
(* The inductive invariant.                                                *)

\* The instance is one, and the types are right.
Typed ==
  /\ ctl \in ControllerType
  /\ \A i \in DOMAIN par : par[i] \in Parameter
  /\ default \in Vals
  /\ TypeOK

\* The informer cache is never ahead of the object, and is up to date with a
\* deletion before the provider can end it.
CacheFollows ==
  /\ cr.state = "new" => cache.state = "new"
  /\ cr.state = "managed" => cache.state \in {"new", "managed"}
  /\ cr.state = "deleting" => cache.state \in {"new", "managed", "deleting"}
  /\ cr.state = "gone" => cache.state \in {"new", "deleting", "gone"}

\* A resource has an object that holds it.
ResourceHeld ==
  /\ ext # None => cr.state \in {"managed", "deleting"} \/ (ctl.keeps /\ cr.state = "gone")
  /\ ext.state = "STOPPING" => cr.state = "deleting" /\ ~ctl.keeps

\* The object as the worker last saw it, now.
SeenHeld ==
  ~At("idle") =>
    /\ worker.seen.state \in {"new", "managed", "deleting"}
    /\ worker.seen.state = "managed" => cr.state \in {"managed", "deleting"}
    /\ worker.seen.state = "deleting" => {cr.state, cache.state} \subseteq {"deleting", "gone"}

\* What the worker has seen when it is at a step.
StepJustified ==
  /\ worker.pc \in {"create", "update", "call", "late"} => worker.seen.state = "managed"
  /\ At("delete") => worker.seen.state = "deleting" /\ ~ctl.keeps
  /\ At("unfinalize") => worker.seen.state = "deleting" /\ (ext = None \/ ctl.keeps)
  /\ At("resolve") => worker.seen.state # "deleting"
  /\ At("finalizer") => worker.seen.state = "new"
  /\ worker.pc \in {"late", "finalizer"} => worker.next \in {"create", "update", "status"}
  /\ At("store") => IF worker.seen.state = "deleting"
                      THEN worker.next = "delete" /\ ~worker.late /\ ~ctl.keeps
                      ELSE worker.next \in {"update", "status"}

\* The spec in memory has every value that the object seen has, but for those
\* that are written over.
SpecKept ==
  worker.pc \notin {"idle", "status"} =>
    \A i \in DOMAIN par :
      ~Unset(worker.seen.spec[i]) /\ ~Overwritten(par[i], worker.seen.spec[i])
        => worker.spec[i] = worker.seen.spec[i]

Held == CacheFollows /\ ResourceHeld /\ SeenHeld /\ StepJustified
IInv == Typed /\ Held /\ SpecKept

-----------------------------------------------------------------------------
(* The types.                                                              *)

LEMMA TypesFixed ==
  ASSUME UNCHANGED instance
  PROVE  /\ ctl' = ctl /\ par' = par /\ default' = default
         /\ Specs' = Specs /\ Vals' = Vals /\ Recorded' = Recorded /\ Object' = Object
         /\ Busy' = Busy /\ Finishing' = Finishing /\ Resource' = Resource /\ None' = None
  BY DEF instance, Specs, Vals, Recorded, Object, Busy, Finishing, Resource, None, Nothing

LEMMA NothingType == Nothing \in Vals /\ NotRecorded \in Recorded /\ None \notin Resource
  BY DEF Nothing, Vals, NotRecorded, Recorded, None, Resource

Steps == {"resolve", "observe", "store", "finalizer", "late", "create", "update", "call", "delete",
          "unfinalize"}

LEMMA BusyWorker ==
  ASSUME TypeOK, worker.pc \notin {"idle", "status"}
  PROVE  /\ worker \in Busy /\ worker.pc \in Steps
         /\ worker.next \in {"create", "update", "delete", "status", "none"} /\ worker.late \in BOOLEAN
         /\ worker.seen \in Object /\ worker.spec \in Specs /\ worker.status \in Recorded
         /\ worker.read \in Vals
  BY DEF TypeOK, Idle, Finishing, Busy, Steps

LEMMA FinishingWorker ==
  ASSUME TypeOK, worker.pc = "status"
  PROVE  worker \in Finishing /\ worker.seen \in Object /\ worker.status \in Recorded
  BY DEF TypeOK, Idle, Finishing, Busy

LEMMA GoesType ==
  ASSUME NEW w \in Busy, NEW pc \in Steps \cup {"status"}
  PROVE  /\ Goes(w, pc) \in Busy \cup Finishing
         /\ Goes(w, pc).pc = pc /\ Goes(w, pc).seen = w.seen
         /\ pc # "status" => Goes(w, pc) = [w EXCEPT !.pc = pc]
  BY DEF Goes, Busy, Finishing, Steps

LEMMA ObservationType ==
  ASSUME Typed, NEW r \in Resource
  PROVE  GenerateObservation(r) \in Recorded
  BY NothingType DEF GenerateObservation, Resource, Recorded

LEMMA ResourceType ==
  ASSUME TypeOK
  PROVE  ext.val \in Vals /\ (ext # None => ext \in Resource)
  BY NothingType DEF TypeOK, None, Resource

LEMMA ObjectType ==
  ASSUME NEW o \in Object
  PROVE  /\ o.state \in Lifecycle /\ o.spec \in Specs /\ o.status \in Recorded
         /\ \A st \in Lifecycle : [o EXCEPT !.state = st] \in Object
         /\ \A s \in Specs : [o EXCEPT !.spec = s] \in Object
         /\ \A st \in Lifecycle, s \in Specs : [o EXCEPT !.state = st, !.spec = s] \in Object
         /\ \A t \in Recorded : [o EXCEPT !.status = t] \in Object
  BY DEF Object

LEMMA LateInitializedType ==
  ASSUME Typed, NEW s \in Specs, NEW o \in Vals
  PROVE  LateInitialized(s, o) \in Specs
  BY LateInitializeSpecType DEF Typed, LateInitialized, Specs, Vals, SpecValue, ResourceValue

LEMMA ResolvedType ==
  ASSUME NEW s \in Specs
  PROVE  Resolved(s) \in Specs
<1>1. Referenced \in Values
  BY ManagedAssumption
<1>2. QED
  BY <1>1 DEF Resolved, Specs

LEMMA StoredSpecType ==
  ASSUME NEW s \in Specs
  PROVE  /\ StoredSpec(s) \in Specs
         /\ \A i \in DOMAIN par : StoredSpec(s)[i] = Stored(par[i], s[i])
<1>1. \A i \in DOMAIN par : Stored(par[i], s[i]) \in SpecValue
  BY StoredCases DEF Specs, SpecValue
<1>2. QED
  BY <1>1 DEF StoredSpec, Specs, SpecValue

LEMMA UpdateObjectType ==
  ASSUME Typed, worker.pc \notin {"idle", "status"}, UNCHANGED instance, NEW new \in Object,
         NEW pc \in Steps \cup {"status"}, NEW status \in Recorded, UpdateObject(new, pc, status)
  PROVE  /\ cr' \in Object' /\ worker' \in Busy' \cup Finishing'
         /\ cr = worker.seen /\ worker'.pc = pc /\ worker'.seen = cr'
         /\ cr'.state = new.state /\ cr'.spec = StoredSpec(new.spec) /\ cr'.status = new.status
         /\ worker'.status = status
         /\ pc # "status" => worker'.spec = new.spec /\ worker'.next = worker.next
                             /\ worker'.late = worker.late /\ worker'.read = worker.read
<1> DEFINE stored == [new EXCEPT !.spec = StoredSpec(new.spec)]
           w == [worker EXCEPT !.seen = stored, !.spec = new.spec, !.status = status]
<1>1. worker \in Busy /\ new.spec \in Specs
  BY BusyWorker, ObjectType DEF Typed
<1>2. /\ stored \in Object
      /\ stored.state = new.state /\ stored.spec = StoredSpec(new.spec) /\ stored.status = new.status
  BY <1>1, StoredSpecType DEF Object
<1>3. /\ w \in Busy /\ w.seen = stored /\ w.spec = new.spec /\ w.next = worker.next
      /\ w.late = worker.late /\ w.status = status /\ w.read = worker.read
  BY <1>1, <1>2 DEF Busy
<1>4. /\ Goes(w, pc) \in Busy \cup Finishing /\ Goes(w, pc).pc = pc /\ Goes(w, pc).seen = stored
      /\ pc # "status" => Goes(w, pc) = [w EXCEPT !.pc = pc]
  BY <1>3, GoesType
<1>5. pc # "status" => /\ Goes(w, pc).spec = new.spec /\ Goes(w, pc).next = worker.next
                       /\ Goes(w, pc).late = worker.late /\ Goes(w, pc).read = worker.read
                       /\ Goes(w, pc).status = status
  BY <1>3, <1>4 DEF Busy
<1>6. Goes(w, pc).status = status
  BY <1>3, <1>5 DEF Goes
<1>7. cr = worker.seen /\ cr' = stored /\ worker' = Goes(w, pc)
  BY DEF UpdateObject
<1>8. QED
  BY <1>2, <1>4, <1>5, <1>6, <1>7, TypesFixed

-----------------------------------------------------------------------------
(* The invariant holds at first, and every step keeps it.                  *)

LEMMA InitialInvariant ==
  ASSUME Init PROVE IInv
<1>1. PICK x \in Instances, given \in BOOLEAN :
        /\ ctl = x.controller
        /\ left = x.changes
        /\ par = [i \in DOMAIN x.par |-> [x.par[i] EXCEPT !.ref = IF @ = "may" /\ given THEN "given" ELSE @]]
  BY DEF Init
<1>2. /\ x.controller \in ControllerType /\ x.changes \in Nat
      /\ \A i \in DOMAIN x.par : x.par[i] \in Parameter
  BY ManagedAssumption
<1>3. \A i \in DOMAIN par : par[i] \in Parameter
  <2>1. \A c \in Parameter : /\ c.ref \in {"no", "may", "given"}
                             /\ \A r \in {"no", "may", "given"} : [c EXCEPT !.ref = r] \in Parameter
    BY DEF Parameter
  <2>2. QED
    BY <1>1, <1>2, <2>1
<1>4. default \in Vals
  <2>1. Defaults \subseteq Values \cup {Zero, Absent}
    BY ManagedAssumption
  <2>2. QED
    BY <2>1 DEF Init, Vals
<1>5. PICK s \in [DOMAIN par -> Initial] : cr = [state |-> "new", spec |-> s, status |-> NotRecorded]
  BY DEF Init
<1>6. cr \in Object /\ cr.state = "new"
  <2>1. Initial \subseteq Values \cup {Zero, Nil, Absent}
    BY ManagedAssumption
  <2>2. s \in Specs
    BY <2>1 DEF Specs
  <2>3. QED
    BY <1>5, <2>2, NothingType DEF Object, Lifecycle
<1>7. /\ worker = Idle /\ worker.pc = "idle" /\ ext = None /\ ext.state = "NONE" /\ cache = cr
      /\ target = ~Unresolved(cr.spec)
  BY DEF Init, Idle, None
<1>8. Unresolved(cr.spec) \in BOOLEAN
  BY Zenon DEF Unresolved
<1>9. Typed
  BY <1>1, <1>2, <1>3, <1>4, <1>6, <1>7, <1>8 DEF Typed, TypeOK
<1>10. Held /\ SpecKept
  BY <1>6, <1>7 DEF Held, SpecKept, CacheFollows, ResourceHeld, SeenHeld, StepJustified, At
<1>11. QED
  BY <1>9, <1>10 DEF IInv

\* A step of the user, the watch or the service that leaves the worker alone.
LEMMA StepAround ==
  ASSUME IInv, UNCHANGED <<instance, worker>>,
         cr' \in Object, cache' \in Object, ext' \in Resource \cup {None}, target' \in BOOLEAN, left' \in Nat,
         CacheFollows', ResourceHeld',
         cr'.state = cr.state \/ (cr.state = "new" /\ cr'.state = "gone")
                              \/ (cr.state = "managed" /\ cr'.state = "deleting"),
         cache' \in {cache, cr}, ext = None => ext' = None
  PROVE  IInv'
<1>1. Typed'
  BY TypesFixed DEF IInv, Typed, TypeOK
<1>2. worker' = worker /\ ctl' = ctl /\ par' = par /\ None' = None
  BY TypesFixed
<1>3. SeenHeld'
  BY <1>2 DEF SeenHeld, IInv, Held, CacheFollows, At
<1>4. StepJustified'
  BY <1>2 DEF StepJustified, IInv, Held, At
<1>5. SpecKept'
  BY <1>2 DEF SpecKept, IInv
<1>6. QED
  BY <1>1, <1>3, <1>4, <1>5 DEF IInv, Held

LEMMA EditSpecInvariant ==
  ASSUME IInv, EditSpec PROVE IInv'
<1>1. PICK i \in DOMAIN par : \E v \in SpecValues(par[i]) \ {cr.spec[i]} : cr' = [cr EXCEPT !.spec[i] = v]
  BY DEF EditSpec
<1>2. PICK v \in SpecValues(par[i]) : cr' = [cr EXCEPT !.spec[i] = v]
  BY <1>1
<1>3. v \in Values \cup {Zero, Nil, Absent}
  BY DEF SpecValues
<1>4. cr \in Object /\ left \in Nat /\ left > 0
  BY DEF IInv, Typed, TypeOK, EditSpec
<1>5. [cr.spec EXCEPT ![i] = v] \in Specs
  BY <1>3, <1>4 DEF Object, Specs
<1>6. cr' = [cr EXCEPT !.spec = [cr.spec EXCEPT ![i] = v]]
  BY <1>2, <1>4 DEF Object
<1>7. cr' \in Object /\ cr'.state = cr.state /\ left' \in Nat
  BY <1>4, <1>5, <1>6 DEF Object, EditSpec
<1>8. CacheFollows' /\ ResourceHeld'
  BY <1>7, TypesFixed DEF EditSpec, IInv, Held, CacheFollows, ResourceHeld
<1>9. QED
  BY <1>7, <1>8, StepAround DEF EditSpec, IInv, Typed, TypeOK

LEMMA DeleteCRInvariant ==
  ASSUME IInv, DeleteCR PROVE IInv'
<1>1. cr \in Object
  BY DEF IInv, Typed, TypeOK
<1>2. /\ cr' \in Object
      /\ (cr.state = "new" /\ cr'.state = "gone") \/ (cr.state = "managed" /\ cr'.state = "deleting")
  BY <1>1 DEF Object, Lifecycle, DeleteCR
<1>3. CacheFollows' /\ ResourceHeld'
  BY <1>2, TypesFixed DEF DeleteCR, IInv, Held, CacheFollows, ResourceHeld
<1>4. QED
  BY <1>2, <1>3, StepAround DEF DeleteCR, IInv, Typed, TypeOK

LEMMA SyncInvariant ==
  ASSUME IInv, Sync PROVE IInv'
<1>1. CacheFollows' /\ ResourceHeld'
  BY TypesFixed DEF Sync, IInv, Held, CacheFollows, ResourceHeld, Typed, TypeOK, Object, Lifecycle
<1>2. QED
  BY <1>1, StepAround DEF Sync, IInv, Typed, TypeOK

LEMMA TargetReadyInvariant ==
  ASSUME IInv, TargetReady PROVE IInv'
<1>1. CacheFollows' /\ ResourceHeld'
  BY TypesFixed DEF TargetReady, IInv, Held, CacheFollows, ResourceHeld
<1>2. QED
  BY <1>1, StepAround DEF TargetReady, IInv, Typed, TypeOK

LEMMA FinishOperationInvariant ==
  ASSUME IInv, FinishOperation PROVE IInv'
<1>1. ext # None /\ ext \in Resource
  BY ResourceType DEF FinishOperation, IInv, Typed, None
<1>2. ext' \in Resource \cup {None} /\ ext'.state # "STOPPING"
  BY <1>1 DEF FinishOperation, Resource, None
<1>3. CacheFollows' /\ ResourceHeld'
  BY <1>1, <1>2, TypesFixed DEF FinishOperation, IInv, Held, CacheFollows, ResourceHeld
<1>4. QED
  BY <1>1, <1>2, <1>3, StepAround DEF FinishOperation, IInv, Typed, TypeOK

LEMMA DriftInvariant ==
  ASSUME IInv, Drift PROVE IInv'
<1>1. ext # None /\ ext \in Resource
  BY ResourceType DEF Drift, IInv, Typed, None
<1>2. PICK i \in DOMAIN par : \E v \in ResourceValues(par[i]) : ext' = [ext EXCEPT !.val[i] = v]
  BY DEF Drift
<1>3. PICK v \in ResourceValues(par[i]) : ext' = [ext EXCEPT !.val[i] = v]
  BY <1>2
<1>4. v \in Values \cup {Zero, Absent}
  BY DEF ResourceValues
<1>5. [ext.val EXCEPT ![i] = v] \in Vals
  BY <1>1, <1>4 DEF Resource, Vals
<1>6. ext' = [ext EXCEPT !.val = [ext.val EXCEPT ![i] = v]]
  BY <1>1, <1>3 DEF Resource
<1>7. ext' \in Resource /\ ext'.state = "RUNNING"
  BY <1>1, <1>5, <1>6 DEF Resource, Drift
<1>8. CacheFollows' /\ ResourceHeld'
  BY <1>1, <1>7, TypesFixed DEF Drift, IInv, Held, CacheFollows, ResourceHeld
<1>9. left' \in Nat
  BY DEF Drift, IInv, Typed, TypeOK
<1>10. QED
  BY <1>1, <1>7, <1>8, <1>9, StepAround DEF Drift, IInv, Typed, TypeOK

LEMMA ForeignDeleteInvariant ==
  ASSUME IInv, ForeignDelete PROVE IInv'
<1>1. CacheFollows' /\ ResourceHeld' /\ left' \in Nat
  BY TypesFixed DEF ForeignDelete, IInv, Held, CacheFollows, ResourceHeld, None, Typed, TypeOK
<1>2. QED
  BY <1>1, StepAround DEF ForeignDelete, IInv, Typed, TypeOK

LEMMA BeginInvariant ==
  ASSUME IInv, Begin PROVE IInv'
<1>1. /\ UNCHANGED instance /\ cache \in Object /\ cache.spec \in Specs /\ cache.status \in Recorded
      /\ cache.state \in {"new", "managed", "deleting"} /\ Nothing \in Vals
  BY NothingType DEF Begin, IInv, Typed, TypeOK, Object, Lifecycle
<1>2. /\ worker' \in Busy /\ worker'.pc \in {"resolve", "observe"} /\ worker'.seen = cache
      /\ worker'.spec = cache.spec
      /\ worker'.pc = "resolve" => cache.state # "deleting"
  BY <1>1 DEF Begin, Busy
<1>3. Typed'
  BY <1>1, <1>2, TypesFixed DEF Begin, IInv, Typed, TypeOK
<1>4. Held'
  <2>1. CacheFollows' /\ ResourceHeld'
    BY <1>1, TypesFixed DEF Begin, IInv, Held, CacheFollows, ResourceHeld
  <2>2. SeenHeld'
    BY <1>1, <1>2 DEF Begin, IInv, Held, CacheFollows, SeenHeld, Typed, TypeOK, Object, Lifecycle
  <2>3. StepJustified'
    BY <1>2 DEF StepJustified, At
  <2>4. QED
    BY <2>1, <2>2, <2>3 DEF Held
<1>5. SpecKept'
  BY <1>2 DEF SpecKept
<1>6. QED
  BY <1>3, <1>4, <1>5 DEF IInv

\* A worker that gives up or goes on to record the status.
LEMMA Finish ==
  ASSUME IInv, ~At("idle"), UNCHANGED <<instance, cr, cache, target, left>>,
         worker' = Idle \/ (worker' \in Finishing /\ worker'.seen = worker.seen),
         ext' \in Resource \cup {None}, ResourceHeld'
  PROVE  IInv'
<1>1. worker' \in Finishing \cup {Idle} /\ worker'.pc \in {"idle", "status"}
  BY DEF Finishing, Idle
<1>2. Typed'
  BY <1>1, TypesFixed DEF IInv, Typed, TypeOK
<1>3. Held'
  <2>1. CacheFollows'
    BY DEF IInv, Held, CacheFollows
  <2>2. SeenHeld'
    BY DEF IInv, Held, SeenHeld, At, Idle
  <2>3. StepJustified'
    BY <1>1 DEF StepJustified, At
  <2>4. QED
    BY <2>1, <2>2, <2>3 DEF Held
<1>4. SpecKept'
  BY <1>1 DEF SpecKept
<1>5. QED
  BY <1>2, <1>3, <1>4 DEF IInv

LEMMA GotoStatus ==
  ASSUME TypeOK, worker.pc \notin {"idle", "status"}, Goto("status")
  PROVE  worker' \in Finishing /\ worker'.seen = worker.seen
  BY BusyWorker DEF Goto, Goes, Finishing

LEMMA FailInvariant ==
  ASSUME IInv, Fail PROVE IInv'
<1>1. worker' = Idle \/ (worker' \in Finishing /\ worker'.seen = worker.seen)
  BY GotoStatus DEF Fail, At, IInv, Typed
<1>2. ResourceHeld' /\ ext' \in Resource \cup {None}
  BY TypesFixed DEF Fail, IInv, Held, ResourceHeld, Typed, TypeOK
<1>3. QED
  BY <1>1, <1>2, Finish DEF Fail

LEMMA UpdateStatusInvariant ==
  ASSUME IInv, UpdateStatus PROVE IInv'
<1>1. cr' \in Object /\ cr'.state = cr.state /\ worker' = Idle /\ worker'.pc = "idle"
  BY FinishingWorker DEF UpdateStatus, At, IInv, Typed, TypeOK, Object, Idle
<1>2. Typed'
  BY <1>1, TypesFixed DEF UpdateStatus, IInv, Typed, TypeOK
<1>3. Held'
  BY <1>1, TypesFixed DEF UpdateStatus, IInv, Held, CacheFollows, ResourceHeld, SeenHeld, StepJustified, At
<1>4. SpecKept'
  BY <1>1 DEF SpecKept
<1>5. QED
  BY <1>2, <1>3, <1>4 DEF IInv

LEMMA RemoveFinalizerInvariant ==
  ASSUME IInv, RemoveFinalizer PROVE IInv'
<1>1. cr' \in Object /\ cr'.state = "gone" /\ worker' = Idle /\ worker'.pc = "idle"
  BY DEF RemoveFinalizer, IInv, Typed, TypeOK, Object, Lifecycle, Idle
<1>2. /\ cr.state = "deleting" /\ cache.state \in {"deleting", "gone"}
      /\ ext = None \/ ctl.keeps
  BY DEF RemoveFinalizer, IInv, Held, SeenHeld, StepJustified, At
<1>3. Typed'
  BY <1>1, TypesFixed DEF RemoveFinalizer, IInv, Typed, TypeOK
<1>4. Held'
  BY <1>1, <1>2, TypesFixed
     DEF RemoveFinalizer, IInv, Held, CacheFollows, ResourceHeld, SeenHeld, StepJustified, At, None
<1>5. SpecKept'
  BY <1>1 DEF SpecKept
<1>6. QED
  BY <1>3, <1>4, <1>5 DEF IInv

\* An Update of the object, that leaves its lifecycle alone or adds the finalizer.
LEMMA UpdateObjectInvariant ==
  ASSUME IInv, worker.pc \notin {"idle", "status"}, UNCHANGED <<instance, cache, ext, target, left>>,
         NEW new \in Object, NEW pc \in Steps \cup {"status"}, NEW status \in Recorded,
         UpdateObject(new, pc, status),
         new.state = cr.state \/ (cr.state = "new" /\ new.state = "managed"),
         StepJustified'
  PROVE  IInv'
<1>1. UNCHANGED instance /\ Typed
  BY DEF IInv
<1>2. /\ cr' \in Object' /\ worker' \in Busy' \cup Finishing'
      /\ cr = worker.seen /\ cr'.state = new.state /\ cr'.spec = StoredSpec(new.spec)
      /\ worker'.pc = pc /\ worker'.seen = cr'
      /\ pc # "status" => worker'.spec = new.spec
  BY <1>1, UpdateObjectType
<1>3. Typed'
  BY <1>1, <1>2, TypesFixed DEF Typed, TypeOK
<1>4. CacheFollows' /\ ResourceHeld' /\ SeenHeld'
  BY <1>1, <1>2, TypesFixed DEF IInv, Held, CacheFollows, ResourceHeld, SeenHeld, At
<1>5. SpecKept'
  <2>1. par' = par /\ new.spec \in Specs
    BY <1>1, TypesFixed, ObjectType
  <2>2. \A i \in DOMAIN par : cr'.spec[i] \in {new.spec[i], Nil}
    BY <1>2, <2>1, StoredSpecType, StoredCases
  <2>3. QED
    BY <1>2, <2>1, <2>2 DEF SpecKept, Unset
<1>6. QED
  BY <1>3, <1>4, <1>5 DEF IInv, Held

LEMMA StatusType ==
  ASSUME TypeOK, worker.pc \notin {"idle", "status"}
  PROVE  StatusInResponse \in Recorded /\ worker.status \in Recorded
  BY BusyWorker DEF StatusInResponse, TypeOK, Object

LEMMA ResolveReferencesInvariant ==
  ASSUME IInv, ResolveReferences PROVE IInv'
<1> DEFINE new == [cr EXCEPT !.spec = Resolved(@)]
<1>1. TypeOK /\ Typed /\ cr \in Object /\ worker.pc = "resolve" /\ UNCHANGED instance
  BY DEF IInv, Typed, TypeOK, ResolveReferences, At
<1>2. Resolved(cr.spec) \in Specs
  BY <1>1, ResolvedType, ObjectType
<1>3. new \in Object /\ new.state = cr.state
  BY <1>1, <1>2 DEF Object
<1>4. StatusInResponse \in Recorded
  BY <1>1, StatusType
<1>5. UpdateObject(new, "observe", StatusInResponse)
  BY DEF ResolveReferences
<1>6. worker'.pc = "observe"
  BY <1>1, <1>3, <1>4, <1>5, UpdateObjectType DEF Steps
<1>7. StepJustified'
  BY <1>6 DEF StepJustified, At
<1>8. QED
  BY <1>1, <1>3, <1>4, <1>5, <1>7, UpdateObjectInvariant DEF ResolveReferences, Steps

LEMMA StoreSpecInvariant ==
  ASSUME IInv, StoreSpec PROVE IInv'
<1> DEFINE new == [cr EXCEPT !.spec = worker.spec]
           pc == AfterObserve(worker)
           status == IF ctl.status = "after" THEN worker.status ELSE StatusInResponse
<1>1. TypeOK /\ Typed /\ cr \in Object /\ worker.pc = "store" /\ UNCHANGED instance
  BY DEF IInv, Typed, TypeOK, StoreSpec, At
<1>2. new \in Object /\ new.state = cr.state /\ status \in Recorded
  BY <1>1, BusyWorker, StatusType DEF Object
<1>3. UpdateObject(new, pc, status)
  BY DEF StoreSpec
<1>4. cr = worker.seen /\ new.state = worker.seen.state
  BY <1>2, <1>3 DEF UpdateObject
<1>5. /\ worker.late \in BOOLEAN /\ worker.seen.state \in {"new", "managed", "deleting"}
      /\ IF worker.seen.state = "deleting" THEN worker.next = "delete" /\ ~worker.late /\ ~ctl.keeps
                                           ELSE worker.next \in {"update", "status"}
  BY <1>1, BusyWorker DEF IInv, Held, SeenHeld, StepJustified, At
<1>6. /\ pc \in {"finalizer", "late", "update", "status", "delete"}
      /\ pc = "finalizer" => worker.seen.state = "new"
      /\ pc \in {"late", "update"} => worker.seen.state = "managed"
      /\ pc = "delete" => worker.seen.state = "deleting" /\ ~ctl.keeps
      /\ pc \in {"finalizer", "late"} => worker.next \in {"update", "status"}
  BY <1>5 DEF AfterObserve
<1>7. pc \in Steps \cup {"status"}
  BY <1>6 DEF Steps
<1> HIDE DEF new, pc, status
<1>8. /\ worker'.pc = pc /\ worker'.seen.state = new.state
      /\ pc # "status" => worker'.next = worker.next /\ worker'.late = worker.late
  BY <1>1, <1>2, <1>3, <1>7, UpdateObjectType
<1>9. StepJustified'
  BY <1>1, <1>4, <1>6, <1>8, TypesFixed DEF StepJustified, At
<1>10. QED
  BY <1>1, <1>2, <1>3, <1>7, <1>9, UpdateObjectInvariant DEF StoreSpec

LEMMA AddFinalizerInvariant ==
  ASSUME IInv, AddFinalizer PROVE IInv'
<1> DEFINE new == [cr EXCEPT !.state = "managed", !.spec = worker.spec]
           pc == IF worker.late THEN "late" ELSE worker.next
<1>1. TypeOK /\ Typed /\ cr \in Object /\ worker.pc = "finalizer" /\ UNCHANGED instance
  BY DEF IInv, Typed, TypeOK, AddFinalizer, At
<1>2. new \in Object /\ new.state = "managed" /\ StatusInResponse \in Recorded
  BY <1>1, BusyWorker, StatusType DEF Object, Lifecycle
<1>3. UpdateObject(new, pc, StatusInResponse)
  BY DEF AddFinalizer
<1>4. cr.state = "new" /\ worker.next \in {"create", "update", "status"}
  BY <1>1, <1>3 DEF UpdateObject, IInv, Held, StepJustified, At
<1>5. pc \in {"late", "create", "update", "status"} /\ pc \in Steps \cup {"status"}
  BY <1>4 DEF Steps
<1>6. /\ worker'.pc = pc /\ worker'.seen.state = new.state
      /\ pc # "status" => worker'.next = worker.next
  BY <1>1, <1>2, <1>3, <1>5, UpdateObjectType
<1>7. StepJustified'
  BY <1>2, <1>4, <1>5, <1>6 DEF StepJustified, At
<1>8. QED
  BY <1>1, <1>2, <1>3, <1>4, <1>5, <1>7, UpdateObjectInvariant DEF AddFinalizer

LEMMA StoreLateInitializedInvariant ==
  ASSUME IInv, StoreLateInitialized PROVE IInv'
<1> DEFINE new == [cr EXCEPT !.spec = worker.spec]
           pc == worker.next
<1>1. TypeOK /\ Typed /\ cr \in Object /\ worker.pc = "late" /\ UNCHANGED instance
  BY DEF IInv, Typed, TypeOK, StoreLateInitialized, At
<1>2. new \in Object /\ new.state = cr.state /\ StatusInResponse \in Recorded
  BY <1>1, BusyWorker, StatusType DEF Object
<1>3. UpdateObject(new, pc, StatusInResponse)
  BY DEF StoreLateInitialized
<1>4. new.state = "managed" /\ pc \in {"create", "update", "status"} /\ pc \in Steps \cup {"status"}
  BY <1>1, <1>2, <1>3 DEF UpdateObject, IInv, Held, StepJustified, At, Steps
<1>5. worker'.pc = pc /\ worker'.seen.state = new.state
  BY <1>1, <1>2, <1>3, <1>4, UpdateObjectType
<1>6. StepJustified'
  BY <1>4, <1>5 DEF StepJustified, At
<1>7. QED
  BY <1>1, <1>2, <1>3, <1>4, <1>6, UpdateObjectInvariant DEF StoreLateInitialized

\* A step of the worker alone, that keeps what it has seen and its spec's values.
LEMMA WorkerMoves ==
  ASSUME IInv, worker.pc \notin {"idle", "status"}, UNCHANGED <<instance, cr, cache, ext, target, left>>,
         NEW w \in Busy, w.seen = worker.seen, NEW pc \in Steps \cup {"status"}, worker' = Goes(w, pc),
         StepJustified',
         \A i \in DOMAIN par :
           ~Unset(w.seen.spec[i]) /\ ~Overwritten(par[i], w.seen.spec[i]) => w.spec[i] = w.seen.spec[i]
  PROVE  IInv'
<1>1. /\ worker' \in Busy \cup Finishing /\ worker'.pc = pc /\ worker'.seen = worker.seen
      /\ pc # "status" => worker' = [w EXCEPT !.pc = pc]
  BY GoesType
<1>2. Typed'
  BY <1>1, TypesFixed DEF IInv, Typed, TypeOK
<1>3. CacheFollows' /\ ResourceHeld' /\ SeenHeld'
  BY <1>1, TypesFixed DEF IInv, Held, CacheFollows, ResourceHeld, SeenHeld, At
<1>4. SpecKept'
  <2>1. CASE pc = "status"
    BY <1>1, <2>1 DEF SpecKept
  <2>2. CASE pc # "status"
    <3>1. worker'.spec = w.spec /\ worker'.seen = w.seen /\ par' = par
      BY <1>1, <2>2, TypesFixed DEF Busy
    <3>2. QED
      BY <3>1 DEF SpecKept
  <2>3. QED
    BY <2>1, <2>2
<1>5. QED
  BY <1>2, <1>3, <1>4 DEF IInv, Held

LEMMA ObserveMissingInvariant ==
  ASSUME IInv, ObserveMissing PROVE IInv'
<1> DEFINE w == [worker EXCEPT !.next = "create"]
<1>1. TypeOK /\ worker.pc = "observe" /\ worker \in Busy /\ UNCHANGED instance
  BY BusyWorker DEF IInv, Typed, ObserveMissing, At
<1>2. \A i \in DOMAIN par :
        ~Unset(worker.seen.spec[i]) /\ ~Overwritten(par[i], worker.seen.spec[i])
          => worker.spec[i] = worker.seen.spec[i]
  BY <1>1 DEF IInv, SpecKept
<1>3. worker.seen.state \in {"new", "managed", "deleting"} /\ worker.late \in BOOLEAN
  BY <1>1, BusyWorker DEF IInv, Held, SeenHeld, At
<1>4. CASE worker.seen.state = "deleting"
  <2>1. worker' = Goes(worker, "unfinalize") /\ (ext = None \/ ctl.keeps)
    BY <1>4 DEF ObserveMissing, Goto
  <2>2. worker'.pc = "unfinalize" /\ worker'.seen = worker.seen
    BY <1>1, <2>1, GoesType DEF Steps
  <2>3. StepJustified'
    BY <1>1, <1>4, <2>1, <2>2, TypesFixed DEF StepJustified, At, ObserveMissing
  <2>4. QED
    BY <1>1, <1>2, <2>1, <2>3, WorkerMoves DEF Steps, ObserveMissing
<1>5. CASE worker.seen.state # "deleting"
  <2>1. worker' = Goes(w, AfterObserve(w))
    BY <1>5 DEF ObserveMissing
  <2>2. w \in Busy /\ w.seen = worker.seen /\ w.spec = worker.spec /\ w.next = "create" /\ w.late = worker.late
    BY <1>1 DEF Busy
  <2>3. /\ AfterObserve(w) \in {"finalizer", "late", "create"}
        /\ AfterObserve(w) = "finalizer" <=> worker.seen.state = "new"
    BY <1>3, <2>2 DEF AfterObserve
  <2>4. AfterObserve(w) \in Steps
    BY <2>3 DEF Steps
  <2>5. worker' = [w EXCEPT !.pc = AfterObserve(w)] /\ worker'.pc = AfterObserve(w)
    BY <2>1, <2>2, <2>4, GoesType DEF Steps
  <2>6. worker'.seen = worker.seen /\ worker'.next = "create"
    BY <2>2, <2>5 DEF Busy
  <2>7. StepJustified'
    BY <1>3, <1>5, <2>3, <2>5, <2>6 DEF StepJustified, At
  <2>8. /\ worker.pc \notin {"idle", "status"} /\ UNCHANGED <<instance, cr, cache, ext, target, left>>
        /\ AfterObserve(w) \in Steps \cup {"status"}
    BY <1>1, <2>4 DEF ObserveMissing
  <2>9. \A i \in DOMAIN par :
          ~Unset(w.seen.spec[i]) /\ ~Overwritten(par[i], w.seen.spec[i]) => w.spec[i] = w.seen.spec[i]
    BY <1>2, <2>2
  <2> HIDE DEF w
  <2>10. QED
    BY <2>1, <2>2, <2>7, <2>8, <2>9, WorkerMoves
<1>6. QED
  BY <1>4, <1>5

LEMMA ObserveFoundInvariant ==
  ASSUME IInv, ObserveFound PROVE IInv'
<1> DEFINE deleting == worker.seen.state = "deleting"
           spec == LateInitialized(worker.spec, ext.val)
           new  == spec # worker.spec
           late == new /\ ctl.late = "runtime" /\ ~deleting
           next == IF deleting THEN "delete" ELSE IF IsUpToDate(spec, ext.val) THEN "status" ELSE "update"
           read == IF ctl.reread = "no" THEN ext.val ELSE worker.read
           w    == [worker EXCEPT !.next = next, !.late = late, !.read = read, !.spec = spec,
                                  !.status = GenerateObservation(ext)]
           pc   == IF new /\ ctl.late = "observe" THEN "store" ELSE AfterObserve(w)
<1>1. TypeOK /\ Typed /\ worker.pc = "observe" /\ worker \in Busy /\ UNCHANGED instance /\ ext # None
  BY BusyWorker DEF IInv, Typed, ObserveFound, At
<1>2. worker' = Idle \/ worker' = Goes(w, pc)
  BY <1>1 DEF ObserveFound, Busy
<1>3. CASE worker' = Idle
  <2>1. ResourceHeld' /\ ext' \in Resource \cup {None}
    BY <1>1, TypesFixed DEF ObserveFound, IInv, Held, ResourceHeld, TypeOK
  <2>2. QED
    BY <1>1, <1>3, <2>1, Finish DEF ObserveFound, At
<1>4. CASE worker' = Goes(w, pc)
  <2>1. /\ ext.val \in Vals /\ ext \in Resource /\ worker.spec \in Specs /\ worker.read \in Vals
        /\ worker.seen \in Object
    BY <1>1, ResourceType, BusyWorker
  <2>2. spec \in Specs /\ GenerateObservation(ext) \in Recorded
    BY <1>1, <2>1, LateInitializedType, ObservationType
  <2>3. late \in BOOLEAN /\ next \in {"delete", "status", "update"} /\ read \in Vals
    BY <2>1
  <2>4. /\ w \in Busy /\ w.seen = worker.seen /\ w.spec = spec /\ w.next = next /\ w.late = late
    BY <1>1, <2>2, <2>3 DEF Busy
  <2>5. \A i \in DOMAIN par :
          ~Unset(w.seen.spec[i]) /\ ~Overwritten(par[i], w.seen.spec[i]) => w.spec[i] = w.seen.spec[i]
    <3> SUFFICES ASSUME NEW i \in DOMAIN par, ~Unset(worker.seen.spec[i]),
                        ~Overwritten(par[i], worker.seen.spec[i])
                 PROVE  spec[i] = worker.seen.spec[i]
      BY <2>4
    <3>1. worker.spec[i] = worker.seen.spec[i]
      BY <1>1 DEF IInv, SpecKept
    <3>2. par[i] \in Parameter /\ worker.spec[i] \in SpecValue
      BY <1>1, <2>1 DEF Typed, Specs, SpecValue
    <3>3. LateInitializeSpec(par[i], worker.spec[i], ext.val[i]) = worker.spec[i]
      BY <3>1, <3>2, LateInitializeKeeps
    <3>4. QED
      BY <3>1, <3>3 DEF LateInitialized
  <2>6. /\ worker.seen.state \in {"new", "managed", "deleting"}
        /\ deleting => ~ctl.keeps
    BY <1>1 DEF IInv, Held, SeenHeld, At, ObserveFound, Typed, ControllerType
  <2>7. /\ pc \in {"store", "finalizer", "late", "update", "status", "delete"}
        /\ pc = "finalizer" => worker.seen.state = "new"
        /\ pc \in {"late", "update"} => worker.seen.state = "managed"
        /\ pc = "delete" => deleting
    BY <2>3, <2>4, <2>6 DEF AfterObserve
  <2>8. pc \in Steps \cup {"status"}
    BY <2>7 DEF Steps
  <2> HIDE DEF w, pc, next, late, spec
  <2>9. /\ worker'.pc = pc /\ worker'.seen = worker.seen
        /\ pc # "status" => worker' = [w EXCEPT !.pc = pc]
    BY <1>4, <2>4, <2>8, GoesType
  <2>10. pc # "status" => worker'.next = next /\ worker'.late = late
    BY <2>4, <2>9 DEF Busy
  <2>11. IF deleting THEN next = "delete" /\ ~late ELSE next \in {"update", "status"}
    BY DEF next, late
  <2>12. StepJustified'
    BY <1>1, <2>6, <2>7, <2>9, <2>10, <2>11, TypesFixed DEF StepJustified, At
  <2>13. QED
    BY <1>1, <1>4, <2>4, <2>5, <2>8, <2>12, WorkerMoves DEF ObserveFound
<1>5. QED
  BY <1>2, <1>3, <1>4

LEMMA CreateInvariant ==
  ASSUME IInv, Create PROVE IInv'
<1> DEFINE made == [state |-> IF ctl.async THEN "PROVISIONING" ELSE "RUNNING",
                    val |-> [i \in DOMAIN par |-> Created(par[i], worker.spec[i], default[i])]]
           w == [worker EXCEPT !.status = IF ctl.answers THEN GenerateObservation(made) ELSE @]
<1>1. TypeOK /\ Typed /\ worker.pc = "create" /\ worker \in Busy /\ UNCHANGED instance
  BY BusyWorker DEF IInv, Typed, Create, At
<1>2. made \in Resource /\ made.state # "STOPPING"
  <2>1. worker.spec \in Specs /\ default \in Vals
    BY <1>1, BusyWorker DEF Typed
  <2>2. \A i \in DOMAIN par : Created(par[i], worker.spec[i], default[i]) \in ResourceValue
    BY <1>1, <2>1, CreatedType DEF Typed, Specs, Vals, SpecValue, ResourceValue
  <2>3. [i \in DOMAIN par |-> Created(par[i], worker.spec[i], default[i])] \in Vals
    BY <2>2 DEF Vals, ResourceValue
  <2>4. QED
    BY <2>3 DEF Resource
<1>3. \/ worker' = Goes(worker, "status") /\ ext' = ext
      \/ worker' = Goes(w, "status") /\ ext' = made
  BY DEF Create, Goto
<1>4. w \in Busy /\ w.seen = worker.seen
  BY <1>1, <1>2, ObservationType, BusyWorker DEF Busy
<1>5. worker' \in Finishing /\ worker'.seen = worker.seen
  BY <1>1, <1>3, <1>4 DEF Goes, Busy, Finishing
<1>6. cr.state \in {"managed", "deleting"}
  BY <1>1 DEF IInv, Held, SeenHeld, StepJustified, At
<1>7. ResourceHeld' /\ ext' \in Resource \cup {None}
  BY <1>1, <1>2, <1>3, <1>6, TypesFixed DEF Create, IInv, Held, ResourceHeld, TypeOK
<1>8. QED
  BY <1>1, <1>5, <1>7, Finish DEF Create, At

LEMMA UpdateInvariant ==
  ASSUME IInv, Update PROVE IInv'
<1> DEFINE w == [worker EXCEPT !.pc = "call", !.read = IF ctl.reread = "no" THEN @ ELSE ext.val]
<1>1. TypeOK /\ worker.pc = "update" /\ worker \in Busy /\ UNCHANGED instance
  BY BusyWorker DEF IInv, Typed, Update, At
<1>2. ResourceHeld' /\ ext' \in Resource \cup {None}
  BY <1>1, TypesFixed DEF Update, IInv, Held, ResourceHeld, TypeOK
<1>3. Goto("status") \/ worker' = Idle \/ worker' = w
  BY DEF Update
<1>4. CASE Goto("status") \/ worker' = Idle
  BY <1>1, <1>2, <1>4, GotoStatus, Finish DEF Update, At
<1>5. CASE worker' = w
  <2>1. w \in Busy /\ w.seen = worker.seen /\ w.spec = worker.spec /\ w.pc = "call"
    BY <1>1, ResourceType DEF Busy
  <2>2. Goes(w, "call") = w
    BY <2>1 DEF Goes, Busy
  <2>3. \A i \in DOMAIN par :
          ~Unset(w.seen.spec[i]) /\ ~Overwritten(par[i], w.seen.spec[i]) => w.spec[i] = w.seen.spec[i]
    BY <1>1, <2>1 DEF IInv, SpecKept
  <2>4. StepJustified'
    BY <1>1, <1>5, <2>1 DEF StepJustified, At, IInv, Held
  <2>5. QED
    BY <1>1, <1>5, <2>1, <2>2, <2>3, <2>4, WorkerMoves DEF Update, Steps
<1>6. QED
  BY <1>3, <1>4, <1>5

LEMMA UpdateCallInvariant ==
  ASSUME IInv, UpdateCall PROVE IInv'
<1> DEFINE r == [state |-> IF ctl.async THEN "RECONCILING" ELSE "RUNNING", val |-> Request(worker)]
<1>1. TypeOK /\ Typed /\ worker.pc = "call" /\ UNCHANGED instance
  BY DEF IInv, Typed, UpdateCall, At
<1>2. r \in Resource /\ r.state # "STOPPING"
  <2>1. worker.spec \in Specs /\ default \in Vals /\ ext.val \in Vals
    BY <1>1, BusyWorker, ResourceType DEF Typed
  <2>2. \A i \in DOMAIN par :
          /\ Created(par[i], worker.spec[i], default[i]) \in ResourceValue
          /\ Patched(par[i], worker.spec[i], ext.val[i], worker.read[i], Call(worker)) \in ResourceValue
    BY <1>1, <2>1, CreatedType, PatchedType DEF Typed, Specs, Vals, SpecValue, ResourceValue
  <2>3. Request(worker) \in Vals
    BY <2>2 DEF Request, Vals, ResourceValue
  <2>4. QED
    BY <2>3 DEF Resource
<1>3. cr.state \in {"managed", "deleting"}
  BY <1>1 DEF IInv, Held, SeenHeld, StepJustified, At
<1>4. ext' = ext \/ ext' = r
  BY DEF UpdateCall
<1>5. ResourceHeld' /\ ext' \in Resource \cup {None}
  BY <1>1, <1>2, <1>3, <1>4, TypesFixed DEF UpdateCall, IInv, Held, ResourceHeld, TypeOK
<1>6. worker' = Idle \/ (worker' \in Finishing /\ worker'.seen = worker.seen)
  BY <1>1, GotoStatus DEF UpdateCall
<1>7. QED
  BY <1>1, <1>5, <1>6, Finish DEF UpdateCall, At

LEMMA DeleteInvariant ==
  ASSUME IInv, Delete PROVE IInv'
<1>1. TypeOK /\ worker.pc = "delete" /\ UNCHANGED instance
  BY DEF IInv, Typed, Delete, At
<1>2. ~ctl.keeps /\ (ext # None => cr.state = "deleting")
  BY <1>1 DEF IInv, Held, ResourceHeld, SeenHeld, StepJustified, At
<1>3. ext # None /\ ext.state = "RUNNING" => [ext EXCEPT !.state = "STOPPING"] \in Resource
  BY <1>1, ResourceType DEF Resource
<1>4. ext.state = "RUNNING" => ext # None
  BY DEF None
<1>5. ext' \in {ext, None, [ext EXCEPT !.state = "STOPPING"]} /\ (ext.state # "RUNNING" => ext' = ext)
  BY DEF Delete
<1>6. ResourceHeld' /\ ext' \in Resource \cup {None}
  BY <1>1, <1>2, <1>3, <1>4, <1>5, TypesFixed DEF Delete, IInv, Held, ResourceHeld, TypeOK, None
<1>7. worker' \in Finishing /\ worker'.seen = worker.seen
  BY <1>1, GotoStatus DEF Delete
<1>8. QED
  BY <1>1, <1>6, <1>7, Finish DEF Delete, At

LEMMA InvariantStep ==
  ASSUME IInv, [Next]_vars PROVE IInv'
<1>1. CASE UNCHANGED vars
  <2>1. UNCHANGED instance /\ UNCHANGED <<cr, cache, worker, ext, target, left>>
    BY <1>1 DEF vars, instance
  <2>2. CacheFollows' /\ ResourceHeld'
    BY <2>1, TypesFixed DEF IInv, Held, CacheFollows, ResourceHeld
  <2>3. QED
    BY <2>1, <2>2, StepAround DEF IInv, Typed, TypeOK
<1>2. CASE Environment
  BY <1>2, EditSpecInvariant, DeleteCRInvariant, SyncInvariant, TargetReadyInvariant,
     FinishOperationInvariant, DriftInvariant, ForeignDeleteInvariant DEF Environment
<1>3. CASE WorkerStep
  BY <1>3, ResolveReferencesInvariant, ObserveMissingInvariant, ObserveFoundInvariant,
     StoreSpecInvariant, AddFinalizerInvariant, RemoveFinalizerInvariant,
     StoreLateInitializedInvariant, CreateInvariant, UpdateInvariant, UpdateCallInvariant,
     DeleteInvariant, UpdateStatusInvariant DEF WorkerStep
<1>4. QED
  BY <1>1, <1>2, <1>3, BeginInvariant, FailInvariant DEF Next

LEMMA Invariance == Spec => []IInv
<1>1. Init => IInv
  BY InitialInvariant
<1>2. IInv /\ [Next]_vars => IInv'
  BY InvariantStep
<1>3. QED
  BY <1>1, <1>2, PTL DEF Spec

-----------------------------------------------------------------------------
(* Every step is one of ManagedLifecycle's.                                *)

\* A step that changes neither the object's lifecycle nor whether there is a
\* resource, nor is one of others.
LEMMA Stutters ==
  ASSUME UNCHANGED <<instance, left>>, cr'.state = cr.state, (ext # None) = (ext # None)'
  PROVE  UNCHANGED Promise!lifecycle
  BY TypesFixed DEF Promise!lifecycle

LEMMA InitialPromise ==
  ASSUME Init PROVE Promise!Init
<1>1. ext = None /\ cr.state = "new"
  BY DEF Init
<1>2. ctl.keeps \in BOOLEAN
  BY InitialInvariant DEF IInv, Typed, ControllerType
<1>3. QED
  BY <1>1, <1>2 DEF Promise!Init

LEMMA PromiseStep ==
  ASSUME IInv, [Next]_vars PROVE [Promise!Next]_(Promise!lifecycle)
<1>1. CASE UNCHANGED vars
  BY <1>1, TypesFixed DEF vars, instance, Promise!lifecycle
<1>2. CASE EditSpec
  <2>1. /\ left' # left /\ cr'.state = cr.state /\ ext' = ext /\ UNCHANGED instance
    BY <1>2 DEF EditSpec, IInv, Typed, TypeOK, Object
  <2>2. Promise!OthersAct
    BY <2>1, TypesFixed DEF Promise!OthersAct
  <2>3. QED
    BY <2>2 DEF Promise!Next
<1>3. CASE DeleteCR
  <2>1. /\ cr.state \in {"new", "managed"} /\ cr'.state = IF cr.state = "new" THEN "gone" ELSE "deleting"
    BY <1>3 DEF DeleteCR, IInv, Typed, TypeOK, Object
  <2>2. Promise!GiveUp
    BY <1>3, <2>1, TypesFixed DEF Promise!GiveUp, DeleteCR
  <2>3. QED
    BY <2>2 DEF Promise!Next
<1>4. CASE Sync \/ TargetReady
  BY <1>4, Stutters, TypesFixed DEF Sync, TargetReady
<1>5. CASE FinishOperation
  <2>1. ext # None /\ ext \in Resource /\ UNCHANGED <<instance, cr, left>>
    BY <1>5, ResourceType DEF FinishOperation, IInv, Typed, None
  <2>2. CASE ext.state = "STOPPING"
    <3>1. Promise!Remove
      BY <1>5, <2>1, <2>2, TypesFixed DEF Promise!Remove, FinishOperation, IInv, Held, ResourceHeld
    <3>2. QED
      BY <3>1 DEF Promise!Next
  <2>3. CASE ext.state # "STOPPING"
    <3>1. ext'.state = "RUNNING" /\ ext' # None
      BY <1>5, <2>1, <2>3 DEF FinishOperation, Resource, None
    <3>2. QED
      BY <2>1, <3>1, Stutters, TypesFixed
  <2>4. QED
    BY <2>2, <2>3
<1>6. CASE Drift \/ ForeignDelete
  <2>1. left' # left /\ UNCHANGED <<instance, cr>> /\ ext # None
    BY <1>6 DEF Drift, ForeignDelete, IInv, Typed, TypeOK, None
  <2>2. Promise!OthersAct
    BY <2>1, TypesFixed, Zenon DEF Promise!OthersAct
  <2>3. QED
    BY <2>2 DEF Promise!Next
<1>7. CASE Begin \/ Fail \/ ObserveMissing \/ ObserveFound \/ Update
  BY <1>7, Stutters, TypesFixed DEF Begin, Fail, ObserveMissing, ObserveFound, Update
<1>8. CASE ResolveReferences \/ StoreSpec \/ StoreLateInitialized \/ UpdateStatus
  <2>1. cr'.state = cr.state /\ UNCHANGED <<instance, ext, left>>
    BY <1>8 DEF ResolveReferences, StoreSpec, StoreLateInitialized, UpdateStatus, UpdateObject,
                IInv, Typed, TypeOK, Object
  <2>2. QED
    BY <2>1, Stutters, TypesFixed
<1>9. CASE AddFinalizer
  <2>1. cr.state = "new" /\ cr'.state = "managed" /\ UNCHANGED <<instance, ext, left>>
    BY <1>9 DEF AddFinalizer, UpdateObject, At, IInv, Typed, TypeOK, Object, Held, StepJustified
  <2>2. Promise!Hold
    BY <2>1, TypesFixed DEF Promise!Hold
  <2>3. QED
    BY <2>2 DEF Promise!Next
<1>10. CASE RemoveFinalizer
  <2>1. /\ cr.state = "deleting" /\ cr'.state = "gone" /\ UNCHANGED <<instance, ext, left>>
        /\ ext = None \/ ctl.keeps
    BY <1>10 DEF RemoveFinalizer, At, IInv, Typed, TypeOK, Object, Held, StepJustified
  <2>2. Promise!Release
    BY <2>1, TypesFixed DEF Promise!Release
  <2>3. QED
    BY <2>2 DEF Promise!Next
<1>11. CASE Create \/ UpdateCall
  <2>1. cr.state \in {"managed", "deleting"} /\ UNCHANGED <<instance, cr, left>>
    BY <1>11 DEF Create, UpdateCall, At, IInv, Held, SeenHeld, StepJustified
  <2>2. ext' = ext \/ ext' # None
    BY <1>11 DEF Create, UpdateCall, None
  <2>3. Promise!Provision \/ UNCHANGED Promise!lifecycle
    BY <2>1, <2>2, TypesFixed DEF Promise!Provision, Promise!lifecycle
  <2>4. QED
    BY <2>3 DEF Promise!Next
<1>12. CASE Delete
  <2>1. /\ ~ctl.keeps /\ (ext # None => cr.state = "deleting") /\ UNCHANGED <<instance, cr, left>>
    BY <1>12 DEF Delete, IInv, Held, ResourceHeld, SeenHeld, StepJustified, At
  <2>2. ext = None => ext' = None
    BY <1>12 DEF Delete, None
  <2>3. Promise!Remove \/ UNCHANGED Promise!lifecycle
    BY <2>1, <2>2, TypesFixed DEF Promise!Remove, Promise!lifecycle
  <2>4. QED
    BY <2>3 DEF Promise!Next
<1>13. QED
  BY <1>1, <1>2, <1>3, <1>4, <1>5, <1>6, <1>7, <1>8, <1>9, <1>10, <1>11, <1>12
     DEF Next, Environment, WorkerStep

\* What a step does to a value that the user has set.
LEMMA SurvivesStep ==
  ASSUME IInv, [Next]_vars, left' = left, NEW i \in DOMAIN par,
         ~Unset(cr.spec[i]), ~Overwritten(par[i], cr.spec[i])
  PROVE  cr'.spec[i] = cr.spec[i]
<1>1. cr \in Object /\ left \in Nat
  BY DEF IInv, Typed, TypeOK
<1>2. CASE ResolveReferences
  <2>1. cr'.spec = StoredSpec(Resolved(cr.spec))
    BY <1>1, <1>2 DEF ResolveReferences, UpdateObject, Object
  <2>2. Resolved(cr.spec)[i] = cr.spec[i]
    BY DEF Resolved, Open, Unset, Overwritten
  <2>3. QED
    BY <2>1, <2>2, StoredCases DEF StoredSpec
<1>3. CASE StoreSpec \/ AddFinalizer \/ StoreLateInitialized
  <2>1. /\ cr = worker.seen /\ cr'.spec = StoredSpec(worker.spec)
        /\ worker.pc \notin {"idle", "status"}
    BY <1>1, <1>3 DEF StoreSpec, AddFinalizer, StoreLateInitialized, UpdateObject, Object, At
  <2>2. worker.spec[i] = cr.spec[i]
    BY <2>1 DEF IInv, SpecKept
  <2>3. QED
    BY <2>1, <2>2, StoredCases DEF StoredSpec
<1>4. CASE DeleteCR \/ RemoveFinalizer \/ UpdateStatus
  BY <1>1, <1>4 DEF DeleteCR, RemoveFinalizer, UpdateStatus, Object
<1>5. CASE EditSpec
  BY <1>1, <1>5 DEF EditSpec
<1>6. CASE UNCHANGED cr
  BY <1>6
<1>7. QED
  <2>1. UNCHANGED vars => UNCHANGED cr
    BY DEF vars
  <2>2. Sync \/ TargetReady \/ FinishOperation \/ Drift \/ ForeignDelete \/ Begin \/ Fail => UNCHANGED cr
    BY DEF Sync, TargetReady, FinishOperation, Drift, ForeignDelete, Begin, Fail
  <2>3. ObserveMissing \/ ObserveFound \/ Create \/ Update \/ UpdateCall \/ Delete => UNCHANGED cr
    BY DEF ObserveMissing, ObserveFound, Create, Update, UpdateCall, Delete
  <2>4. QED
    BY <1>2, <1>3, <1>4, <1>5, <1>6, <2>1, <2>2, <2>3 DEF Next, Environment, WorkerStep

-----------------------------------------------------------------------------
(* The theorems.                                                           *)

\* The object, the copies of it, the resource and every intermediate state of a
\* reconcile are well formed, whatever a client does to its parameters.
THEOREM TypeCorrect == Spec => []TypeOK
<1>1. IInv => TypeOK
  BY DEF IInv, Typed
<1>2. QED
  BY <1>1, Invariance, PTL

\* No resource of any kind is left behind when its object is gone, whatever the
\* controller leaves out, calls twice or reads from an old cache.
THEOREM NothingOrphaned == Spec => []NoOrphan
<1>1. IInv => NoOrphan
  BY DEF IInv, Held, ResourceHeld, NoOrphan
<1>2. QED
  BY <1>1, Invariance, PTL

\* Every controller's Observe, Create, Update and Delete, with the reconciler
\* that calls them, implement ManagedLifecycle.
THEOREM Implementation == Spec => KeepsPromise
<1>1. Init => Promise!Init
  BY InitialPromise
<1>2. IInv /\ [Next]_vars => [Promise!Next]_(Promise!lifecycle)
  BY PromiseStep
<1>3. QED
  BY <1>1, <1>2, Invariance, PTL DEF Spec, KeepsPromise, Promise!Spec

\* No store of a late-initialised spec, of a resolved reference or of a finalizer
\* ever changes what the user has set, but for the parameters that the client's
\* LateInitializeSpec is known to write over.
THEOREM ValuesSurvive == Spec => UserValuesSurvive
<1> DEFINE Survive ==
      left' = left =>
        \A i \in DOMAIN par :
          ~Unset(cr.spec[i]) /\ ~Overwritten(par[i], cr.spec[i]) => cr'.spec[i] = cr.spec[i]
<1>1. IInv /\ [Next]_vars => [Survive]_vars
  BY SurvivesStep
<1>2. QED
  BY <1>1, Invariance, PTL DEF Spec, UserValuesSurvive
=============================================================================
