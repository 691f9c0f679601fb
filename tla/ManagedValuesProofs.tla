------------------------ MODULE ManagedValuesProofs ------------------------
(***************************************************************************)
(* Proofs about the values in Managed: what is filled in, what an update   *)
(* settles and what it may overwrite, and where a resource is created.     *)
(***************************************************************************)
EXTENDS ManagedProofs

-----------------------------------------------------------------------------
(* LateInitializeSpec, IsUpToDate and an update, for one parameter.        *)

LEMMA LateCases ==
  ASSUME NEW c \in Parameter
  PROVE  c.late \in {"ifUnset", "ifZero", "whole", "overwrite", "copy", "panics", "panicsWhole", "never"}
  BY DEF Parameter

\* Filled in once, a parameter is not filled in again.
LEMMA LateInitializeIdempotent ==
  ASSUME NEW c \in Parameter, NEW s \in SpecValue, NEW o \in ResourceValue
  PROVE  LateInitializeSpec(c, LateInitializeSpec(c, s, o), o) = LateInitializeSpec(c, s, o)
<1>1. CASE c.late \in {"ifUnset", "panics"}
  BY <1>1, Distinct DEF LateInitializeSpec, LateInitialize, EmptyList
<1>2. CASE c.late = "ifZero"
  BY <1>2, Distinct DEF LateInitializeSpec
<1>3. CASE c.late \in {"whole", "panicsWhole"}
  BY <1>3, Distinct DEF LateInitializeSpec, InSpec
<1>4. CASE c.late \in {"overwrite", "copy", "never"}
  BY <1>4, Distinct DEF LateInitializeSpec
<1>5. QED
  BY <1>1, <1>2, <1>3, <1>4, LateCases

LEMMA GenerateCases ==
  ASSUME NEW c \in Parameter
  PROVE  /\ c.gen \in {"always", "inStruct", "ifSet", "ifAny", "ifEmpty", "never"}
         /\ c.compare \in {"generated", "exact", "spec", "leaf"}
  BY DEF Parameter

\* What is filled in makes no difference that was not there.
LEMMA LateInitializeAgrees ==
  ASSUME NEW c \in Parameter, NEW s \in SpecValue, NEW o \in ResourceValue,
         c.compare \in {"exact", "spec"} => c.late # "overwrite",
         Differs(c, LateInitializeSpec(c, s, o), o)
  PROVE  Differs(c, s, o)
<1> DEFINE f == LateInitializeSpec(c, s, o)
<1>1. \/ f = s
      \/ f = o /\ o # Absent /\ (c.compare \in {"exact", "spec"} => o # Zero)
      \/ f = o /\ o = Absent /\ s \in {Nil, Zero}
      \/ f = Nil /\ o = Zero /\ s = Absent
      \/ f = InSpec(c, o)
  <2>1. CASE c.late \in {"ifUnset", "panics"}
    BY <2>1, Distinct DEF LateInitializeSpec, LateInitialize, EmptyList
  <2>2. CASE c.late = "ifZero"
    BY <2>2, Distinct DEF LateInitializeSpec
  <2>3. CASE c.late \in {"whole", "panicsWhole", "copy", "never"}
    BY <2>3 DEF LateInitializeSpec
  <2>4. CASE c.late = "overwrite"
    BY <2>4 DEF LateInitializeSpec
  <2>5. QED
    BY <2>1, <2>2, <2>3, <2>4, LateCases
<1> HIDE DEF f
<1>2. Differs(c, f, o)
  BY DEF f
<1>3. CASE c.compare = "spec"
  BY <1>1, <1>2, <1>3, Distinct DEF Differs, InSpec
<1>4. CASE c.compare \in {"generated", "exact"}
  <2>1. Generate(c, f, o) # o => Generate(c, s, o) # o
    BY <1>1, GenerateCases, Distinct DEF Generate, ZeroIfNil, Unset, InSpec, Blank, SpecValue, ResourceValue
  <2>2. c.compare = "exact" /\ EmptyList(c, f) => EmptyList(c, s)
    BY <1>1, Distinct DEF EmptyList, InSpec
  <2>3. QED
    BY <1>2, <1>4, <2>1, <2>2 DEF Differs
<1>5. CASE c.compare = "leaf"
  <2>1. f # Absent /\ Generate(c, f, o) # ZeroIfNil(o) => s # Absent /\ Generate(c, s, o) # ZeroIfNil(o)
    BY <1>1, GenerateCases, Distinct DEF Generate, ZeroIfNil, Unset, InSpec, Blank, SpecValue, ResourceValue
  <2>2. QED
    BY <1>2, <1>5, <2>1 DEF Differs
<1>6. QED
  BY <1>3, <1>4, <1>5, GenerateCases

\* An update of what was read settles a parameter that it carries and can apply.
LEMMA PatchedSettles ==
  ASSUME NEW c \in Parameter, NEW s \in SpecValue, NEW o \in ResourceValue, NEW r \in c.carried,
         Applies(c, s), ~Unset(s)
  PROVE  ~Differs(c, s, Patched(c, s, o, o, r))
<1>1. /\ c.gen \in {"always", "inStruct", "ifSet", "ifAny"} /\ (c.gen = "ifAny" => s # Zero)
      /\ s # Nil /\ s # Absent /\ ZeroIfNil(s) = s
  BY GenerateCases DEF Applies, Unset, ZeroIfNil
<1>2. \A b : Generate(c, s, b) = s
  BY <1>1 DEF Generate, Unset
<1>3. Sent(c, s) = s
  BY <1>1, <1>2 DEF Sent
<1>4. s = Zero => c.zero # "omitted" /\ c.compare \notin {"exact", "spec"}
  BY DEF Applies
<1>5. \/ Patched(c, s, o, o, r) = s
      \/ ~Differs(c, s, o) /\ Patched(c, s, o, o, r) = IF o = Absent THEN Zero ELSE o
  BY <1>1, <1>3, <1>4 DEF Patched
<1>6. ~Differs(c, s, s)
  BY <1>1, <1>2, <1>4, GenerateCases DEF Differs, InSpec, EmptyList
<1>7. ~Differs(c, s, o) /\ o = Absent => ~Differs(c, s, Zero)
  BY <1>1, <1>2, <1>4, GenerateCases, Distinct DEF Differs, InSpec, ZeroIfNil, Unset, Applies, EmptyList
<1>8. QED
  BY <1>5, <1>6, <1>7

-----------------------------------------------------------------------------
(* Where a resource is created.                                            *)

\* A parameter that is given by a reference, and says where the resource is.
Referred(c) == c.ref = "given" /\ c.fixed = "yes"

\* What ClientAssumption says of the instance.
ClientKept ==
  \A i \in DOMAIN par :
    /\ Referred(par[i]) => ~par[i].nested /\ par[i].created /\ par[i].gen # "never"
    /\ par[i].compare \in {"exact", "spec"} => par[i].late # "overwrite"

\* A copy of the object that has been resolved, and is not being deleted, has a
\* value there; no copy ever lacks the struct it would be in.
ReferredHeld ==
  \A i \in DOMAIN par : Referred(par[i]) =>
    /\ cr.spec[i] # Absent /\ cache.spec[i] # Absent
    /\ worker.pc \notin {"idle", "status"} =>
         /\ worker.spec[i] # Absent
         /\ worker.pc # "resolve" /\ worker.seen.state # "deleting" => worker.spec[i] \in Values
    /\ ext # None => ext.val[i] \in Values

ValuesInv == IInv /\ ClientKept /\ ReferredHeld

LEMMA InitialValues ==
  ASSUME Init PROVE ClientKept /\ ReferredHeld
<1>1. PICK x \in Instances, given \in BOOLEAN :
        par = [i \in DOMAIN x.par |-> [x.par[i] EXCEPT !.ref = IF @ = "may" /\ given THEN "given" ELSE @]]
  BY DEF Init
<1>2. \A i \in DOMAIN x.par : x.par[i] \in Parameter
  BY ManagedAssumption
<1>3. \A c \in Parameter : \A r \in {"no", "may", "given"} :
        /\ c.ref \in {"no", "may", "given"}
        /\ LET d == [c EXCEPT !.ref = r] IN
             /\ d.nested = c.nested /\ d.created = c.created /\ d.gen = c.gen /\ d.fixed = c.fixed
             /\ d.compare = c.compare /\ d.late = c.late /\ d.ref = r
  BY DEF Parameter
<1>4. \A i \in DOMAIN par :
        /\ i \in DOMAIN x.par
        /\ par[i].nested = x.par[i].nested /\ par[i].created = x.par[i].created /\ par[i].gen = x.par[i].gen
        /\ par[i].fixed = x.par[i].fixed /\ par[i].compare = x.par[i].compare
        /\ par[i].late = x.par[i].late
        /\ par[i].ref # "no" => x.par[i].ref # "no"
  BY <1>1, <1>2, <1>3
<1>5. ClientKept
  BY <1>4, ClientAssumption DEF ClientKept, Referred
<1>6. PICK s \in [DOMAIN par -> Initial] :
        /\ \A i \in DOMAIN par : s[i] \in SpecValues(par[i])
        /\ cr = [state |-> "new", spec |-> s, status |-> NotRecorded]
  BY DEF Init
<1>7. \A i \in DOMAIN par : Referred(par[i]) => cr.spec[i] # Absent
  BY <1>5, <1>6, Distinct DEF ClientKept, SpecValues
<1>8. ReferredHeld
  BY <1>7 DEF ReferredHeld, Init, Idle
<1>9. QED
  BY <1>5, <1>8

LEMMA CreatedReferred ==
  ASSUME NEW c \in Parameter, ~c.nested, c.created, c.gen # "never", NEW s \in Values, NEW d
  PROVE  Created(c, s, d) = s
<1>1. ~Unset(s) /\ s # Zero /\ s # Absent /\ s # Nil
  BY Distinct DEF Unset
<1>2. Generate(c, s, Blank(c)) = s
  BY <1>1, GenerateCases DEF Generate, ZeroIfNil
<1>3. QED
  BY <1>1, <1>2 DEF Created, Sent, ZeroIfNil

\* Filling in keeps a value, from a resource that has one.
LEMMA LateInitializeReferred ==
  ASSUME NEW c \in Parameter, NEW s \in SpecValue, NEW o \in Values, s # Absent
  PROVE  /\ LateInitializeSpec(c, s, o) # Absent
         /\ s \in Values => LateInitializeSpec(c, s, o) \in Values
<1>1. o # Zero /\ o # Absent /\ InSpec(c, o) = o
  BY Distinct DEF InSpec
<1>2. QED
  BY <1>1, LateCases, Distinct DEF LateInitializeSpec, LateInitialize, EmptyList

LEMMA InstanceFixed ==
  ASSUME [Next]_vars PROVE UNCHANGED instance
  BY DEF Next, Environment, WorkerStep, EditSpec, DeleteCR, Sync, TargetReady, FinishOperation, Drift,
         ForeignDelete, Begin, Fail, ResolveReferences, ObserveMissing, ObserveFound, StoreSpec,
         AddFinalizer, RemoveFinalizer, StoreLateInitialized, Create, Update, UpdateCall, Delete,
         UpdateStatus, vars, instance

LEMMA ReferredObject ==
  ASSUME ValuesInv, [Next]_vars, NEW i \in DOMAIN par, Referred(par[i])
  PROVE  cr'.spec[i] # Absent /\ cache'.spec[i] # Absent
<1>1. /\ cr \in Object /\ cr.spec \in Specs /\ cr.spec[i] # Absent /\ cache.spec[i] # Absent
      /\ par[i] \in Parameter /\ ~par[i].nested /\ Referenced # Absent
  BY ManagedAssumption, Distinct
     DEF ValuesInv, IInv, Typed, TypeOK, Object, ReferredHeld, ClientKept
<1>2. CASE EditSpec
  <2>1. PICK j \in DOMAIN par : \E v \in SpecValues(par[j]) : cr' = [cr EXCEPT !.spec[j] = v]
    BY <1>2 DEF EditSpec
  <2>2. PICK v \in SpecValues(par[j]) : cr' = [cr EXCEPT !.spec[j] = v]
    BY <2>1
  <2>3. j = i => v # Absent
    BY <1>1, Distinct DEF SpecValues
  <2>4. cr'.spec[i] = IF i = j THEN v ELSE cr.spec[i]
    BY <1>1, <2>2 DEF Object, Specs
  <2>5. QED
    BY <1>1, <1>2, <2>3, <2>4 DEF EditSpec
<1>3. CASE ResolveReferences
  <2>1. cr'.spec = StoredSpec(Resolved(cr.spec)) /\ cache' = cache
    BY <1>1, <1>3 DEF ResolveReferences, UpdateObject, Object
  <2>2. Resolved(cr.spec)[i] # Absent
    BY <1>1, Distinct DEF Resolved
  <2>3. QED
    BY <1>1, <2>1, <2>2, StoredCases, Distinct DEF StoredSpec
<1>4. CASE StoreSpec \/ AddFinalizer \/ StoreLateInitialized
  <2>1. cr'.spec = StoredSpec(worker.spec) /\ cache' = cache /\ worker.pc \notin {"idle", "status"}
    BY <1>1, <1>4 DEF StoreSpec, AddFinalizer, StoreLateInitialized, UpdateObject, Object, At
  <2>2. worker.spec[i] # Absent
    BY <2>1 DEF ValuesInv, ReferredHeld
  <2>3. QED
    BY <1>1, <2>1, <2>2, StoredCases, Distinct DEF StoredSpec
<1>5. CASE DeleteCR \/ RemoveFinalizer \/ UpdateStatus
  <2>1. cr'.spec = cr.spec /\ cache' = cache
    BY <1>1, <1>5 DEF DeleteCR, RemoveFinalizer, UpdateStatus, Object
  <2>2. QED
    BY <1>1, <2>1
<1>6. CASE Sync
  BY <1>1, <1>6 DEF Sync
<1>7. CASE UNCHANGED <<cr, cache>>
  BY <1>1, <1>7
<1>8. QED
  <2>1. UNCHANGED vars => UNCHANGED <<cr, cache>>
    BY DEF vars
  <2>2. TargetReady \/ FinishOperation \/ Drift \/ ForeignDelete \/ Begin \/ Fail => UNCHANGED <<cr, cache>>
    BY DEF TargetReady, FinishOperation, Drift, ForeignDelete, Begin, Fail
  <2>3. ObserveMissing \/ ObserveFound \/ Create \/ Update \/ UpdateCall \/ Delete => UNCHANGED <<cr, cache>>
    BY DEF ObserveMissing, ObserveFound, Create, Update, UpdateCall, Delete
  <2>4. QED
    BY <1>2, <1>3, <1>4, <1>5, <1>6, <1>7, <2>1, <2>2, <2>3 DEF Next, Environment, WorkerStep

LEMMA ReferredResource ==
  ASSUME ValuesInv, [Next]_vars, NEW i \in DOMAIN par, Referred(par[i]), (ext # None)'
  PROVE  ext'.val[i] \in Values
<1>1. /\ TypeOK /\ par[i] \in Parameter /\ ~par[i].nested /\ par[i].created /\ par[i].gen # "never"
      /\ ext # None => ext \in Resource /\ ext.val[i] \in Values
  BY ResourceType DEF ValuesInv, IInv, Typed, ReferredHeld, ClientKept
<1>2. UNCHANGED instance
  BY InstanceFixed
<1>3. ext' # None
  BY <1>2, TypesFixed
<1>4. CASE FinishOperation \/ Delete
  <2>1. ext.state # "NONE" => ext # None
    BY DEF None
  <2>2. ext # None /\ ext'.val = ext.val
    BY <1>1, <1>3, <1>4, <2>1 DEF FinishOperation, Delete, Resource
  <2>3. QED
    BY <1>1, <2>2
<1>5. CASE Drift
  <2>1. ext \in Resource /\ ext # None
    BY <1>1, <1>5 DEF Drift, None
  <2>2. PICK j \in DOMAIN par : \E v \in ResourceValues(par[j]) \ {ext.val[j]} :
          ~Refused(par[j], ext.val[j], v) /\ ext' = [ext EXCEPT !.val[j] = v]
    BY <1>5 DEF Drift
  <2>3. PICK v : v # ext.val[j] /\ ~Refused(par[j], ext.val[j], v) /\ ext' = [ext EXCEPT !.val[j] = v]
    BY <2>2
  <2>4. j # i
    BY <2>3 DEF Refused, Referred
  <2>5. ext'.val[i] = ext.val[i]
    BY <2>1, <2>3, <2>4 DEF Resource, Vals
  <2>6. QED
    BY <1>1, <2>1, <2>5
<1>6. CASE Create
  <2>1. worker.spec[i] \in Values
    BY <1>6 DEF Create, At, ValuesInv, ReferredHeld, IInv, Held, StepJustified
  <2>2. Created(par[i], worker.spec[i], default[i]) = worker.spec[i]
    BY <1>1, <2>1, CreatedReferred
  <2>3. ext' = ext \/ ext'.val[i] = Created(par[i], worker.spec[i], default[i])
    BY <1>6 DEF Create
  <2>4. QED
    BY <1>1, <1>3, <2>1, <2>2, <2>3
<1>7. CASE UpdateCall
  <2>1. CASE ext' = ext
    BY <1>1, <1>3, <2>1
  <2>2. CASE ext' # ext
    <3>1. Accepted(worker) /\ ext'.val = Request(worker)
      BY <1>7, <2>2 DEF UpdateCall
    <3>2. Request(worker)[i] = ext.val[i]
      BY <3>1 DEF Accepted, Refused, Referred
    <3>3. CASE ext = None
      <4>1. worker.spec[i] \in Values
        BY <1>7 DEF UpdateCall, At, ValuesInv, ReferredHeld, IInv, Held, StepJustified
      <4>2. Request(worker)[i] = worker.spec[i]
        BY <1>1, <3>3, <4>1, CreatedReferred DEF Request
      <4>3. QED
        BY <3>1, <4>1, <4>2
    <3>4. QED
      BY <1>1, <3>1, <3>2, <3>3
  <2>3. QED
    BY <2>1, <2>2
<1>8. CASE UNCHANGED ext
  BY <1>1, <1>3, <1>8
<1>9. CASE ForeignDelete
  BY <1>3, <1>9 DEF ForeignDelete
<1>10. QED
  <2>1. UNCHANGED vars => UNCHANGED ext
    BY DEF vars
  <2>2. EditSpec \/ DeleteCR \/ Sync \/ TargetReady \/ Begin \/ Fail => UNCHANGED ext
    BY DEF EditSpec, DeleteCR, Sync, TargetReady, Begin, Fail
  <2>3. (ResolveReferences \/ ObserveMissing \/ ObserveFound \/ StoreSpec \/ AddFinalizer
          \/ RemoveFinalizer \/ StoreLateInitialized \/ Update \/ UpdateStatus) => UNCHANGED ext
    BY DEF ResolveReferences, ObserveMissing, ObserveFound, StoreSpec, AddFinalizer, RemoveFinalizer,
           StoreLateInitialized, Update, UpdateStatus
  <2>4. QED
    BY <1>4, <1>5, <1>6, <1>7, <1>8, <1>9, <2>1, <2>2, <2>3 DEF Next, Environment, WorkerStep

\* A step that keeps what the worker has seen and its spec.
LEMMA ReferredKept ==
  ASSUME ValuesInv, worker.pc \notin {"idle", "status", "resolve"}, NEW i \in DOMAIN par, Referred(par[i]),
         worker'.seen.state = worker.seen.state, worker'.spec[i] = worker.spec[i]
  PROVE  /\ worker'.spec[i] # Absent
         /\ worker'.seen.state # "deleting" => worker'.spec[i] \in Values
  BY DEF ValuesInv, ReferredHeld

LEMMA GoesKeeps ==
  ASSUME NEW w \in Busy, NEW pc, Goes(w, pc).pc # "status"
  PROVE  Goes(w, pc).seen = w.seen /\ Goes(w, pc).spec = w.spec
  BY DEF Goes, Busy

\* Where Observe of a resource that exists leads, if not to the end.
LEMMA ObserveFoundGoes ==
  ASSUME Typed, ObserveFound, worker'.pc \notin {"idle", "status"}
  PROVE  /\ worker'.seen = worker.seen /\ worker'.spec = LateInitialized(worker.spec, ext.val)
         /\ worker'.status = GenerateObservation(ext) /\ worker'.late \in BOOLEAN
         /\ worker'.late => ctl.late = "runtime"
         /\ worker'.next \in {"delete", "status", "update"}
         /\ worker'.next = "update" => ~IsUpToDate(worker'.spec, ext.val)
         /\ worker'.pc \in {"store", "finalizer", "late", worker'.next}
         /\ worker'.pc = "late" => worker'.late
<1> DEFINE deleting == worker.seen.state = "deleting"
           spec == LateInitialized(worker.spec, ext.val)
           new  == spec # worker.spec
           late == new /\ ctl.late = "runtime" /\ ~deleting
           next == IF deleting THEN "delete" ELSE IF IsUpToDate(spec, ext.val) THEN "status" ELSE "update"
           read == IF ctl.reread = "no" THEN ext.val ELSE worker.read
           status == GenerateObservation(ext)
           w    == [worker EXCEPT !.next = next, !.late = late, !.read = read, !.spec = spec,
                                  !.status = status]
           pc   == IF new /\ ctl.late = "observe" THEN "store" ELSE AfterObserve(w)
<1>1. worker \in Busy /\ worker.spec \in Specs
  BY BusyWorker DEF ObserveFound, At, Typed
<1>2. worker' = Goes(w, pc)
  BY <1>1 DEF ObserveFound, Busy, Idle
<1>3. ext # None /\ ext \in Resource /\ ext.val \in Vals
  BY ResourceType DEF ObserveFound, Typed
<1>4. spec \in Specs /\ status \in Recorded
  BY <1>1, <1>3, LateInitializedType, ObservationType
<1>5. /\ late \in BOOLEAN /\ (late => ctl.late = "runtime") /\ read \in Vals
      /\ next \in {"delete", "status", "update"} /\ (next = "update" => ~IsUpToDate(spec, ext.val))
  BY <1>1, <1>3 DEF Busy
<1> HIDE DEF spec, late, next, read, status
<1>6. /\ w \in Busy /\ w.seen = worker.seen /\ w.spec = spec /\ w.status = status
      /\ w.late = late /\ w.next = next
  BY <1>1, <1>4, <1>5 DEF Busy
<1>7. pc \in {"store", "finalizer", "late", next} /\ (pc = "late" => late)
  BY <1>5, <1>6 DEF AfterObserve
<1> HIDE DEF w, pc
<1>8. pc # "status"
  BY <1>2 DEF Goes
<1>9. worker' = [w EXCEPT !.pc = pc]
  BY <1>2, <1>8 DEF Goes
<1>10. /\ worker'.pc = pc /\ worker'.seen = w.seen /\ worker'.spec = w.spec /\ worker'.status = w.status
       /\ worker'.late = w.late /\ worker'.next = w.next
  BY <1>6, <1>9 DEF Busy
<1>11. worker'.spec = LateInitialized(worker.spec, ext.val) /\ worker'.status = GenerateObservation(ext)
  BY <1>6, <1>10 DEF spec, status
<1>12. QED
  BY <1>5, <1>6, <1>7, <1>10, <1>11

LEMMA ReferredWorker ==
  ASSUME ValuesInv, [Next]_vars, NEW i \in DOMAIN par, Referred(par[i]),
         worker'.pc \notin {"idle", "status"}
  PROVE  /\ worker'.spec[i] # Absent
         /\ worker'.pc # "resolve" /\ worker'.seen.state # "deleting" => worker'.spec[i] \in Values
<1>1. /\ IInv /\ Typed /\ TypeOK /\ cr \in Object /\ cache \in Object /\ par[i] \in Parameter
      /\ cr.spec[i] # Absent /\ cache.spec[i] # Absent /\ Referenced \in Values
      /\ cr.spec[i] \in Values \cup {Zero, Nil} /\ cache.spec[i] \in Values \cup {Zero, Nil}
  BY ManagedAssumption DEF ValuesInv, IInv, Typed, TypeOK, Object, Specs, ReferredHeld
<1>2. CASE Begin
  <2>1. /\ worker'.spec = cache.spec /\ worker'.seen = cache
        /\ worker'.pc # "resolve" /\ cache.state # "deleting" => Resolved(cache.spec) = cache.spec
    BY <1>2 DEF Begin
  <2>2. Resolved(cache.spec)[i] = IF cache.spec[i] \in {Nil, Zero} THEN Referenced ELSE cache.spec[i]
    BY <1>1 DEF Resolved, Open, Referred
  <2>3. Resolved(cache.spec) = cache.spec => cache.spec[i] \in Values
    BY <1>1, <2>2, Distinct
  <2>4. QED
    BY <1>1, <2>1, <2>3
<1>3. CASE ResolveReferences
  <2>1. worker'.spec = Resolved(cr.spec)
    <3>1. worker \in Busy
      BY <1>1, <1>3, BusyWorker DEF ResolveReferences, At
    <3>2. QED
      BY <1>1, <1>3, <3>1 DEF ResolveReferences, UpdateObject, Goes, Busy, Object
  <2>2. Resolved(cr.spec)[i] = IF cr.spec[i] \in {Nil, Zero} THEN Referenced ELSE cr.spec[i]
    BY <1>1 DEF Resolved, Open, Referred
  <2>3. QED
    BY <1>1, <2>1, <2>2, Distinct
<1>4. CASE ObserveMissing
  <2>1. worker \in Busy /\ worker.pc = "observe"
    BY <1>1, <1>4, BusyWorker DEF ObserveMissing, At
  <2>2. worker'.seen = worker.seen /\ worker'.spec = worker.spec
    <3> DEFINE w == [worker EXCEPT !.next = "create"]
    <3>1. w \in Busy /\ w.seen = worker.seen /\ w.spec = worker.spec
      BY <2>1 DEF Busy
    <3>2. worker' = Goes(worker, "unfinalize") \/ worker' = Goes(w, AfterObserve(w))
      BY <1>4 DEF ObserveMissing, Goto
    <3> HIDE DEF w
    <3>3. QED
      BY <2>1, <3>1, <3>2, GoesKeeps
  <2>3. QED
    BY <2>1, <2>2, ReferredKept
<1>5. CASE ObserveFound
  <2>1. worker \in Busy /\ worker.pc = "observe" /\ worker.spec \in Specs /\ worker.spec[i] \in SpecValue
    BY <1>1, <1>5, BusyWorker DEF ObserveFound, At, Specs, SpecValue
  <2>2. worker'.seen = worker.seen /\ worker'.spec = LateInitialized(worker.spec, ext.val)
    BY <1>1, <1>5, ObserveFoundGoes
  <2>3. worker'.spec[i] = LateInitializeSpec(par[i], worker.spec[i], ext.val[i])
    BY <2>2 DEF LateInitialized
  <2>4. ext.val[i] \in Values /\ worker.spec[i] # Absent
    BY <1>5, <2>1 DEF ObserveFound, ValuesInv, ReferredHeld
  <2>5. worker.seen.state # "deleting" => worker.spec[i] \in Values
    BY <2>1 DEF ValuesInv, ReferredHeld
  <2>6. QED
    BY <1>1, <2>1, <2>2, <2>3, <2>4, <2>5, LateInitializeReferred
<1>6. CASE StoreSpec \/ AddFinalizer \/ StoreLateInitialized
  <2>1. worker \in Busy /\ worker.pc \in {"store", "finalizer", "late"}
    BY <1>1, <1>6, BusyWorker DEF StoreSpec, AddFinalizer, StoreLateInitialized, At
  <2>2. worker'.spec = worker.spec /\ (worker'.seen.state = "deleting" <=> worker.seen.state = "deleting")
    <3>1. CASE StoreSpec
      BY <1>1, <2>1, <3>1 DEF StoreSpec, UpdateObject, Goes, Busy, Object
    <3>2. CASE StoreLateInitialized
      BY <1>1, <2>1, <3>2 DEF StoreLateInitialized, UpdateObject, Goes, Busy, Object
    <3>3. CASE AddFinalizer
      <4>1. worker.seen.state = "new"
        BY <1>1, <3>3 DEF AddFinalizer, At, IInv, Held, StepJustified
      <4>2. worker'.spec = worker.spec /\ worker'.seen.state = "managed"
        BY <1>1, <2>1, <3>3 DEF AddFinalizer, UpdateObject, Goes, Busy, Object
      <4>3. QED
        BY <4>1, <4>2
    <3>4. QED
      BY <1>6, <3>1, <3>2, <3>3
  <2>3. QED
    BY <2>1, <2>2 DEF ValuesInv, ReferredHeld
<1>7. CASE Update
  <2>1. worker \in Busy /\ worker.pc = "update"
    BY <1>1, <1>7, BusyWorker DEF Update, At
  <2>2. worker'.seen = worker.seen /\ worker'.spec = worker.spec
    <3>1. ~Goto("status") /\ worker' # Idle
      BY DEF Goto, Goes, Idle
    <3>2. worker' = [worker EXCEPT !.pc = "call", !.read = IF ctl.reread = "no" THEN @ ELSE ext.val]
      BY <1>7, <3>1 DEF Update
    <3>3. QED
      BY <2>1, <3>2 DEF Busy
  <2>3. QED
    BY <2>1, <2>2, ReferredKept
<1>8. CASE UNCHANGED worker
  BY <1>8 DEF ValuesInv, ReferredHeld
<1>9. QED
  <2>1. UNCHANGED vars => UNCHANGED worker
    BY DEF vars
  <2>2. Environment => UNCHANGED worker
    BY DEF Environment, EditSpec, DeleteCR, Sync, TargetReady, FinishOperation, Drift, ForeignDelete
  <2>3. (Fail \/ RemoveFinalizer \/ Create \/ UpdateCall \/ Delete \/ UpdateStatus) => worker'.pc \in {"idle", "status"}
    BY DEF Fail, RemoveFinalizer, Create, UpdateCall, Delete, UpdateStatus, Goto, Goes, Idle
  <2>4. QED
    BY <1>2, <1>3, <1>4, <1>5, <1>6, <1>7, <1>8, <2>1, <2>2, <2>3 DEF Next, WorkerStep

LEMMA ValuesInvariance == Spec => []ValuesInv
<1>1. Init => ValuesInv
  BY InitialInvariant, InitialValues DEF ValuesInv
<1>2. ASSUME ValuesInv, [Next]_vars PROVE ValuesInv'
  <2>1. IInv'
    BY <1>2, InvariantStep DEF ValuesInv
  <2>2. par' = par /\ None' = None
    BY <1>2, InstanceFixed, TypesFixed
  <2>3. ClientKept'
    BY <1>2, <2>2 DEF ValuesInv, ClientKept
  <2>4. ReferredHeld'
    <3> SUFFICES ASSUME NEW i \in DOMAIN par, Referred(par[i])
                 PROVE  /\ cr'.spec[i] # Absent /\ cache'.spec[i] # Absent
                        /\ worker'.pc \notin {"idle", "status"} =>
                             /\ worker'.spec[i] # Absent
                             /\ worker'.pc # "resolve" /\ worker'.seen.state # "deleting"
                                  => worker'.spec[i] \in Values
                        /\ ext' # None => ext'.val[i] \in Values
      BY <2>2 DEF ReferredHeld
    <3>1. cr'.spec[i] # Absent /\ cache'.spec[i] # Absent
      BY <1>2, ReferredObject
    <3>2. worker'.pc \notin {"idle", "status"} =>
             /\ worker'.spec[i] # Absent
             /\ worker'.pc # "resolve" /\ worker'.seen.state # "deleting" => worker'.spec[i] \in Values
      BY <1>2, ReferredWorker
    <3>3. ext' # None => ext'.val[i] \in Values
      BY <1>2, <2>2, ReferredResource
    <3>4. QED
      BY <3>1, <3>2, <3>3
  <2>5. QED
    BY <2>1, <2>3, <2>4 DEF ValuesInv
<1>3. QED
  BY <1>1, <1>2, PTL DEF Spec

-----------------------------------------------------------------------------
(* Why a resource is updated.                                              *)

\* What VersionAssumption says of the instance.
VersionKept ==
  /\ ctl.etag # {} => ctl.reread = "compare"
  /\ ctl.fingerprint # {} => ctl.late # "runtime" /\ ctl.status = "after"

\* The worker is on its way to an update.
ToUpdate == worker.pc \in {"update", "call"} \/ (worker.pc \in {"store", "finalizer"} /\ worker.next = "update")

\* The spec in memory differs from the resource whose etag or fingerprint the
\* call will carry.  An object that was seen without the finalizer, when there
\* was a resource, has it: the store that would bring back an older status is
\* refused.
UpdateNeeded ==
  /\ worker.pc \notin {"idle", "status"} => (worker.late \/ At("late") => ctl.late = "runtime")
  /\ At("call") /\ ctl.etag # {} => ~IsUpToDate(worker.spec, worker.read)
  /\ ToUpdate /\ ctl.fingerprint # {} => ~IsUpToDate(worker.spec, worker.status.val)
  /\ ToUpdate /\ worker.seen.state = "new" => cr.state # "new"

NeededInv == IInv /\ VersionKept /\ UpdateNeeded

LEMMA InitialNeeded ==
  ASSUME Init PROVE VersionKept /\ UpdateNeeded
<1>1. PICK x \in Instances : ctl = x.controller
  BY DEF Init
<1>2. VersionKept
  BY <1>1, VersionAssumption DEF VersionKept
<1>3. UpdateNeeded
  BY DEF Init, Idle, UpdateNeeded, ToUpdate, At
<1>4. QED
  BY <1>2, <1>3

\* An object that has the finalizer keeps it, or is gone.
LEMMA NeverNewAgain ==
  ASSUME IInv, [Next]_vars, cr.state # "new"
  PROVE  cr'.state # "new"
<1>1. cr \in Object
  BY DEF IInv, Typed, TypeOK
<1>2. CASE EditSpec \/ DeleteCR \/ RemoveFinalizer \/ UpdateStatus
  BY <1>1, <1>2 DEF EditSpec, DeleteCR, RemoveFinalizer, UpdateStatus, Object
<1>3. CASE ResolveReferences \/ StoreSpec \/ AddFinalizer \/ StoreLateInitialized
  BY <1>1, <1>3 DEF ResolveReferences, StoreSpec, AddFinalizer, StoreLateInitialized, UpdateObject, Object
<1>4. CASE UNCHANGED cr
  BY <1>4
<1>5. QED
  <2>1. UNCHANGED vars => UNCHANGED cr
    BY DEF vars
  <2>2. Sync \/ TargetReady \/ FinishOperation \/ Drift \/ ForeignDelete \/ Begin \/ Fail => UNCHANGED cr
    BY DEF Sync, TargetReady, FinishOperation, Drift, ForeignDelete, Begin, Fail
  <2>3. ObserveMissing \/ ObserveFound \/ Create \/ Update \/ UpdateCall \/ Delete => UNCHANGED cr
    BY DEF ObserveMissing, ObserveFound, Create, Update, UpdateCall, Delete
  <2>4. QED
    BY <1>2, <1>3, <1>4, <2>1, <2>2, <2>3 DEF Next, Environment, WorkerStep

\* What is to be shown of the worker after a step.
LEMMA NeededAfter ==
  ASSUME ctl' = ctl, par' = par,
         worker'.pc \notin {"idle", "status"} =>
           /\ worker'.late \/ worker'.pc = "late" => ctl.late = "runtime"
           /\ worker'.pc = "call" /\ ctl.etag # {} => ~IsUpToDate(worker'.spec, worker'.read)
           /\ ToUpdate' /\ ctl.fingerprint # {} => ~IsUpToDate(worker'.spec, worker'.status.val)
           /\ ToUpdate' /\ worker'.seen.state = "new" => cr'.state # "new"
  PROVE  UpdateNeeded'
<1>1. worker'.pc \in {"idle", "status"} => ~ToUpdate'
  BY DEF ToUpdate
<1>2. /\ IsUpToDate(worker.spec, worker.read)' <=> IsUpToDate(worker'.spec, worker'.read)
      /\ IsUpToDate(worker.spec, worker.status.val)' <=> IsUpToDate(worker'.spec, worker'.status.val)
  BY DEF IsUpToDate, Differences
<1>3. QED
  BY <1>1, <1>2 DEF UpdateNeeded, At

LEMMA NeededStep ==
  ASSUME NeededInv, [Next]_vars PROVE UpdateNeeded'
<1>1. /\ IInv /\ Typed /\ TypeOK /\ VersionKept /\ UpdateNeeded /\ cr \in Object
      /\ UNCHANGED instance /\ ctl' = ctl /\ par' = par
  BY InstanceFixed, TypesFixed DEF NeededInv, IInv, Typed, TypeOK
<1>2. cr.state # "new" => cr'.state # "new"
  BY <1>1, NeverNewAgain
<1>3. CASE UNCHANGED worker
  BY <1>1, <1>2, <1>3, NeededAfter DEF UpdateNeeded, ToUpdate, At
<1>4. CASE worker'.pc \in {"idle", "status"}
  BY <1>1, <1>4, NeededAfter
<1>5. CASE Begin
  <2>1. worker'.pc \in {"resolve", "observe"} /\ ~worker'.late
    BY <1>5 DEF Begin
  <2>2. ~ToUpdate'
    BY <2>1 DEF ToUpdate
  <2>3. QED
    BY <1>1, <2>1, <2>2, NeededAfter
<1>6. CASE ResolveReferences
  <2> DEFINE new == [cr EXCEPT !.spec = Resolved(@)]
  <2>1. worker.pc = "resolve" /\ new \in Object /\ StatusInResponse \in Recorded
    BY <1>1, <1>6, ResolvedType, ObjectType, StatusType DEF ResolveReferences, At
  <2>2. UpdateObject(new, "observe", StatusInResponse)
    BY <1>6 DEF ResolveReferences
  <2>3. worker'.pc = "observe" /\ worker'.late = worker.late
    BY <1>1, <2>1, <2>2, UpdateObjectType DEF Steps
  <2>4. ~ToUpdate'
    BY <2>3 DEF ToUpdate
  <2>5. QED
    BY <1>1, <2>1, <2>3, <2>4, NeededAfter DEF UpdateNeeded
<1>7. CASE ObserveMissing
  <2>1. worker \in Busy /\ worker.pc = "observe"
    BY <1>1, <1>7, BusyWorker DEF ObserveMissing, At
  <2>2. CASE worker' = Goes(worker, "unfinalize")
    <3>1. worker'.pc = "unfinalize" /\ worker'.late = worker.late
      BY <2>1, <2>2 DEF Goes, Busy
    <3>2. QED
      BY <1>1, <2>1, <3>1, NeededAfter DEF UpdateNeeded, ToUpdate
  <2>3. CASE worker' # Goes(worker, "unfinalize")
    <3> DEFINE w == [worker EXCEPT !.next = "create"]
               pc == AfterObserve(w)
    <3>1. w.late = worker.late /\ w.next = "create" /\ w \in Busy
      BY <2>1 DEF Busy
    <3>2. pc \in {"finalizer", "late", "create"} /\ (pc = "late" => worker.late)
      BY <3>1 DEF AfterObserve
    <3>3. worker' = Goes(w, pc)
      BY <1>7, <2>3 DEF ObserveMissing, Goto
    <3> HIDE DEF w, pc
    <3>4. worker'.pc = pc /\ worker'.next = "create" /\ worker'.late = worker.late
      BY <3>1, <3>2, <3>3 DEF Goes, Busy
    <3>5. ~ToUpdate'
      BY <3>2, <3>4 DEF ToUpdate
    <3>6. QED
      BY <1>1, <2>1, <3>2, <3>4, <3>5, NeededAfter DEF UpdateNeeded
  <2>4. QED
    BY <2>2, <2>3
<1>8. CASE ObserveFound /\ worker'.pc \notin {"idle", "status"}
  <2>1. /\ worker'.late => ctl.late = "runtime"
        /\ worker'.pc = "late" => worker'.late
        /\ worker'.pc # "call"
        /\ ToUpdate' => ~IsUpToDate(worker'.spec, ext.val)
        /\ worker'.status = GenerateObservation(ext)
    BY <1>1, <1>8, ObserveFoundGoes DEF ToUpdate
  <2>2. ctl.fingerprint # {} => GenerateObservation(ext).val = ext.val
    BY DEF GenerateObservation
  <2>3. cr.state # "new" /\ cr' = cr
    BY <1>1, <1>8 DEF ObserveFound, IInv, Held, ResourceHeld
  <2>4. QED
    BY <1>1, <2>1, <2>2, <2>3, NeededAfter
<1>9. CASE StoreSpec
  <2> DEFINE new == [cr EXCEPT !.spec = worker.spec]
             pc == AfterObserve(worker)
             status == IF ctl.status = "after" THEN worker.status ELSE StatusInResponse
  <2>1. /\ worker.pc = "store" /\ new \in Object /\ status \in Recorded
        /\ new.spec = worker.spec /\ new.state = cr.state
    BY <1>1, <1>9, BusyWorker, StatusType DEF StoreSpec, At, Object
  <2>2. UpdateObject(new, pc, status) /\ cr = worker.seen
    BY <1>9 DEF StoreSpec, UpdateObject
  <2>3. /\ worker.next \in {"update", "status", "delete"}
        /\ pc \in {"finalizer", "late", worker.next} /\ (pc = "late" => worker.late)
    BY <1>1, <2>1, BusyWorker DEF AfterObserve, IInv, Held, StepJustified, At
  <2>4. pc \in Steps \cup {"status"}
    BY <2>3 DEF Steps
  <2> HIDE DEF new, pc, status
  <2>5. /\ worker'.pc = pc /\ worker'.status = status /\ worker'.seen.state = cr.state
        /\ pc # "status" => /\ worker'.spec = worker.spec /\ worker'.next = worker.next
                            /\ worker'.late = worker.late
    BY <1>1, <2>1, <2>2, <2>4, UpdateObjectType
  <2>6. ctl.fingerprint # {} => status = worker.status
    BY <1>1 DEF VersionKept, status
  <2>7. worker'.pc # "status" /\ ToUpdate' => ToUpdate
    BY <2>1, <2>3, <2>5 DEF ToUpdate
  <2>8. ToUpdate => cr.state # "new"
    BY <1>1, <2>2 DEF UpdateNeeded
  <2>9. QED
    BY <1>1, <1>2, <2>1, <2>3, <2>5, <2>6, <2>7, <2>8, NeededAfter DEF UpdateNeeded
<1>10. CASE AddFinalizer
  <2> DEFINE new == [cr EXCEPT !.state = "managed", !.spec = worker.spec]
             pc == IF worker.late THEN "late" ELSE worker.next
  <2>1. worker.pc = "finalizer" /\ new \in Object /\ new.state = "managed" /\ StatusInResponse \in Recorded
    BY <1>1, <1>10, BusyWorker, StatusType DEF AddFinalizer, At, Object, Lifecycle
  <2>2. UpdateObject(new, pc, StatusInResponse) /\ cr = worker.seen
    BY <1>10 DEF AddFinalizer, UpdateObject
  <2>3. cr.state = "new" /\ worker.next \in {"create", "update", "status"}
    BY <1>1, <2>1, <2>2 DEF IInv, Held, StepJustified, At
  <2>4. worker.next # "update"
    BY <1>1, <2>1, <2>2, <2>3 DEF UpdateNeeded, ToUpdate
  <2>5. pc \in {"late", "create", "status"} /\ pc \in Steps \cup {"status"} /\ (pc = "late" => worker.late)
    BY <2>3, <2>4 DEF Steps
  <2> HIDE DEF new, pc
  <2>6. worker'.pc = pc /\ (pc # "status" => worker'.late = worker.late)
    BY <1>1, <2>1, <2>2, <2>5, UpdateObjectType
  <2>7. ~ToUpdate'
    BY <2>5, <2>6 DEF ToUpdate
  <2>8. QED
    BY <1>1, <2>1, <2>5, <2>6, <2>7, NeededAfter DEF UpdateNeeded
<1>11. CASE StoreLateInitialized
  <2> DEFINE new == [cr EXCEPT !.spec = worker.spec]
  <2>1. worker.pc = "late" /\ new \in Object /\ new.state = cr.state /\ StatusInResponse \in Recorded
    BY <1>1, <1>11, BusyWorker, StatusType DEF StoreLateInitialized, At, Object
  <2>2. UpdateObject(new, worker.next, StatusInResponse) /\ cr = worker.seen
    BY <1>11 DEF StoreLateInitialized, UpdateObject
  <2>3. /\ cr.state = "managed" /\ worker.next \in {"create", "update", "status"}
        /\ worker.next \in Steps \cup {"status"}
    BY <1>1, <2>1, <2>2 DEF IInv, Held, StepJustified, At, Steps
  <2> HIDE DEF new
  <2>4. worker'.pc = worker.next /\ worker'.seen.state = "managed"
    BY <1>1, <2>1, <2>2, <2>3, UpdateObjectType
  <2>5. ctl.late = "runtime" /\ ctl.fingerprint = {}
    BY <1>1, <2>1 DEF UpdateNeeded, VersionKept, At
  <2>6. QED
    BY <1>1, <2>3, <2>4, <2>5, NeededAfter
<1>12. CASE Update /\ worker'.pc \notin {"idle", "status"}
  <2>1. worker \in Busy /\ worker.pc = "update" /\ worker.seen.state = "managed"
    BY <1>1, <1>12, BusyWorker DEF Update, At, IInv, Held, StepJustified
  <2>2. ~Goto("status") /\ worker' # Idle
    BY <1>12 DEF Goto, Goes, Idle
  <2>3. /\ worker' = [worker EXCEPT !.pc = "call", !.read = IF ctl.reread = "no" THEN @ ELSE ext.val]
        /\ ctl.reread = "compare" => ~IsUpToDate(worker.spec, ext.val)
    BY <1>12, <2>2 DEF Update
  <2>4. /\ worker'.pc = "call" /\ worker'.seen = worker.seen /\ worker'.spec = worker.spec
        /\ worker'.late = worker.late /\ worker'.status = worker.status
        /\ ctl.reread = "compare" => worker'.read = ext.val
    BY <2>1, <2>3 DEF Busy
  <2>5. ToUpdate
    BY <2>1 DEF ToUpdate
  <2>6. QED
    BY <1>1, <2>1, <2>3, <2>4, <2>5, NeededAfter DEF UpdateNeeded, VersionKept
<1>13. QED
  <2>1. UNCHANGED vars => UNCHANGED worker
    BY DEF vars
  <2>2. Environment => UNCHANGED worker
    BY DEF Environment, EditSpec, DeleteCR, Sync, TargetReady, FinishOperation, Drift, ForeignDelete
  <2>3. (Fail \/ RemoveFinalizer \/ Create \/ UpdateCall \/ Delete \/ UpdateStatus) => worker'.pc \in {"idle", "status"}
    BY DEF Fail, RemoveFinalizer, Create, UpdateCall, Delete, UpdateStatus, Goto, Goes, Idle
  <2>4. QED
    BY <1>3, <1>4, <1>5, <1>6, <1>7, <1>8, <1>9, <1>10, <1>11, <1>12, <2>1, <2>2, <2>3 DEF Next, WorkerStep

LEMMA NeededInvariance == Spec => []NeededInv
<1>1. Init => NeededInv
  BY InitialInvariant, InitialNeeded DEF NeededInv
<1>2. ASSUME NeededInv, [Next]_vars PROVE NeededInv'
  <2>1. IInv'
    BY <1>2, InvariantStep DEF NeededInv
  <2>2. VersionKept'
    BY <1>2, InstanceFixed, TypesFixed DEF NeededInv, VersionKept
  <2>3. QED
    BY <1>2, <2>1, <2>2, NeededStep DEF NeededInv
<1>3. QED
  BY <1>1, <1>2, PTL DEF Spec

-----------------------------------------------------------------------------
(* The theorems.                                                           *)

\* A resource that is created in what another object names is created there: no
\* stale cache, edit, failed store or deletion on the way makes the provider
\* send a request with the reference still open.
THEOREM ReferencesResolved == Spec => []CreatedWhereReferred
<1>1. ValuesInv => CreatedWhereReferred
  BY DEF ValuesInv, ReferredHeld, Referred, CreatedWhereReferred
<1>2. QED
  BY <1>1, ValuesInvariance, PTL

\* What LateInitializeSpec fills in is final and gives no reason to update,
\* whatever ways the client of a kind has to treat its parameters.
THEOREM FillingInSettles == Spec => []FilledInOnce
<1>1. ASSUME ValuesInv PROVE FilledInOnce
  <2> SUFFICES ASSUME At("observe"), ext # None
               PROVE  LET filled == LateInitialized(worker.spec, ext.val) IN
                      /\ LateInitialized(filled, ext.val) = filled
                      /\ Differences(filled, ext.val) \subseteq Differences(worker.spec, ext.val)
    BY DEF FilledInOnce
  <2> DEFINE filled == LateInitialized(worker.spec, ext.val)
  <2>1. worker.spec \in Specs /\ ext.val \in Vals
    BY <1>1, BusyWorker, ResourceType DEF At, ValuesInv, IInv, Typed
  <2>2. \A i \in DOMAIN par :
          /\ par[i] \in Parameter /\ (par[i].compare \in {"exact", "spec"} => par[i].late # "overwrite")
          /\ worker.spec[i] \in SpecValue /\ ext.val[i] \in ResourceValue
    BY <1>1, <2>1 DEF ValuesInv, IInv, Typed, ClientKept, Specs, Vals, SpecValue, ResourceValue
  <2>3. \A i \in DOMAIN par : filled[i] = LateInitializeSpec(par[i], worker.spec[i], ext.val[i])
    BY DEF LateInitialized
  <2>4. \A i \in DOMAIN par : LateInitializeSpec(par[i], filled[i], ext.val[i]) = filled[i]
    BY <2>2, <2>3, LateInitializeIdempotent
  <2>5. LateInitialized(filled, ext.val) = filled
    BY <2>4 DEF LateInitialized
  <2>6. \A i \in DOMAIN par : Differs(par[i], filled[i], ext.val[i]) => Differs(par[i], worker.spec[i], ext.val[i])
    BY <2>2, <2>3, LateInitializeAgrees
  <2>7. Differences(filled, ext.val) \subseteq Differences(worker.spec, ext.val)
    BY <2>6 DEF Differences
  <2>8. QED
    BY <2>5, <2>7
<1>2. QED
  BY <1>1, ValuesInvariance, PTL

\* An accepted update of the resource it was computed from settles every
\* parameter that it carries and that the client can apply.
THEOREM UpdatesSettle == Spec => CallsSettle
<1>1. ASSUME IInv, [Next]_vars, UpdateCall, Accepted(worker), ~Dereferences(worker), ext # None,
             worker.read = ext.val, NEW i \in DOMAIN par, Call(worker) \in par[i].carried, Applies(par[i], worker.spec[i]),
             ~Unset(worker.spec[i])
      PROVE  ~Differs(par[i], worker.spec[i], ext'.val[i])
  <2>1. /\ par[i] \in Parameter /\ worker.spec[i] \in SpecValue /\ ext.val[i] \in ResourceValue
    BY <1>1, BusyWorker, ResourceType
       DEF UpdateCall, At, IInv, Typed, Specs, Vals, SpecValue, ResourceValue
  <2>2. ext' = [state |-> IF ctl.async THEN "RECONCILING" ELSE "RUNNING", val |-> Request(worker)]
    BY <1>1, Zenon DEF UpdateCall
  <2>3. ext'.val = Request(worker)
    BY <2>2
  <2>4. ext'.val[i] = Patched(par[i], worker.spec[i], ext.val[i], ext.val[i], Call(worker))
    BY <1>1, <2>3 DEF Request
  <2>5. QED
    BY <1>1, <2>1, <2>4, PatchedSettles
<1>2. IInv /\ [Next]_vars =>
        (UpdateCall /\ Accepted(worker) /\ ~Dereferences(worker) /\ ext # None /\ worker.read = ext.val =>
          \A i \in DOMAIN par :
            Call(worker) \in par[i].carried /\ Applies(par[i], worker.spec[i]) /\ ~Unset(worker.spec[i])
              => ~Differs(par[i], worker.spec[i], ext'.val[i]))
  BY <1>1
<1>3. QED
  BY <1>2, Invariance, PTL DEF Spec, CallsSettle

\* An update with a fingerprint or an etag is accepted only by a resource that
\* differs from the spec then, although Observe compared another copy of the
\* spec, stored it, and left the status to the answer of that store.
THEOREM UpdatesNeeded == Spec => UpdatesOnlyWhatDiffers
<1> DEFINE Needed == UpdateCall /\ Accepted(worker) /\ ~Dereferences(worker)
                       /\ Call(worker) \in ctl.fingerprint \cup ctl.etag
                       => ~IsUpToDate(worker.spec, ext.val)
<1>1. ASSUME NeededInv, UpdateCall, Accepted(worker), Call(worker) \in ctl.fingerprint \cup ctl.etag
      PROVE  ~IsUpToDate(worker.spec, ext.val)
  <2>1. worker.pc = "call"
    BY <1>1 DEF UpdateCall, At
  <2>2. CASE Call(worker) \in ctl.fingerprint
    <3>1. worker.status.val = ext.val /\ ctl.fingerprint # {}
      BY <1>1, <2>2 DEF Accepted
    <3>2. QED
      BY <1>1, <2>1, <3>1 DEF NeededInv, UpdateNeeded, ToUpdate
  <2>3. CASE Call(worker) \in ctl.etag
    <3>1. worker.read = ext.val /\ ctl.etag # {}
      BY <1>1, <2>3 DEF Accepted
    <3>2. QED
      BY <1>1, <2>1, <3>1 DEF NeededInv, UpdateNeeded, At
  <2>4. QED
    BY <1>1, <2>2, <2>3
<1>2. NeededInv /\ [Next]_vars => [Needed]_vars
  BY <1>1
<1>3. QED
  BY <1>2, NeededInvariance, PTL DEF Spec, UpdatesOnlyWhatDiffers
=============================================================================
