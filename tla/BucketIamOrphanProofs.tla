----------------------- MODULE BucketIamOrphanProofs -----------------------
(***************************************************************************)
(* The proof that one replica orphans no grant, for any number of roles,   *)
(* members, objects and edits.                                             *)
(***************************************************************************)
EXTENDS BucketIamProofs

\* One replica, and no conditions on bindings: Observe and Bind look at one
\* binding of the role only.
OneWriter ==
  /\ \A v, w \in Replicas : v = w
  /\ Conditions = {NoCondition}

\* The strengthening.  A cache is behind its object by what it may be, ...
Held(state) == state \in {"managed", "deleting"}
Follows(cached, object) ==
  /\ object = "new" => cached = "new"
  /\ object = "managed" => cached \in {"new", "managed"}
  /\ object = "deleting" => cached \in {"new", "managed", "deleting"}
  /\ object = "gone" => cached \in {"new", "deleting", "gone"}

\* ... a worker is where it is for a reason its object still gives, ...
MemberJustified(w) ==
  ~At(w, "idle") =>
    /\ mw[w].seen \in {"new", "managed", "deleting"}
    /\ mw[w].seen = "managed" => Held(mcr[mw[w].cr])
    /\ mw[w].seen = "deleting" => /\ mcr[mw[w].cr] \in {"deleting", "gone"}
                                  /\ mcache[w][mw[w].cr] \in {"deleting", "gone"}
    /\ mw[w].pc \in {"create", "createSet"} => mw[w].seen = "managed"
    /\ mw[w].pc \in {"finalizer", "adopt"} => mw[w].seen = "new"
    /\ mw[w].pc = "unfinalize" => mw[w].seen = "deleting"

MemberInv ==
  /\ \A w \in Replicas, c \in MemberCRs : Follows(mcache[w][c], mcr[c])
  /\ \A w \in Replicas : MemberJustified(w)

PolicyJustified(w) ==
  ~PAt(w, "idle") =>
    /\ pw[w].seen.state \in {"new", "managed", "deleting"}
    /\ pw[w].seen.state = "managed" => Held(pcr.state)
    /\ pw[w].seen.state = "deleting" => /\ pcr.state \in {"deleting", "gone"}
                                        /\ pcache[w].state \in {"deleting", "gone"}
    /\ pw[w].pc \in {"create", "update", "updateSet"} => Held(pcr.state)
    /\ pw[w].pc = "finalizer" => pw[w].seen.state = "new"
    /\ pw[w].pc \in {"delete", "unfinalize"} => pw[w].seen.state = "deleting"

PolicyInv ==
  /\ \A w \in Replicas : Follows(pcache[w].state, pcr.state)
  /\ \A w \in Replicas : PolicyJustified(w)

\* ... a grant of ours has an object with a finalizer that stands for it, ...
MemberHolds(k, m) ==
  \E d \in MemberCRs : Held(mcr[d]) /\ RoleOf[d] = k.role /\ MemberOf[d] = m
PolicyHolds(k, m) == Held(pcr.state) /\ \E s \in Specs : m \in s[k]

GrantHeld ==
  bucket => \A k \in Keys : \A m \in policy[k] :
              Ours(k, m) => PolicyHolds(k, m) \/ MemberHolds(k, m)

\* ... and an object about to lose its finalizer is not the last that stands
\* for one: since its worker looked, only the other controller can have made it.
MemberDispensable(w) ==
  bucket /\ At(w, "unfinalize") =>
    \A k \in Keys :
      k.role = RoleOf[mw[w].cr] /\ MemberOf[mw[w].cr] \in policy[k] /\ Ours(k, MemberOf[mw[w].cr]) =>
        PolicyHolds(k, MemberOf[mw[w].cr]) /\ ~PAt(w, "unfinalize")

PolicyDispensable(w) ==
  bucket /\ PAt(w, "unfinalize") =>
    \A k \in Keys : \A m \in policy[k] : Ours(k, m) => MemberHolds(k, m)

GrantInv ==
  /\ GrantHeld
  /\ \A w \in Replicas : MemberDispensable(w) /\ PolicyDispensable(w)

IInv == TypeOK /\ FreshInstance /\ MemberInv /\ PolicyInv /\ GrantInv

-----------------------------------------------------------------------------
(* The objects and the workers, whatever the policy is.                    *)

\* A member step that leaves the objects alone and takes the only worker to a
\* place it may be in.
LEMMA WorkerMoves ==
  ASSUME MemberInv, OneWriter, NEW w \in Replicas, UNCHANGED <<mcr, mcache>>, MemberJustified(w)'
  PROVE  MemberInv'
<1>1. \A v \in Replicas : v = w
  BY DEF OneWriter
<1>2. QED
  BY <1>1 DEF MemberInv

\* After Done and after Goto, the worker.
LEMMA DoneJustified ==
  ASSUME TypeOK, NEW w \in Replicas, Done(w) PROVE MemberJustified(w)' /\ mw'[w].pc = "idle"
  BY DEF TypeOK, MemberTypeOK, Done, Idle, MemberJustified, At

LEMMA GotoWorker ==
  ASSUME TypeOK, NEW w \in Replicas, NEW pc, NEW seen, NEW p, Goto(w, pc, seen, p)
  PROVE  mw'[w].pc = pc /\ mw'[w].cr = mw[w].cr /\ mw'[w].seen = seen
  BY DEF TypeOK, MemberTypeOK, Goto

LEMMA MemberObjects ==
  ASSUME TypeOK, MemberInv, OneWriter, MemberNext PROVE MemberInv'
<1>0. /\ mcr \in [MemberCRs -> CRState] /\ mcache \in [Replicas -> [MemberCRs -> CRState]]
      /\ mw \in [Replicas -> Busy \cup {Idle}] /\ MemberTypeOK
      /\ \A w \in Replicas : MemberJustified(w)
  BY DEF TypeOK, MemberTypeOK, MemberInv
<1>1. ASSUME NEW c \in MemberCRs, DeleteMemberCR(c) PROVE MemberInv'
  <2>1. /\ UNCHANGED <<mcache, mw>> /\ mcr[c] \in {"new", "managed"}
        /\ mcr' = [mcr EXCEPT ![c] = IF @ = "new" THEN "gone" ELSE "deleting"]
    BY <1>1 DEF DeleteMemberCR
  <2>2. \A d \in MemberCRs : mcr'[d] = IF d # c THEN mcr[d] ELSE IF mcr[c] = "new" THEN "gone" ELSE "deleting"
    BY <1>0, <2>1
  <2>3. \A w \in Replicas, d \in MemberCRs : Follows(mcache'[w][d], mcr'[d])
    BY <2>1, <2>2 DEF MemberInv, Follows
  <2>4. ASSUME NEW w \in Replicas, ~At(w, "idle") PROVE MemberJustified(w)'
    <3>1. mw[w].cr \in MemberCRs /\ MemberJustified(w)
      BY <1>0, <2>4, BusyWorker
    <3>2. QED
      BY <2>1, <2>2, <2>4, <3>1 DEF MemberJustified, At, Held
  <2>5. ASSUME NEW w \in Replicas, At(w, "idle") PROVE MemberJustified(w)'
    BY <2>1, <2>5 DEF MemberJustified, At
  <2>6. QED
    BY <2>3, <2>4, <2>5 DEF MemberInv
<1>2. ASSUME NEW w \in Replicas, NEW c \in MemberCRs, SyncMember(w, c) PROVE MemberInv'
  <2>1. UNCHANGED <<mcr, mw>> /\ mcache' = [mcache EXCEPT ![w][c] = mcr[c]]
    BY <1>2 DEF SyncMember
  <2>2. \A v \in Replicas, d \in MemberCRs :
          mcache'[v][d] = IF v = w /\ d = c THEN mcr[c] ELSE mcache[v][d]
    BY <1>0, <2>1
  <2>3. \A v \in Replicas, d \in MemberCRs : Follows(mcache'[v][d], mcr'[d])
    BY <1>0, <2>1, <2>2 DEF MemberInv, Follows, CRState
  <2>4. ASSUME NEW v \in Replicas, ~At(v, "idle") PROVE MemberJustified(v)'
    <3>1. mw[v].cr \in MemberCRs /\ MemberJustified(v)
      BY <1>0, <2>4, BusyWorker
    <3>2. QED
      BY <2>1, <2>2, <2>4, <3>1 DEF MemberJustified, At
  <2>5. ASSUME NEW v \in Replicas, At(v, "idle") PROVE MemberJustified(v)'
    BY <2>1, <2>5 DEF MemberJustified, At
  <2>6. QED
    BY <2>3, <2>4, <2>5 DEF MemberInv
<1>3. ASSUME NEW w \in Replicas, NEW c \in MemberCRs, BeginMember(w, c) PROVE MemberInv'
  <2>1. UNCHANGED <<mcr, mcache>> /\ mcache[w][c] # "gone"
    BY <1>3 DEF BeginMember
  <2>2. mw'[w].pc = "observe" /\ mw'[w].cr = c /\ mw'[w].seen = mcache[w][c]
    BY <1>0, <1>3 DEF BeginMember
  <2>3. mcr[c] \in CRState /\ mcache[w][c] \in CRState
    BY <1>0
  <2>4. MemberJustified(w)'
    BY <2>1, <2>2, <2>3 DEF MemberJustified, At, CRState, MemberInv, Follows, Held
  <2>5. QED
    BY <2>1, <2>4, WorkerMoves
<1>4. ASSUME NEW w \in Replicas, FailMember(w) \/ SetMember(w) PROVE MemberInv'
  BY <1>4, DoneJustified, WorkerMoves DEF FailMember, SetMember
<1>5. ASSUME NEW w \in Replicas, ObserveMember(w) PROVE MemberInv'
  <2>1. UNCHANGED <<mcr, mcache>> /\ ~At(w, "idle")
    BY <1>5 DEF ObserveMember, At
  <2>2. mw[w].cr \in MemberCRs /\ MemberJustified(w)
    BY <1>0, <2>1, BusyWorker
  <2>3. \/ Done(w)
        \/ \E pc : /\ Goto(w, pc, mw[w].seen, EmptyPolicy)
                   /\ \/ pc \in {"delete", "unfinalize"} /\ mw[w].seen = "deleting"
                      \/ pc \in {"adopt", "finalizer"} /\ mw[w].seen = "new"
                      \/ pc = "create" /\ mw[w].seen = "managed"
    BY <1>5 DEF ObserveMember
  <2>4. ASSUME NEW pc, Goto(w, pc, mw[w].seen, EmptyPolicy),
               \/ pc \in {"delete", "unfinalize"} /\ mw[w].seen = "deleting"
               \/ pc \in {"adopt", "finalizer"} /\ mw[w].seen = "new"
               \/ pc = "create" /\ mw[w].seen = "managed"
        PROVE  MemberJustified(w)'
    <3>1. mw'[w].pc = pc /\ mw'[w].cr = mw[w].cr /\ mw'[w].seen = mw[w].seen
      BY <2>4, GotoWorker
    <3>2. QED
      BY <2>1, <2>2, <2>4, <3>1 DEF MemberJustified, At
  <2>5. QED
    BY <2>1, <2>3, <2>4, DoneJustified, WorkerMoves
<1>6. ASSUME NEW w \in Replicas, AddFinalizer(w) PROVE MemberInv'
  <2> DEFINE c == mw[w].cr
  <2>1. /\ mw[w].pc \in {"finalizer", "adopt"} /\ ~At(w, "idle") /\ UNCHANGED mcache
        /\ mcr[c] = mw[w].seen /\ mcr' = [mcr EXCEPT ![c] = "managed"]
    BY <1>6 DEF AddFinalizer, At
  <2>2. c \in MemberCRs /\ MemberJustified(w)
    BY <1>0, <2>1, BusyWorker
  <2>3. mcr[c] = "new" /\ \A d \in MemberCRs : mcr'[d] = IF d = c THEN "managed" ELSE mcr[d]
    BY <1>0, <2>1, <2>2 DEF MemberJustified
  <2>4. \A v \in Replicas, d \in MemberCRs : Follows(mcache'[v][d], mcr'[d])
    <3>1. \A v \in Replicas : Follows(mcache[v][c], "managed")
      BY <2>2, <2>3 DEF MemberInv, Follows
    <3>2. QED
      BY <2>1, <2>3, <3>1 DEF MemberInv
  <2>5. MemberJustified(w)'
    <3>1. CASE Done(w)
      BY <3>1, DoneJustified
    <3>2. CASE Goto(w, "create", "managed", EmptyPolicy)
      <4>1. mw'[w].pc = "create" /\ mw'[w].cr = c /\ mw'[w].seen = "managed"
        BY <3>2, GotoWorker
      <4>2. QED
        BY <2>2, <2>3, <4>1 DEF MemberJustified, At, Held
    <3>3. QED
      BY <1>6, <3>1, <3>2 DEF AddFinalizer
  <2>6. QED
    BY <2>4, <2>5 DEF OneWriter, MemberInv
<1>7. ASSUME NEW w \in Replicas, RemoveFinalizer(w) PROVE MemberInv'
  <2> DEFINE c == mw[w].cr
  <2>1. /\ mw[w].pc = "unfinalize" /\ ~At(w, "idle") /\ UNCHANGED mcache
        /\ mcr' = [mcr EXCEPT ![c] = "gone"] /\ Done(w)
    BY <1>7 DEF RemoveFinalizer, At
  <2>2. c \in MemberCRs /\ mcache[w][c] \in {"deleting", "gone"}
    BY <1>0, <2>1, BusyWorker DEF MemberJustified
  <2>3. \A d \in MemberCRs : mcr'[d] = IF d = c THEN "gone" ELSE mcr[d]
    BY <1>0, <2>1, <2>2
  <2>4. \A v \in Replicas : Follows(mcache[v][c], "gone")
    BY <2>2 DEF Follows, OneWriter
  <2>5. \A v \in Replicas, d \in MemberCRs : Follows(mcache'[v][d], mcr'[d])
    BY <2>1, <2>3, <2>4 DEF MemberInv
  <2>6. QED
    BY <2>1, <2>5, DoneJustified DEF OneWriter, MemberInv
<1>8. ASSUME NEW w \in Replicas, CreateGet(w) \/ DeleteGet(w) PROVE MemberInv'
  <2>1. mw[w].pc \in {"create", "delete"} /\ ~At(w, "idle") /\ UNCHANGED <<mcr, mcache>>
    BY <1>8 DEF CreateGet, DeleteGet, At
  <2>2. mw[w].cr \in MemberCRs /\ MemberJustified(w)
    BY <1>0, <2>1, BusyWorker
  <2>3. \/ Done(w)
        \/ \E pc, p : Goto(w, pc, mw[w].seen, p) /\ pc \in {"createSet", "deleteSet"}
                      /\ (pc = "createSet" => mw[w].pc = "create")
    <3>1. CASE CreateGet(w)
      BY <3>1 DEF CreateGet, At
    <3>2. CASE DeleteGet(w)
      <4>1. Done(w) \/ \E p : Goto(w, "deleteSet", mw[w].seen, p)
        BY <3>2, Zenon DEF DeleteGet
      <4>2. QED
        BY <4>1
    <3>3. QED
      BY <1>8, <3>1, <3>2
  <2>4. ASSUME NEW pc, NEW p, Goto(w, pc, mw[w].seen, p), pc \in {"createSet", "deleteSet"},
               pc = "createSet" => mw[w].pc = "create"
        PROVE  MemberJustified(w)'
    <3>1. mw'[w].pc = pc /\ mw'[w].cr = mw[w].cr /\ mw'[w].seen = mw[w].seen
      BY <2>4, GotoWorker
    <3>2. QED
      BY <2>1, <2>2, <2>4, <3>1 DEF MemberJustified, At
  <2>5. QED
    BY <2>1, <2>3, <2>4, DoneJustified, WorkerMoves
<1>9. QED
  BY <1>1, <1>2, <1>3, <1>4, <1>5, <1>6, <1>7, <1>8 DEF MemberNext, WorkerStep

LEMMA PolicyWorkerMoves ==
  ASSUME PolicyInv, OneWriter, NEW w \in Replicas, UNCHANGED <<pcr, pcache>>, PolicyJustified(w)'
  PROVE  PolicyInv'
<1>1. \A v \in Replicas : v = w
  BY DEF OneWriter
<1>2. QED
  BY <1>1 DEF PolicyInv

LEMMA PDoneJustified ==
  ASSUME TypeOK, NEW w \in Replicas, PDone(w) PROVE PolicyJustified(w)' /\ pw'[w].pc = "idle"
  BY DEF TypeOK, PolicyTypeOK, PDone, PIdle, PolicyJustified, PAt

LEMMA PGotoWorker ==
  ASSUME TypeOK, NEW w \in Replicas, ~PAt(w, "idle"), NEW pc, PGoto(w, pc)
  PROVE  pw'[w].pc = pc /\ pw'[w].seen = pw[w].seen
<1>1. pw[w] \in PBusy /\ pw \in [Replicas -> PBusy \cup {PIdle}]
  BY DEF TypeOK, PolicyTypeOK, PAt, PIdle
<1>2. QED
  BY <1>1 DEF PGoto, PBusy

\* What an observation leads to.
LEMMA ObservedPolicy ==
  ASSUME TypeOK, NEW w \in Replicas, ObservePolicy(w)
  PROVE  \/ PDone(w)
         \/ PGoto(w, "delete") /\ pw[w].seen.state = "deleting"
         \/ PGoto(w, "unfinalize") /\ pw[w].seen.state = "deleting" /\ (bucket => IsEmpty(policy))
         \/ \E pc \in {"create", "update"} : PGoto(w, pc) /\ pw[w].seen.state = "managed"
         \/ /\ pw'[w].pc = "finalizer" /\ pw'[w].seen = pw[w].seen
            /\ pw[w].seen.state = "new"
<1>1. PICK exists \in BOOLEAN, next \in {"create", "update", "done"} :
        AfterObserve(w, exists, next) /\ (bucket /\ ~exists => IsEmpty(policy))
  <2>1. CASE ~bucket /\ AfterObserve(w, FALSE, "create")
    BY <2>1
  <2>2. CASE AfterObserve(w, ~IsEmpty(policy),
               IF IsEmpty(policy) THEN "create"
               ELSE IF IsUpToDate(pw[w].seen.spec, policy) THEN "done" ELSE "update")
    <3>1. IsEmpty(policy) \in BOOLEAN /\ IsUpToDate(pw[w].seen.spec, policy) \in BOOLEAN
      BY DEF IsEmpty, IsUpToDate
    <3>2. QED
      BY <2>2, <3>1, Zenon
  <2>3. QED
    BY <2>1, <2>2, Zenon DEF ObservePolicy
<1>2. pw \in [Replicas -> PBusy \cup {PIdle}]
  BY DEF TypeOK, PolicyTypeOK
<1>3. QED
  BY <1>1, <1>2, SMT DEF AfterObserve

LEMMA PolicyObjects ==
  ASSUME TypeOK, PolicyInv, OneWriter, PolicyStep PROVE PolicyInv'
<1>0. /\ pcr \in PolicyCR /\ pcache \in [Replicas -> PolicyCR]
      /\ pw \in [Replicas -> PBusy \cup {PIdle}]
      /\ \A w \in Replicas : PolicyJustified(w)
  BY DEF TypeOK, PolicyTypeOK, PolicyInv
<1>1. CASE EditPolicyCR
  <2>1. UNCHANGED <<pcache, pw>> /\ pcr'.state = pcr.state
    BY <1>0, <1>1 DEF EditPolicyCR, PolicyCR
  <2>2. QED
    BY <2>1 DEF PolicyInv, PolicyJustified, PAt
<1>2. CASE DeletePolicyCR
  <2>1. /\ UNCHANGED <<pcache, pw>> /\ pcr.state \in {"new", "managed"}
        /\ pcr'.state = IF pcr.state = "new" THEN "gone" ELSE "deleting"
    BY <1>0, <1>2 DEF DeletePolicyCR, PolicyCR
  <2>2. \A w \in Replicas : Follows(pcache'[w].state, pcr'.state)
    BY <2>1 DEF PolicyInv, Follows
  <2>3. \A w \in Replicas : PolicyJustified(w)'
    BY <2>1 DEF PolicyInv, PolicyJustified, PAt, Held
  <2>4. QED
    BY <2>2, <2>3 DEF PolicyInv
<1>3. ASSUME NEW w \in Replicas, SyncPolicy(w) PROVE PolicyInv'
  <2>1. UNCHANGED <<pcr, pw>> /\ \A v \in Replicas : pcache'[v] = IF v = w THEN pcr ELSE pcache[v]
    BY <1>0, <1>3 DEF SyncPolicy
  <2>2. pcr.state \in PolicyCRState
    BY <1>0 DEF PolicyCR
  <2>3. \A v \in Replicas : Follows(pcache'[v].state, pcr'.state)
    BY <2>1, <2>2 DEF PolicyInv, Follows, PolicyCRState
  <2>4. \A v \in Replicas : PolicyJustified(v)'
    BY <2>1 DEF PolicyInv, PolicyJustified, PAt
  <2>5. QED
    BY <2>3, <2>4 DEF PolicyInv
<1>4. ASSUME NEW w \in Replicas, BeginPolicy(w) PROVE PolicyInv'
  <2>1. UNCHANGED <<pcr, pcache>> /\ pcache[w].state # "gone"
    BY <1>4 DEF BeginPolicy
  <2>2. pw'[w].pc = "observe" /\ pw'[w].seen = pcache[w]
    BY <1>0, <1>4 DEF BeginPolicy
  <2>3. pcr.state \in PolicyCRState /\ pcache[w].state \in PolicyCRState
    BY <1>0 DEF PolicyCR
  <2>4. PolicyJustified(w)'
    BY <2>1, <2>2, <2>3 DEF PolicyJustified, PAt, PolicyCRState, PolicyInv, Follows, Held
  <2>5. QED
    BY <2>1, <2>4, PolicyWorkerMoves
<1>5. ASSUME NEW w \in Replicas,
             FailPolicy(w) \/ CreatePolicy(w) \/ UpdateSet(w) \/ DeletePolicy(w)
      PROVE  PolicyInv'
  BY <1>5, PDoneJustified, PolicyWorkerMoves DEF FailPolicy, CreatePolicy, UpdateSet, DeletePolicy
<1>6. ASSUME NEW w \in Replicas, ObservePolicy(w) PROVE PolicyInv'
  <2>1. UNCHANGED <<pcr, pcache>> /\ ~PAt(w, "idle")
    BY <1>6, Zenon DEF ObservePolicy, PAt
  <2>2. ASSUME NEW pc, PGoto(w, pc),
               \/ pc \in {"delete", "unfinalize"} /\ pw[w].seen.state = "deleting"
               \/ pc \in {"create", "update"} /\ pw[w].seen.state = "managed"
        PROVE  PolicyJustified(w)'
    <3>1. pw'[w].pc = pc /\ pw'[w].seen = pw[w].seen
      BY <2>1, <2>2, PGotoWorker
    <3>2. QED
      BY <1>0, <2>1, <2>2, <3>1 DEF PolicyJustified, PAt
  <2>3. ASSUME pw'[w].pc = "finalizer", pw'[w].seen = pw[w].seen, pw[w].seen.state = "new"
        PROVE  PolicyJustified(w)'
    BY <2>3 DEF PolicyJustified, PAt
  <2>4. PolicyJustified(w)'
    BY <1>6, <2>2, <2>3, ObservedPolicy, PDoneJustified
  <2>5. QED
    BY <2>1, <2>4, PolicyWorkerMoves
<1>7. ASSUME NEW w \in Replicas, AddPolicyFinalizer(w) PROVE PolicyInv'
  <2>1. /\ pw[w].pc = "finalizer" /\ ~PAt(w, "idle") /\ UNCHANGED pcache
        /\ pcr = pw[w].seen /\ pcr'.state = "managed"
    BY <1>0, <1>7 DEF AddPolicyFinalizer, PAt, PolicyCR
  <2>2. pcr.state = "new"
    BY <1>0, <2>1 DEF PolicyJustified
  <2>3. \A v \in Replicas : Follows(pcache'[v].state, pcr'.state)
    BY <2>1, <2>2 DEF PolicyInv, Follows
  <2>4. PolicyJustified(w)'
    <3>1. CASE PDone(w)
      BY <3>1, PDoneJustified
    <3>2. CASE PGoto(w, pw[w].after) /\ pw[w].after # "done"
      <4>1. pw'[w].pc = pw[w].after /\ pw'[w].seen = pw[w].seen
        BY <2>1, <3>2, PGotoWorker
      <4>2. pw[w].after \in {"create", "update"}
        BY <1>0, <2>1, <3>2 DEF PAt, PIdle, PBusy
      <4>3. QED
        BY <2>1, <2>2, <4>1, <4>2 DEF PolicyJustified, PAt, Held
    <3>3. QED
      BY <1>7, <3>1, <3>2 DEF AddPolicyFinalizer
  <2>5. QED
    BY <2>3, <2>4 DEF OneWriter, PolicyInv
<1>8. ASSUME NEW w \in Replicas, RemovePolicyFinalizer(w) PROVE PolicyInv'
  <2>1. /\ pw[w].pc = "unfinalize" /\ ~PAt(w, "idle") /\ UNCHANGED pcache
        /\ pcr'.state = "gone" /\ PDone(w)
    BY <1>0, <1>8 DEF RemovePolicyFinalizer, PAt, PolicyCR
  <2>2. pcache[w].state \in {"deleting", "gone"}
    BY <1>0, <2>1 DEF PolicyJustified
  <2>3. \A v \in Replicas : Follows(pcache'[v].state, pcr'.state)
    BY <2>1, <2>2 DEF OneWriter, Follows
  <2>4. QED
    BY <2>1, <2>3, PDoneJustified DEF OneWriter, PolicyInv
<1>9. ASSUME NEW w \in Replicas, UpdateGet(w) PROVE PolicyInv'
  <2>1. pw[w].pc = "update" /\ ~PAt(w, "idle") /\ UNCHANGED <<pcr, pcache>>
    BY <1>9 DEF UpdateGet, PAt
  <2>2. CASE PDone(w)
    BY <2>1, <2>2, PDoneJustified, PolicyWorkerMoves
  <2>3. CASE PGoto(w, "updateSet")
    <3>1. pw'[w].pc = "updateSet" /\ pw'[w].seen = pw[w].seen
      BY <2>1, <2>3, PGotoWorker
    <3>2. PolicyJustified(w)'
      BY <1>0, <2>1, <3>1 DEF PolicyJustified, PAt
    <3>3. QED
      BY <2>1, <3>2, PolicyWorkerMoves
  <2>4. QED
    BY <1>9, <2>2, <2>3 DEF UpdateGet
<1>10. QED
  BY <1>1, <1>2, <1>3, <1>4, <1>5, <1>6, <1>7, <1>8, <1>9 DEF PolicyStep, PolicyWorkerStep

-----------------------------------------------------------------------------
(* What a step does to the grants and to the objects that stand for them.  *)

MemberQuiet ==
  /\ UNCHANGED <<policy, bucket>>
  /\ \A d \in MemberCRs : Held(mcr[d]) => Held(mcr'[d])
  /\ \A w \in Replicas : mw'[w].pc = "unfinalize" => At(w, "unfinalize") /\ mw'[w].cr = mw[w].cr
MemberLooks(w) ==
  /\ UNCHANGED <<policy, bucket, mcr>>
  /\ mw'[w].cr \in MemberCRs
  /\ ~Granted(policy, RoleOf[mw'[w].cr], MemberOf[mw'[w].cr])
MemberLetsGo(w) ==
  /\ UNCHANGED <<policy, bucket>>
  /\ At(w, "unfinalize") /\ mw[w].cr \in MemberCRs /\ mw'[w].pc = "idle"
  /\ \A d \in MemberCRs \ {mw[w].cr} : mcr'[d] = mcr[d]
MemberWrites(w) ==
  /\ UNCHANGED <<bucket, mcr>>
  /\ mw'[w].pc = "idle"
  /\ \A k \in Keys : \A m \in policy'[k] : m \in policy[k] \/ MemberHolds(k, m)

\* A role has one binding, so that what Observe finds is all there is.
LEMMA OneBinding ==
  ASSUME OneWriter, NEW p \in Policy, NEW c \in MemberCRs, NEW k \in BindTargets(p, RoleOf[c]),
         MemberOf[c] \notin p[k]
  PROVE  ~Granted(p, RoleOf[c], MemberOf[c])
<1>1. RoleOf[c] \in Roles
  BY MemberAssumption
<1>2. k \in Keys /\ k.role = RoleOf[c]
  BY <1>1, BindTargetsOfRole
<1>3. ASSUME NEW j \in Keys, j.role = RoleOf[c] PROVE j = k
  <2>1. j.cond = k.cond /\ j.role = k.role
    BY <1>2, <1>3 DEF Keys, OneWriter
  <2>2. QED
    BY <1>2, <2>1 DEF Keys
<1>4. QED
  BY <1>2, <1>3 DEF Granted

LEMMA MemberEffects ==
  ASSUME TypeOK, FreshInstance, MemberInv, OneWriter, MemberNext
  PROVE  MemberQuiet \/ \E w \in Replicas : MemberLooks(w) \/ MemberLetsGo(w) \/ MemberWrites(w)
<1> DEFINE Goal == MemberQuiet \/ \E w \in Replicas : MemberLooks(w) \/ MemberLetsGo(w) \/ MemberWrites(w)
<1>0. /\ mcr \in [MemberCRs -> CRState] /\ mw \in [Replicas -> Busy \cup {Idle}]
      /\ policy \in Policy /\ MemberTypeOK /\ \A w \in Replicas : MemberJustified(w)
  BY DEF TypeOK, MemberTypeOK, MemberInv
<1>1. ASSUME NEW c \in MemberCRs, DeleteMemberCR(c) PROVE Goal
  <2>1. /\ UNCHANGED <<policy, bucket, mw>>
        /\ mcr' = [mcr EXCEPT ![c] = IF @ = "new" THEN "gone" ELSE "deleting"]
    BY <1>1 DEF DeleteMemberCR, iamVars
  <2>2. MemberQuiet
    BY <1>0, <2>1 DEF MemberQuiet, Held, At
  <2>3. QED
    BY <2>2
\* A step of the only worker that ends elsewhere and leaves the objects alone.
<1>2. ASSUME NEW w \in Replicas, UNCHANGED <<policy, bucket, mcr>>, mw'[w].pc # "unfinalize"
      PROVE  Goal
  BY <1>2 DEF MemberQuiet, OneWriter
<1>3. ASSUME NEW w \in Replicas, NEW c \in MemberCRs, SyncMember(w, c) PROVE Goal
  BY <1>3 DEF SyncMember, MemberQuiet, At, iamVars
<1>4. ASSUME NEW w \in Replicas, NEW c \in MemberCRs, BeginMember(w, c) PROVE Goal
  <2>1. mw'[w].pc = "observe" /\ UNCHANGED <<policy, bucket, mcr>>
    BY <1>0, <1>4 DEF BeginMember, iamVars
  <2>2. QED
    BY <1>2, <2>1
<1>5. ASSUME NEW w \in Replicas, FailMember(w) PROVE Goal
  BY <1>2, <1>5, DoneJustified DEF FailMember, iamVars
<1>6. ASSUME NEW w \in Replicas, ObserveMember(w) PROVE Goal
  <2>1. UNCHANGED <<policy, bucket, mcr>> /\ ~At(w, "idle")
    BY <1>6 DEF ObserveMember, GetIamPolicy, At
  <2>2. mw[w].cr \in MemberCRs
    BY <1>0, <2>1, BusyWorker
  <2>3. PICK k \in BindTargets(policy, RoleOf[mw[w].cr]) :
          \/ Done(w)
          \/ \E pc \in {"delete", "adopt", "finalizer", "create"} : Goto(w, pc, mw[w].seen, EmptyPolicy)
          \/ MemberOf[mw[w].cr] \notin policy[k] /\ Goto(w, "unfinalize", mw[w].seen, EmptyPolicy)
    BY <1>6 DEF ObserveMember
  <2>4. CASE Done(w)
    BY <1>2, <2>1, <2>4, DoneJustified
  <2>5. ASSUME NEW pc \in {"delete", "adopt", "finalizer", "create"}, Goto(w, pc, mw[w].seen, EmptyPolicy)
        PROVE  Goal
    <3>1. mw'[w].pc = pc
      BY <2>5, GotoWorker
    <3>2. QED
      BY <1>2, <2>1, <3>1
  <2>6. CASE MemberOf[mw[w].cr] \notin policy[k] /\ Goto(w, "unfinalize", mw[w].seen, EmptyPolicy)
    <3>1. mw'[w].cr = mw[w].cr
      BY <2>6, GotoWorker
    <3>2. ~Granted(policy, RoleOf[mw[w].cr], MemberOf[mw[w].cr])
      BY <1>0, <2>2, <2>6, OneBinding
    <3>3. QED
      BY <2>1, <2>2, <3>1, <3>2 DEF MemberLooks
  <2>7. QED
    BY <2>3, <2>4, <2>5, <2>6
<1>7. ASSUME NEW w \in Replicas, AddFinalizer(w) PROVE Goal
  <2>1. UNCHANGED <<policy, bucket>> /\ mcr' = [mcr EXCEPT ![mw[w].cr] = "managed"]
    BY <1>7 DEF AddFinalizer, iamVars
  <2>2. mw'[w].pc # "unfinalize"
    BY <1>7, DoneJustified, GotoWorker DEF AddFinalizer
  <2>3. \A d \in MemberCRs : Held(mcr[d]) => Held(mcr'[d])
    BY <1>0, <2>1 DEF Held
  <2>4. QED
    BY <2>1, <2>2, <2>3 DEF MemberQuiet, OneWriter
<1>8. ASSUME NEW w \in Replicas, RemoveFinalizer(w) PROVE Goal
  <2>1. /\ UNCHANGED <<policy, bucket>> /\ At(w, "unfinalize") /\ ~At(w, "idle") /\ Done(w)
        /\ mcr' = [mcr EXCEPT ![mw[w].cr] = "gone"]
    BY <1>8 DEF RemoveFinalizer, At, iamVars
  <2>2. mw[w].cr \in MemberCRs
    BY <1>0, <2>1, BusyWorker
  <2>3. MemberLetsGo(w)
    BY <1>0, <2>1, <2>2, DoneJustified DEF MemberLetsGo
  <2>4. QED
    BY <2>3
<1>9. ASSUME NEW w \in Replicas, CreateGet(w) \/ DeleteGet(w) PROVE Goal
  <2>1. UNCHANGED <<policy, bucket, mcr>>
    BY <1>9 DEF CreateGet, DeleteGet, GetIamPolicy
  <2>2. \/ Done(w)
        \/ \E pc \in {"createSet", "deleteSet"} : \E p : Goto(w, pc, mw[w].seen, p)
    <3>1. CASE CreateGet(w)
      BY <3>1 DEF CreateGet
    <3>2. CASE DeleteGet(w)
      <4>1. Done(w) \/ \E p : Goto(w, "deleteSet", mw[w].seen, p)
        BY <3>2, Zenon DEF DeleteGet
      <4>2. QED
        BY <4>1
    <3>3. QED
      BY <1>9, <3>1, <3>2
  <2>3. mw'[w].pc # "unfinalize"
    BY <2>2, DoneJustified, GotoWorker
  <2>4. QED
    BY <1>2, <2>1, <2>3
<1>10. ASSUME NEW w \in Replicas, SetMember(w) PROVE Goal
  <2> DEFINE c == mw[w].cr
  <2>1. /\ ~At(w, "idle") /\ UNCHANGED <<bucket, mcr>> /\ Done(w)
        /\ policy' = mw[w].instance /\ Client(w) \in current
    BY <1>10 DEF SetMember, SetWithEtag, At
  <2>2. c \in MemberCRs /\ MemberJustified(w) /\ mw'[w].pc = "idle"
    BY <1>0, <2>1, BusyWorker, DoneJustified
  <2>3. CASE At(w, "createSet")
    <3>1. PICK j \in Keys : /\ j.role = RoleOf[c]
                            /\ policy' = [policy EXCEPT ![j] = @ \cup {MemberOf[c]}]
      BY <2>1, <2>3 DEF FreshInstance, FreshCreate, BindRoleToMember
    <3>2. MemberHolds(j, MemberOf[c])
      BY <2>1, <2>2, <2>3, <3>1 DEF MemberJustified, At, MemberHolds
    <3>3. ASSUME NEW k \in Keys, NEW m \in policy'[k], m \notin policy[k]
          PROVE  k = j /\ m = MemberOf[c]
      BY <1>0, <3>1, <3>3 DEF Policy
    <3>4. QED
      BY <2>1, <2>2, <3>2, <3>3 DEF MemberWrites
  <2>4. CASE At(w, "deleteSet")
    <3>1. PICK j \in Keys : policy' = [policy EXCEPT ![j] = @ \ {MemberOf[c]}]
      BY <2>1, <2>4 DEF FreshInstance, FreshDelete, UnbindRoleFromMember
    <3>2. \A k \in Keys : policy'[k] \subseteq policy[k]
      BY <1>0, <3>1 DEF Policy
    <3>3. QED
      BY <2>1, <2>2, <3>2 DEF MemberWrites
  <2>5. QED
    BY <1>10, <2>3, <2>4 DEF SetMember
<1>11. QED
  BY <1>1, <1>3, <1>4, <1>5, <1>6, <1>7, <1>8, <1>9, <1>10 DEF MemberNext, WorkerStep

PolicyQuiet ==
  /\ UNCHANGED <<policy, bucket>>
  /\ Held(pcr.state) => Held(pcr'.state)
  /\ \A w \in Replicas : pw'[w].pc = "unfinalize" => PAt(w, "unfinalize")
PolicyLooks ==
  /\ UNCHANGED <<policy, bucket, pcr>>
  /\ bucket => IsEmpty(policy)
PolicyLetsGo(w) ==
  /\ UNCHANGED <<policy, bucket>>
  /\ PAt(w, "unfinalize") /\ pw'[w].pc = "idle"
PolicyWrites(w) ==
  /\ UNCHANGED <<bucket, pcr>>
  /\ pw'[w].pc = "idle"
  /\ \A k \in Keys : \A m \in policy'[k] : PolicyHolds(k, m)

LEMMA PolicyEffects ==
  ASSUME TypeOK, PolicyInv, OneWriter, PolicyStep
  PROVE  PolicyQuiet \/ PolicyLooks \/ \E w \in Replicas : PolicyLetsGo(w) \/ PolicyWrites(w)
<1> DEFINE Goal == PolicyQuiet \/ PolicyLooks \/ \E w \in Replicas : PolicyLetsGo(w) \/ PolicyWrites(w)
<1>0. /\ pcr \in PolicyCR /\ pw \in [Replicas -> PBusy \cup {PIdle}]
      /\ \A w \in Replicas : PolicyJustified(w)
  BY DEF TypeOK, PolicyTypeOK, PolicyInv
<1>1. CASE EditPolicyCR \/ DeletePolicyCR
  <2>1. UNCHANGED <<policy, bucket, pw>>
    BY <1>1 DEF EditPolicyCR, DeletePolicyCR, iamVars
  <2>2. Held(pcr.state) => Held(pcr'.state)
    BY <1>0, <1>1 DEF EditPolicyCR, DeletePolicyCR, PolicyCR, Held
  <2>3. QED
    BY <2>1, <2>2 DEF PolicyQuiet, PAt
\* A step of the only worker that ends elsewhere and leaves the object alone.
<1>2. ASSUME NEW w \in Replicas, UNCHANGED <<policy, bucket, pcr>>, pw'[w].pc # "unfinalize"
      PROVE  Goal
  BY <1>2 DEF PolicyQuiet, OneWriter
<1>3. ASSUME NEW w \in Replicas, SyncPolicy(w) PROVE Goal
  BY <1>3 DEF SyncPolicy, PolicyQuiet, PAt, iamVars
<1>4. ASSUME NEW w \in Replicas, BeginPolicy(w) PROVE Goal
  <2>1. pw'[w].pc = "observe" /\ UNCHANGED <<policy, bucket, pcr>>
    BY <1>0, <1>4 DEF BeginPolicy, iamVars
  <2>2. QED
    BY <1>2, <2>1
<1>5. ASSUME NEW w \in Replicas, FailPolicy(w) PROVE Goal
  BY <1>2, <1>5, PDoneJustified DEF FailPolicy, iamVars
<1>6. ASSUME NEW w \in Replicas, ObservePolicy(w) PROVE Goal
  <2>1. UNCHANGED <<policy, bucket, pcr>> /\ ~PAt(w, "idle")
    BY <1>6, Zenon DEF ObservePolicy, GetIamPolicy, PAt, iamVars
  <2>2. CASE bucket => IsEmpty(policy)
    BY <2>1, <2>2 DEF PolicyLooks
  <2>3. CASE ~(bucket => IsEmpty(policy))
    <3>1. ASSUME NEW pc \in {"delete", "create", "update"}, PGoto(w, pc)
          PROVE  pw'[w].pc # "unfinalize"
      BY <2>1, <3>1, PGotoWorker
    <3>2. PDone(w) => pw'[w].pc # "unfinalize"
      BY PDoneJustified
    <3>3. pw'[w].pc # "unfinalize"
      BY <1>6, <2>3, <3>1, <3>2, ObservedPolicy
    <3>4. QED
      BY <1>2, <2>1, <3>3
  <2>4. QED
    BY <2>2, <2>3
<1>7. ASSUME NEW w \in Replicas, AddPolicyFinalizer(w) PROVE Goal
  <2>1. UNCHANGED <<policy, bucket>> /\ pcr'.state = "managed" /\ ~PAt(w, "idle")
    BY <1>0, <1>7 DEF AddPolicyFinalizer, PAt, PolicyCR, iamVars
  <2>2. pw[w].after # "unfinalize"
    <3>1. pw[w] \in PBusy
      BY <1>0, <2>1 DEF PAt, PIdle
    <3>2. QED
      BY <3>1 DEF PBusy
  <2>3. pw'[w].pc # "unfinalize"
    BY <1>7, <2>1, <2>2, PDoneJustified, PGotoWorker DEF AddPolicyFinalizer
  <2>4. QED
    BY <2>1, <2>3 DEF PolicyQuiet, OneWriter, Held
<1>8. ASSUME NEW w \in Replicas, RemovePolicyFinalizer(w) PROVE Goal
  BY <1>8, PDoneJustified DEF RemovePolicyFinalizer, PolicyLetsGo, iamVars
<1>9. ASSUME NEW w \in Replicas, CreatePolicy(w) \/ UpdateSet(w) PROVE Goal
  <2>1. /\ UNCHANGED <<bucket, pcr>> /\ PDone(w) /\ policy' = pw[w].seen.spec
        /\ pw[w].pc \in {"create", "updateSet"} /\ ~PAt(w, "idle")
    BY <1>9 DEF CreatePolicy, UpdateSet, SetWithEtag, SetWithoutEtag, PAt
  <2>2. Held(pcr.state)
    BY <1>0, <2>1 DEF PolicyJustified
  <2>3. policy' \in Specs
    <3>1. pw[w] \in PBusy
      BY <1>0, <2>1 DEF PAt, PIdle
    <3>2. QED
      BY <2>1, <3>1 DEF PBusy, PolicyCR
  <2>4. QED
    BY <2>1, <2>2, <2>3, PDoneJustified DEF PolicyWrites, PolicyHolds
<1>10. ASSUME NEW w \in Replicas, UpdateGet(w) PROVE Goal
  <2>1. UNCHANGED <<policy, bucket, pcr>> /\ ~PAt(w, "idle")
    BY <1>10 DEF UpdateGet, GetIamPolicy, PAt
  <2>2. PDone(w) \/ PGoto(w, "updateSet")
    BY <1>10 DEF UpdateGet
  <2>3. pw'[w].pc # "unfinalize"
    <3>1. CASE PDone(w)
      BY <3>1, PDoneJustified
    <3>2. CASE PGoto(w, "updateSet")
      BY <2>1, <3>2, PGotoWorker
    <3>3. QED
      BY <2>2, <3>1, <3>2
  <2>4. QED
    BY <1>2, <2>1, <2>3
<1>11. ASSUME NEW w \in Replicas, DeletePolicy(w) PROVE Goal
  <2>1. UNCHANGED <<bucket, pcr>> /\ PDone(w) /\ policy' = EmptyPolicy
    BY <1>11 DEF DeletePolicy, SetWithoutEtag
  <2>2. QED
    BY <2>1, PDoneJustified DEF PolicyWrites, EmptyPolicy
<1>12. QED
  BY <1>1, <1>3, <1>4, <1>5, <1>6, <1>7, <1>8, <1>9, <1>10, <1>11 DEF PolicyStep, PolicyWorkerStep

\* Nobody outside the provider makes a grant of ours.
LEMMA OutsideEffects ==
  ASSUME TypeOK, ForeignEdit \/ DeleteBucket \/ UNCHANGED vars
  PROVE  /\ UNCHANGED <<mcr, mcache, mw, pcr, pcache, pw>>
         /\ bucket' => bucket
         /\ \A k \in Keys : \A m \in policy'[k] : Ours(k, m) => m \in policy[k]
<1>1. CASE ForeignEdit
  <2>1. PICK g \in ForeignGrants :
          policy' = [policy EXCEPT ![g[1]] = IF g[2] \in @ THEN @ \ {g[2]} ELSE @ \cup {g[2]}]
    BY <1>1 DEF ForeignEdit, SetWithoutEtag
  <2>2. ASSUME NEW k \in Keys, NEW m \in policy'[k], m \notin policy[k]
        PROVE  <<k, m>> \in ForeignGrants
    <3>1. g[1] \in Keys /\ g = <<g[1], g[2]>>
      BY IamAssumption
    <3>2. k = g[1] /\ m = g[2]
      BY <2>1, <2>2, <3>1 DEF TypeOK, Policy
    <3>3. QED
      BY <3>1, <3>2
  <2>3. QED
    BY <1>1, <2>2 DEF ForeignEdit, SetWithoutEtag, memberVars, policyVars, Ours
<1>2. CASE DeleteBucket \/ UNCHANGED vars
  <2>1. /\ UNCHANGED <<mcr, mcache, mw, pcr, pcache, pw>>
        /\ bucket' => bucket
        /\ policy' = policy
    BY <1>2 DEF DeleteBucket, vars, memberVars, policyVars
  <2>2. QED
    BY <2>1
<1>3. QED
  BY <1>1, <1>2

-----------------------------------------------------------------------------
(* Each of these keeps the grants held.                                    *)

LEMMA MemberKeepsHeld ==
  ASSUME GrantInv, OneWriter, UNCHANGED <<pcr, pw>>,
         MemberQuiet \/ \E w \in Replicas : MemberLooks(w) \/ MemberLetsGo(w) \/ MemberWrites(w)
  PROVE  GrantInv'
<1>0. \A k, m : PolicyHolds(k, m)' <=> PolicyHolds(k, m)
  BY DEF PolicyHolds
<1>1. CASE MemberQuiet
  <2>1. \A k, m : MemberHolds(k, m) => MemberHolds(k, m)'
    BY <1>1 DEF MemberQuiet, MemberHolds
  <2>2. GrantHeld'
    BY <1>0, <1>1, <2>1 DEF GrantInv, GrantHeld, MemberQuiet, Ours
  <2>3. ASSUME NEW w \in Replicas PROVE MemberDispensable(w)' /\ PolicyDispensable(w)'
    <3>1. MemberDispensable(w)'
      BY <1>0, <1>1 DEF GrantInv, MemberDispensable, MemberQuiet, Ours, At, PAt
    <3>2. PolicyDispensable(w)'
      BY <1>1, <2>1 DEF GrantInv, PolicyDispensable, MemberQuiet, Ours, PAt
    <3>3. QED
      BY <3>1, <3>2
  <2>4. QED
    BY <2>2, <2>3 DEF GrantInv
<1>2. ASSUME NEW w \in Replicas, MemberLooks(w) PROVE GrantInv'
  <2>1. \A k, m : MemberHolds(k, m) <=> MemberHolds(k, m)'
    BY <1>2 DEF MemberLooks, MemberHolds
  <2>2. GrantHeld'
    BY <1>0, <1>2, <2>1 DEF GrantInv, GrantHeld, MemberLooks, Ours
  <2>3. MemberDispensable(w)'
    BY <1>2 DEF MemberDispensable, MemberLooks, Granted
  <2>4. PolicyDispensable(w)'
    BY <1>2, <2>1 DEF GrantInv, PolicyDispensable, MemberLooks, Ours, PAt
  <2>5. QED
    BY <2>2, <2>3, <2>4 DEF GrantInv, OneWriter
<1>3. ASSUME NEW w \in Replicas, MemberLetsGo(w) PROVE GrantInv'
  \* What the object that goes stood for is held by the BucketPolicy.
  <2>1. ASSUME bucket, NEW k \in Keys, NEW m \in policy[k], Ours(k, m), MemberHolds(k, m)
        PROVE  MemberHolds(k, m)' \/ (PolicyHolds(k, m) /\ ~PAt(w, "unfinalize"))
    <3>1. PICK d \in MemberCRs : Held(mcr[d]) /\ RoleOf[d] = k.role /\ MemberOf[d] = m
      BY <2>1 DEF MemberHolds
    <3>2. CASE d = mw[w].cr
      BY <1>3, <2>1, <3>1, <3>2 DEF GrantInv, MemberDispensable, MemberLetsGo
    <3>3. CASE d # mw[w].cr
      BY <1>3, <3>1, <3>3 DEF MemberLetsGo, MemberHolds
    <3>4. QED
      BY <3>2, <3>3
  <2>2. UNCHANGED <<policy, bucket>> /\ mw'[w].pc = "idle"
    BY <1>3 DEF MemberLetsGo
  <2>3. GrantHeld'
    BY <1>0, <2>1, <2>2 DEF GrantInv, GrantHeld, Ours
  <2>4. MemberDispensable(w)'
    BY <2>2 DEF MemberDispensable, At
  <2>5. PolicyDispensable(w)'
    BY <2>1, <2>2 DEF GrantInv, PolicyDispensable, Ours, PAt
  <2>6. QED
    BY <2>3, <2>4, <2>5 DEF GrantInv, OneWriter
<1>4. ASSUME NEW w \in Replicas, MemberWrites(w) PROVE GrantInv'
  <2>1. \A k, m : MemberHolds(k, m) <=> MemberHolds(k, m)'
    BY <1>4 DEF MemberWrites, MemberHolds
  <2>2. GrantHeld'
    BY <1>0, <1>4, <2>1 DEF GrantInv, GrantHeld, MemberWrites, Ours
  <2>3. MemberDispensable(w)'
    BY <1>4 DEF MemberDispensable, MemberWrites, At
  <2>4. PolicyDispensable(w)'
    BY <1>4, <2>1 DEF GrantInv, PolicyDispensable, MemberWrites, Ours, PAt
  <2>5. QED
    BY <2>2, <2>3, <2>4 DEF GrantInv, OneWriter
<1>5. QED
  BY <1>1, <1>2, <1>3, <1>4

LEMMA PolicyKeepsHeld ==
  ASSUME GrantInv, OneWriter, UNCHANGED <<mcr, mw>>,
         PolicyQuiet \/ PolicyLooks \/ \E w \in Replicas : PolicyLetsGo(w) \/ PolicyWrites(w)
  PROVE  GrantInv'
<1>0. \A k, m : MemberHolds(k, m)' <=> MemberHolds(k, m)
  BY DEF MemberHolds
<1>1. CASE PolicyQuiet
  <2>1. \A k, m : PolicyHolds(k, m) => PolicyHolds(k, m)'
    BY <1>1 DEF PolicyQuiet, PolicyHolds
  <2>2. GrantHeld'
    BY <1>0, <1>1, <2>1 DEF GrantInv, GrantHeld, PolicyQuiet, Ours
  <2>3. ASSUME NEW w \in Replicas PROVE MemberDispensable(w)' /\ PolicyDispensable(w)'
    <3>1. MemberDispensable(w)'
      BY <1>1, <2>1 DEF GrantInv, MemberDispensable, PolicyQuiet, Ours, At, PAt
    <3>2. PolicyDispensable(w)'
      BY <1>0, <1>1 DEF GrantInv, PolicyDispensable, PolicyQuiet, Ours, PAt
    <3>3. QED
      BY <3>1, <3>2
  <2>4. QED
    BY <2>2, <2>3 DEF GrantInv
<1>2. CASE PolicyLooks
  <2>1. bucket' => \A k \in Keys : policy'[k] = {}
    BY <1>2 DEF PolicyLooks, IsEmpty
  <2>2. QED
    BY <2>1 DEF GrantInv, GrantHeld, MemberDispensable, PolicyDispensable
<1>3. ASSUME NEW w \in Replicas, PolicyLetsGo(w) PROVE GrantInv'
  <2>1. UNCHANGED <<policy, bucket>> /\ PAt(w, "unfinalize") /\ pw'[w].pc = "idle"
    BY <1>3 DEF PolicyLetsGo
  <2>2. GrantHeld'
    BY <1>0, <2>1 DEF GrantInv, GrantHeld, PolicyDispensable, Ours
  <2>3. MemberDispensable(w)'
    BY <2>1 DEF GrantInv, MemberDispensable, Ours, At
  <2>4. PolicyDispensable(w)'
    BY <2>1 DEF PolicyDispensable, PAt
  <2>5. QED
    BY <2>2, <2>3, <2>4 DEF GrantInv, OneWriter
<1>4. ASSUME NEW w \in Replicas, PolicyWrites(w) PROVE GrantInv'
  <2>1. \A k, m : PolicyHolds(k, m) <=> PolicyHolds(k, m)'
    BY <1>4 DEF PolicyWrites, PolicyHolds
  <2>2. GrantHeld'
    BY <1>4, <2>1 DEF GrantHeld, PolicyWrites
  <2>3. MemberDispensable(w)'
    BY <1>4, <2>1 DEF MemberDispensable, PolicyWrites, PAt
  <2>4. PolicyDispensable(w)'
    BY <1>4 DEF PolicyDispensable, PolicyWrites, PAt
  <2>5. QED
    BY <2>2, <2>3, <2>4 DEF GrantInv, OneWriter
<1>5. QED
  BY <1>1, <1>2, <1>3, <1>4

LEMMA OutsideKeepsHeld ==
  ASSUME GrantInv, UNCHANGED <<mcr, mw, pcr, pw>>, bucket' => bucket,
         \A k \in Keys : \A m \in policy'[k] : Ours(k, m) => m \in policy[k]
  PROVE  GrantInv'
<1>1. \A k, m : (PolicyHolds(k, m)' <=> PolicyHolds(k, m)) /\ (MemberHolds(k, m)' <=> MemberHolds(k, m))
  BY DEF PolicyHolds, MemberHolds
<1>2. GrantHeld'
  BY <1>1 DEF GrantInv, GrantHeld, Ours
<1>3. ASSUME NEW w \in Replicas PROVE MemberDispensable(w)' /\ PolicyDispensable(w)'
  <2>1. MemberDispensable(w)'
    BY <1>1 DEF GrantInv, MemberDispensable, Ours, At, PAt
  <2>2. PolicyDispensable(w)'
    BY <1>1 DEF GrantInv, PolicyDispensable, Ours, PAt
  <2>3. QED
    BY <2>1, <2>2
<1>4. QED
  BY <1>2, <1>3 DEF GrantInv

LEMMA Invariance ==
  ASSUME OneWriter PROVE Spec => []IInv
<1> DEFINE Rest == MemberInv /\ PolicyInv /\ GrantInv
<1>1. Init => Rest
  <2>1. SUFFICES ASSUME Init PROVE Rest
    OBVIOUS
  <2>2. PICK s \in Setups : MemberInit(s[1]) /\ PolicyInit(s[2])
    BY <2>1 DEF Init
  <2>3. MemberInv
    BY <2>2 DEF MemberInit, Idle, MemberInv, MemberJustified, At, Follows
  <2>4. /\ pcr.state \in {"new", "gone"}
        /\ \A w \in Replicas : pcache[w] = pcr /\ pw[w].pc = "idle"
    <3>1. PIdle.pc = "idle"
      BY DEF PIdle
    <3>2. QED
      BY <2>2, <3>1 DEF PolicyInit
  <2>5. PolicyInv
    <3>1. \A w \in Replicas : Follows(pcache[w].state, pcr.state)
      BY <2>4 DEF Follows
    <3>2. \A w \in Replicas : PolicyJustified(w)
      BY <2>4 DEF PolicyJustified, PAt
    <3>3. QED
      BY <3>1, <3>2 DEF PolicyInv
  <2>6. GrantInv
    <3>1. \A w \in Replicas : ~At(w, "unfinalize") /\ ~PAt(w, "unfinalize")
      <4>1. \A w \in Replicas : mw[w].pc = "idle"
        BY <2>2 DEF MemberInit, Idle
      <4>2. QED
        BY <2>4, <4>1 DEF At, PAt
    <3>2. policy = InitialPolicy
      BY <2>1 DEF Init, IamInit
    <3>3. QED
      BY <3>1, <3>2 DEF GrantInv, GrantHeld, Ours, MemberDispensable, PolicyDispensable
  <2>7. QED
    BY <2>3, <2>5, <2>6
<1>2. TypeOK /\ FreshInstance /\ Rest /\ [Next]_vars => Rest'
  <2> SUFFICES ASSUME TypeOK, FreshInstance, Rest, [Next]_vars PROVE Rest'
    OBVIOUS
  <2>1. CASE MemberStep
    <3>1. MemberNext /\ UNCHANGED <<pcr, pcache, pw>>
      BY <2>1 DEF MemberStep, policyVars
    <3>2. PolicyInv'
      BY <3>1 DEF PolicyInv, PolicyJustified, PAt
    <3>3. QED
      BY <3>1, <3>2, MemberObjects, MemberEffects, MemberKeepsHeld
  <2>2. CASE PolicyStep
    <3>1. UNCHANGED <<mcr, mcache, mw>>
      BY <2>2 DEF PolicyStep, memberVars
    <3>2. MemberInv'
      BY <3>1 DEF MemberInv, MemberJustified, At
    <3>3. QED
      BY <2>2, <3>1, <3>2, PolicyObjects, PolicyEffects, PolicyKeepsHeld
  <2>3. CASE ForeignEdit \/ DeleteBucket \/ UNCHANGED vars
    <3>1. UNCHANGED <<mcr, mcache, mw, pcr, pcache, pw>>
      BY <2>3, OutsideEffects
    <3>2. MemberInv' /\ PolicyInv'
      BY <3>1 DEF MemberInv, MemberJustified, At, PolicyInv, PolicyJustified, PAt
    <3>3. QED
      BY <2>3, <3>1, <3>2, OutsideEffects, OutsideKeepsHeld
  <2>4. QED
    BY <2>1, <2>2, <2>3 DEF Next
<1>3. TypeOK /\ FreshInstance /\ Rest => IInv
  BY DEF IInv
<1> HIDE DEF Rest
<1>4. QED
  BY <1>1, <1>2, <1>3, TypeCorrect, InstancesAreFresh, PTL DEF Spec

\* However AddFinalizer, Create, Update, Delete and RemoveFinalizer of
\* BucketPolicyMember and BucketPolicy are interrupted and interleaved, and however
\* old the objects they act on are: one replica leaves no grant behind that only
\* the provider makes, whatever grants the two kinds of object share.
THEOREM NoGrantOrphaned ==
  ASSUME OneWriter PROVE Spec => []NoOrphanedGrant
<1>1. IInv => NoOrphanedGrant
  <2>1. SUFFICES ASSUME GrantHeld, bucket, NEW k \in Keys, NEW m \in policy[k], Ours(k, m)
                 PROVE  \/ pcr.state # "gone" /\ \E s \in Specs : m \in s[k]
                        \/ \E d \in MemberCRs : /\ mcr[d] # "gone"
                                                /\ RoleOf[d] = k.role /\ MemberOf[d] = m
    BY DEF IInv, GrantInv, NoOrphanedGrant
  <2>2. PolicyHolds(k, m) \/ MemberHolds(k, m)
    BY <2>1 DEF GrantHeld
  <2>3. CASE PolicyHolds(k, m)
    BY <2>3 DEF PolicyHolds, Held
  <2>4. CASE MemberHolds(k, m)
    BY <2>4 DEF MemberHolds, Held
  <2>5. QED
    BY <2>2, <2>3, <2>4
<1>2. QED
  BY <1>1, Invariance, PTL
=============================================================================
