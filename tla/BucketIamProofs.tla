-------------------------- MODULE BucketIamProofs --------------------------
(***************************************************************************)
(* Proofs about BucketIam, for any number of roles, members, conditions,   *)
(* replicas, objects and edits.                                            *)
(***************************************************************************)
EXTENDS BucketIam, TLAPS

-----------------------------------------------------------------------------
(* What the helpers on policies return.                                    *)

LEMMA EmptyIsPolicy == EmptyPolicy \in Policy
  BY DEF EmptyPolicy, Policy

LEMMA BindIsPolicy ==
  ASSUME NEW p \in Policy, NEW k \in Keys, NEW m \in Members
  PROVE  BindRoleToMember(p, k, m) \in Policy
  BY DEF BindRoleToMember, Policy

LEMMA UnbindIsPolicy ==
  ASSUME NEW p \in Policy, NEW k \in Keys, NEW m \in Members
  PROVE  UnbindRoleFromMember(p, k, m) \in Policy
  BY DEF UnbindRoleFromMember, Policy

\* The binding Bind changes is one of the role's.
LEMMA BindTargetsOfRole ==
  ASSUME NEW p, NEW r \in Roles, NEW k \in BindTargets(p, r)
  PROVE  k \in Keys /\ k.role = r
  BY ConditionAssumption DEF BindTargets, RoleBindings, Keys

\* A worker that is not idle has an object in hand.
LEMMA BusyWorker ==
  ASSUME MemberTypeOK, NEW w \in Replicas, ~At(w, "idle")
  PROVE  /\ mw[w] \in Busy
         /\ mw[w].cr \in MemberCRs /\ mw[w].seen \in CRState /\ mw[w].instance \in Policy
         /\ RoleOf[mw[w].cr] \in Roles /\ MemberOf[mw[w].cr] \in Members
  BY MemberAssumption DEF MemberTypeOK, At, Idle, Busy

LEMMA GotoType ==
  ASSUME MemberTypeOK, NEW w \in Replicas, ~At(w, "idle"),
         NEW pc \in {"observe", "finalizer", "adopt", "create", "createSet",
                     "delete", "deleteSet", "unfinalize"},
         NEW seen \in CRState, NEW p \in Policy, Goto(w, pc, seen, p)
  PROVE  mw' \in [Replicas -> Busy \cup {Idle}]
  BY BusyWorker DEF MemberTypeOK, Goto, Busy

LEMMA DoneType ==
  ASSUME MemberTypeOK, NEW w \in Replicas, Done(w)
  PROVE  mw' \in [Replicas -> Busy \cup {Idle}]
  BY DEF MemberTypeOK, Done

-----------------------------------------------------------------------------
(* Every step preserves the types.                                         *)

LEMMA MemberStepType ==
  ASSUME TypeOK, MemberStep PROVE TypeOK'
<1>1. PolicyTypeOK' /\ edits' \in 0..MaxEdits
  BY DEF TypeOK, MemberStep, policyVars, PolicyTypeOK
<1>2. MemberNext /\ MemberTypeOK /\ policy \in Policy
  BY DEF TypeOK, MemberStep
<1> DEFINE Rest == /\ policy' \in Policy /\ bucket' \in BOOLEAN
                   /\ current' \subseteq {"member", "policy"} \X Replicas
                   /\ MemberTypeOK'
<1>3. ASSUME NEW c \in MemberCRs, DeleteMemberCR(c) PROVE Rest
  BY <1>3 DEF DeleteMemberCR, TypeOK, MemberTypeOK, CRState, iamVars
<1>4. ASSUME NEW w \in Replicas, NEW c \in MemberCRs, SyncMember(w, c) PROVE Rest
  BY <1>4 DEF SyncMember, TypeOK, MemberTypeOK, iamVars
<1>5. ASSUME NEW w \in Replicas, NEW c \in MemberCRs, BeginMember(w, c) PROVE Rest
  BY <1>5, EmptyIsPolicy DEF BeginMember, TypeOK, MemberTypeOK, Busy, iamVars
<1>6. ASSUME NEW w \in Replicas, FailMember(w) PROVE Rest
  BY <1>6, DoneType DEF FailMember, TypeOK, MemberTypeOK, iamVars
<1>7. ASSUME NEW w \in Replicas, ObserveMember(w) PROVE Rest
  <2>1. mw' \in [Replicas -> Busy \cup {Idle}]
    <3>1. ~At(w, "idle") /\ mw[w].seen \in CRState
      BY <1>2, <1>7, BusyWorker DEF ObserveMember, At
    <3>2. \/ \E pc \in {"delete", "unfinalize", "adopt", "finalizer", "create"} :
               Goto(w, pc, mw[w].seen, EmptyPolicy)
          \/ Done(w)
      BY <1>7 DEF ObserveMember
    <3>3. QED BY <1>2, <3>1, <3>2, GotoType, DoneType, EmptyIsPolicy
  <2>2. QED
    BY <1>7, <2>1 DEF ObserveMember, GetIamPolicy, Client, TypeOK, MemberTypeOK
<1>8. ASSUME NEW w \in Replicas, AddFinalizer(w) PROVE Rest
  <2>1. ~At(w, "idle") /\ mw[w].cr \in MemberCRs
    BY <1>2, <1>8, BusyWorker DEF AddFinalizer, At
  <2>2. mw' \in [Replicas -> Busy \cup {Idle}]
    BY <1>2, <1>8, <2>1, GotoType, DoneType, EmptyIsPolicy DEF AddFinalizer, CRState
  <2>3. QED
    BY <1>8, <2>1, <2>2 DEF AddFinalizer, TypeOK, MemberTypeOK, CRState, iamVars
<1>9. ASSUME NEW w \in Replicas, RemoveFinalizer(w) PROVE Rest
  <2>1. mw[w].cr \in MemberCRs
    BY <1>2, <1>9, BusyWorker DEF RemoveFinalizer, At
  <2>2. mw' \in [Replicas -> Busy \cup {Idle}]
    BY <1>2, <1>9, DoneType DEF RemoveFinalizer
  <2>3. QED
    BY <1>9, <2>1, <2>2 DEF RemoveFinalizer, TypeOK, MemberTypeOK, CRState, iamVars
<1>10. ASSUME NEW w \in Replicas, CreateGet(w) PROVE Rest
  <2>1. /\ ~At(w, "idle") /\ mw[w].seen \in CRState
        /\ RoleOf[mw[w].cr] \in Roles /\ MemberOf[mw[w].cr] \in Members
    BY <1>2, <1>10, BusyWorker DEF CreateGet, At
  <2>2. \/ Done(w)
        \/ \E k \in BindTargets(policy, RoleOf[mw[w].cr]) :
             Goto(w, "createSet", mw[w].seen, BindRoleToMember(policy, k, MemberOf[mw[w].cr]))
    BY <1>10 DEF CreateGet
  <2>3. mw' \in [Replicas -> Busy \cup {Idle}]
    BY <1>2, <2>1, <2>2, GotoType, DoneType, BindIsPolicy, BindTargetsOfRole
  <2>4. QED
    BY <1>10, <2>3 DEF CreateGet, GetIamPolicy, Client, TypeOK, MemberTypeOK
<1>11. ASSUME NEW w \in Replicas, DeleteGet(w) PROVE Rest
  <2>1. /\ ~At(w, "idle") /\ mw[w].seen \in CRState /\ MemberOf[mw[w].cr] \in Members
    BY <1>2, <1>11, BusyWorker DEF DeleteGet, At
  <2>2. \/ Done(w)
        \/ \E k \in Keys :
             Goto(w, "deleteSet", mw[w].seen, UnbindRoleFromMember(policy, k, MemberOf[mw[w].cr]))
    BY <1>11 DEF DeleteGet, RoleBindings
  <2>3. mw' \in [Replicas -> Busy \cup {Idle}]
    BY <1>2, <2>1, <2>2, GotoType, DoneType, UnbindIsPolicy
  <2>4. QED
    BY <1>11, <2>3 DEF DeleteGet, GetIamPolicy, Client, TypeOK, MemberTypeOK
<1>12. ASSUME NEW w \in Replicas, SetMember(w) PROVE Rest
  <2>1. mw[w].instance \in Policy
    BY <1>2, <1>12, BusyWorker DEF SetMember, At
  <2>2. mw' \in [Replicas -> Busy \cup {Idle}]
    BY <1>2, <1>12, DoneType DEF SetMember
  <2>3. QED
    BY <1>12, <2>1, <2>2 DEF SetMember, SetWithEtag, TypeOK, MemberTypeOK
<1>13. Rest
  BY <1>2, <1>3, <1>4, <1>5, <1>6, <1>7, <1>8, <1>9, <1>10, <1>11, <1>12
     DEF MemberNext, WorkerStep
<1>14. QED
  BY <1>1, <1>13 DEF TypeOK

LEMMA PolicyStepType ==
  ASSUME TypeOK, PolicyStep PROVE TypeOK'
<1> USE DEF TypeOK, PolicyTypeOK
<1>1. MemberTypeOK' /\ edits' \in 0..MaxEdits
  BY IamAssumption DEF PolicyStep, memberVars, MemberTypeOK
<1> DEFINE Rest == /\ policy' \in Policy /\ bucket' \in BOOLEAN
                   /\ current' \subseteq {"member", "policy"} \X Replicas
                   /\ PolicyTypeOK'
<1>2. CASE EditPolicyCR
  BY <1>1, <1>2 DEF EditPolicyCR, PolicyCR, iamVars
<1>3. CASE DeletePolicyCR
  BY <1>1, <1>3 DEF DeletePolicyCR, PolicyCR, PolicyCRState, iamVars
<1>4. ASSUME NEW w \in Replicas, SyncPolicy(w) PROVE Rest
  BY <1>4 DEF SyncPolicy, iamVars
<1>5. ASSUME NEW w \in Replicas, BeginPolicy(w) PROVE Rest
  BY <1>5 DEF BeginPolicy, PBusy, iamVars
<1>6. ASSUME NEW w \in Replicas, FailPolicy(w) PROVE Rest
  BY <1>6 DEF FailPolicy, PDone, iamVars
<1>7. ASSUME NEW w \in Replicas, PolicyWorkerStep(w) PROVE Rest
  <2>1. pw[w].pc # "idle"
    BY <1>7 DEF PolicyWorkerStep, ObservePolicy, AddPolicyFinalizer, RemovePolicyFinalizer,
                CreatePolicy, UpdateGet, UpdateSet, DeletePolicy, PAt
  <2>2. pw[w] \in PBusy /\ pw[w].seen \in PolicyCR /\ pw[w].seen.spec \in Policy
    BY <2>1, SpecsAssumption DEF PIdle, PBusy, PolicyCR
  <2>3. CASE ObservePolicy(w)
    <3>1. \/ \E pc \in {"delete", "unfinalize", "create", "update"} : PGoto(w, pc)
          \/ \E next \in {"create", "update", "done"} :
               pw' = [pw EXCEPT ![w] = [pc |-> "finalizer", after |-> next, seen |-> pw[w].seen]]
          \/ PDone(w)
      <4>1. PICK next \in {"create", "update", "done"} :
              \E exists : AfterObserve(w, exists, next)
        BY <2>3, Zenon DEF ObservePolicy
      <4>2. QED
        BY <4>1, SMT DEF AfterObserve
    <3>2. pw' \in [Replicas -> PBusy \cup {PIdle}]
      BY <2>2, <3>1 DEF PGoto, PDone, PBusy
    <3>3. (UNCHANGED iamVars \/ GetIamPolicy(PClient(w))) /\ UNCHANGED <<pcr, pcache>>
      BY <2>3, Zenon DEF ObservePolicy
    <3>4. QED
      BY <3>2, <3>3 DEF GetIamPolicy, PClient, iamVars
  <2>4. CASE AddPolicyFinalizer(w)
    BY <2>2, <2>4 DEF AddPolicyFinalizer, PGoto, PDone, PBusy, PolicyCR, PolicyCRState, iamVars
  <2>5. CASE RemovePolicyFinalizer(w)
    BY <2>5 DEF RemovePolicyFinalizer, PDone, PolicyCR, PolicyCRState, iamVars
  <2>6. CASE CreatePolicy(w)
    BY <2>2, <2>6 DEF CreatePolicy, SetWithoutEtag, PDone
  <2>7. CASE UpdateGet(w)
    BY <2>2, <2>7 DEF UpdateGet, GetIamPolicy, PClient, PGoto, PDone, PBusy
  <2>8. CASE UpdateSet(w)
    BY <2>2, <2>8 DEF UpdateSet, SetWithEtag, PDone
  <2>9. CASE DeletePolicy(w)
    BY <2>9, EmptyIsPolicy DEF DeletePolicy, SetWithoutEtag, PDone
  <2>10. QED
    BY <1>7, <2>3, <2>4, <2>5, <2>6, <2>7, <2>8, <2>9 DEF PolicyWorkerStep
<1>8. QED
  BY <1>1, <1>2, <1>3, <1>4, <1>5, <1>6, <1>7 DEF PolicyStep

\* The foreign client and the owner of the bucket.
LEMMA OutsideStepType ==
  ASSUME TypeOK, ForeignEdit \/ DeleteBucket PROVE TypeOK'
<1>1. MemberTypeOK' /\ PolicyTypeOK'
  BY DEF TypeOK, ForeignEdit, DeleteBucket, memberVars, policyVars, MemberTypeOK, PolicyTypeOK
<1>2. CASE ForeignEdit
  <2>1. PICK g \in ForeignGrants :
          SetWithoutEtag([policy EXCEPT ![g[1]] =
                            IF g[2] \in @ THEN @ \ {g[2]} ELSE @ \cup {g[2]}])
    BY <1>2 DEF ForeignEdit
  <2>2. g[1] \in Keys /\ g[2] \in Members
    BY IamAssumption
  <2>3. policy' \in Policy
    BY <2>1, <2>2 DEF SetWithoutEtag, TypeOK, Policy
  <2>4. MaxEdits \in Nat
    BY IamAssumption
  <2>5. QED
    BY <1>1, <1>2, <2>1, <2>3, <2>4 DEF ForeignEdit, SetWithoutEtag, TypeOK
<1>3. CASE DeleteBucket
  BY <1>1, <1>3 DEF DeleteBucket, TypeOK
<1>4. QED
  BY <1>2, <1>3

\* Types: the policy, the caches and what every worker holds are always what
\* the code expects to find in them.
THEOREM TypeCorrect == Spec => []TypeOK
<1>1. Init => TypeOK
  <2>1. SUFFICES ASSUME Init PROVE TypeOK
    OBVIOUS
  <2>2. PICK s \in Setups : MemberInit(s[1]) /\ PolicyInit(s[2]) /\ edits = s[3]
    BY <2>1 DEF Init
  <2>3. MemberTypeOK
    BY <2>2 DEF MemberInit, MemberTypeOK, CRState
  <2>4. PolicyTypeOK
    BY <2>2, SpecsAssumption DEF PolicyInit, PolicyTypeOK, PolicyCR, PolicyCRState
  <2>5. InitialPolicy \in Policy /\ edits \in 0..MaxEdits
    BY <2>2, IamAssumption
  <2>6. QED
    BY <2>1, <2>3, <2>4, <2>5 DEF Init, IamInit, TypeOK
<1>2. TypeOK /\ [Next]_vars => TypeOK'
  <2>1. TypeOK /\ UNCHANGED vars => TypeOK'
    BY DEF TypeOK, MemberTypeOK, PolicyTypeOK, vars
  <2>2. QED
    BY <2>1, MemberStepType, PolicyStepType, OutsideStepType DEF Next
<1>3. QED
  BY <1>1, <1>2, PTL DEF Spec

-----------------------------------------------------------------------------
(* FreshInstance is inductive together with the types.                    *)

\* The clients are told apart: a worker's etag is its own.
LEMMA ClientsDiffer ==
  ASSUME NEW v \in Replicas, NEW w \in Replicas
  PROVE  (Client(v) = Client(w) => v = w) /\ Client(v) # PClient(w)
  BY DEF Client, PClient

\* A step that writes no policy and touches at most worker w of this
\* controller keeps the others fresh.
LEMMA FreshKept ==
  ASSUME FreshInstance, policy' = policy, NEW w \in Replicas, NEW u \in Replicas,
         \A v \in Replicas \ {w} : mw'[v] = mw[v],
         current' \subseteq current \cup {Client(w), PClient(u)},
         Client(w) \in current' => /\ At(w, "createSet")' => FreshCreate(w)'
                                   /\ At(w, "deleteSet")' => FreshDelete(w)'
  PROVE  FreshInstance'
<1>1. SUFFICES ASSUME NEW v \in Replicas, Client(v)' \in current'
               PROVE /\ At(v, "createSet")' => FreshCreate(v)'
                     /\ At(v, "deleteSet")' => FreshDelete(v)'
  BY DEF FreshInstance
<1>2. Client(v)' = Client(v)
  BY DEF Client
<1>3. CASE v = w
  BY <1>1, <1>2, <1>3
<1>4. CASE v # w
  <2>1. Client(v) \in current /\ mw'[v] = mw[v]
    BY <1>1, <1>2, <1>4, ClientsDiffer
  <2>2. QED
    BY <2>1 DEF FreshInstance, FreshCreate, FreshDelete, At
<1>5. QED
  BY <1>3, <1>4

\* A step that leaves every worker of this controller alone, and at most hands
\* a BucketPolicy worker an etag, keeps all fresh.
LEMMA FreshKeptByOthers ==
  ASSUME FreshInstance, policy' = policy, mw' = mw, NEW u \in Replicas,
         current' \subseteq current \cup {PClient(u)}
  PROVE  FreshInstance'
<1>1. SUFFICES ASSUME NEW v \in Replicas, Client(v)' \in current'
               PROVE /\ At(v, "createSet")' => FreshCreate(v)'
                     /\ At(v, "deleteSet")' => FreshDelete(v)'
  BY DEF FreshInstance
<1>2. Client(v) \in current
  BY <1>1, ClientsDiffer DEF Client
<1>3. QED
  BY <1>2 DEF FreshInstance, FreshCreate, FreshDelete, At

LEMMA FreshAfterSet ==
  ASSUME current' = {} PROVE FreshInstance'
  BY DEF FreshInstance

LEMMA MemberStepFresh ==
  ASSUME TypeOK, FreshInstance, MemberStep PROVE FreshInstance'
<1>1. MemberTypeOK /\ MemberNext /\ policy \in Policy
  BY DEF TypeOK, MemberStep
<1>2. ASSUME NEW c \in MemberCRs, DeleteMemberCR(c) PROVE FreshInstance'
  BY <1>2 DEF DeleteMemberCR, iamVars, FreshInstance, FreshCreate, FreshDelete, At, Client
<1>3. ASSUME NEW w \in Replicas, NEW c \in MemberCRs, SyncMember(w, c) PROVE FreshInstance'
  BY <1>3, FreshKeptByOthers DEF SyncMember, iamVars
<1>4. ASSUME NEW w \in Replicas, NEW c \in MemberCRs, BeginMember(w, c) PROVE FreshInstance'
  <2>1. ~At(w, "createSet")' /\ ~At(w, "deleteSet")' /\ \A v \in Replicas \ {w} : mw'[v] = mw[v]
    BY <1>1, <1>4 DEF BeginMember, At, MemberTypeOK
  <2>2. QED
    BY <1>4, <2>1, FreshKept DEF BeginMember, iamVars
<1>5. ASSUME NEW w \in Replicas, Done(w), policy' = policy,
             current' \subseteq current \cup {Client(w)}
      PROVE  FreshInstance'
  <2>1. ~At(w, "createSet")' /\ ~At(w, "deleteSet")' /\ \A v \in Replicas \ {w} : mw'[v] = mw[v]
    BY <1>1, <1>5 DEF Done, Idle, At, MemberTypeOK
  <2>2. QED
    BY <1>5, <2>1, FreshKept
<1>6. ASSUME NEW w \in Replicas, NEW pc, pc \notin {"createSet", "deleteSet"},
             NEW seen, Goto(w, pc, seen, EmptyPolicy), policy' = policy,
             current' \subseteq current \cup {Client(w)}
      PROVE  FreshInstance'
  <2>1. ~At(w, "createSet")' /\ ~At(w, "deleteSet")' /\ \A v \in Replicas \ {w} : mw'[v] = mw[v]
    BY <1>1, <1>6 DEF Goto, At, MemberTypeOK
  <2>2. QED
    BY <1>6, <2>1, FreshKept
<1>7. ASSUME NEW w \in Replicas, FailMember(w) PROVE FreshInstance'
  BY <1>5, <1>7 DEF FailMember, iamVars
<1>8. ASSUME NEW w \in Replicas, ObserveMember(w) PROVE FreshInstance'
  <2>1. \/ \E pc \in {"delete", "unfinalize", "adopt", "finalizer", "create"} :
             Goto(w, pc, mw[w].seen, EmptyPolicy)
        \/ Done(w)
    BY <1>8 DEF ObserveMember
  <2>2. QED
    BY <1>5, <1>6, <1>8, <2>1 DEF ObserveMember, GetIamPolicy
<1>9. ASSUME NEW w \in Replicas, AddFinalizer(w) PROVE FreshInstance'
  BY <1>5, <1>6, <1>9 DEF AddFinalizer, iamVars
<1>10. ASSUME NEW w \in Replicas, RemoveFinalizer(w) PROVE FreshInstance'
  BY <1>5, <1>10 DEF RemoveFinalizer, iamVars
<1>11. ASSUME NEW w \in Replicas, CreateGet(w) PROVE FreshInstance'
  <2>1. /\ mw[w] \in Busy /\ RoleOf[mw[w].cr] \in Roles
        /\ policy' = policy /\ current' = current \cup {Client(w)}
    BY <1>1, <1>11, BusyWorker DEF CreateGet, GetIamPolicy, At
  <2>2. CASE Done(w)
    BY <1>5, <2>1, <2>2
  <2>3. ASSUME NEW k \in BindTargets(policy, RoleOf[mw[w].cr]),
               MemberOf[mw[w].cr] \notin policy[k],
               Goto(w, "createSet", mw[w].seen, BindRoleToMember(policy, k, MemberOf[mw[w].cr]))
        PROVE  FreshInstance'
    <3>1. /\ mw'[w].pc = "createSet" /\ mw'[w].cr = mw[w].cr
          /\ mw'[w].instance = BindRoleToMember(policy, k, MemberOf[mw[w].cr])
          /\ \A v \in Replicas \ {w} : mw'[v] = mw[v]
      BY <1>1, <2>3 DEF Goto, MemberTypeOK
    <3>2. k \in Keys /\ k.role = RoleOf[mw[w].cr]
      BY <2>1, BindTargetsOfRole
    <3>3. FreshCreate(w)' /\ ~At(w, "deleteSet")'
      BY <2>1, <2>3, <3>1, <3>2 DEF FreshCreate, At, BindRoleToMember
    <3>4. QED
      BY <2>1, <3>1, <3>3, FreshKept
  <2>4. QED
    BY <1>11, <2>2, <2>3 DEF CreateGet
<1>12. ASSUME NEW w \in Replicas, DeleteGet(w) PROVE FreshInstance'
  <2>1. policy' = policy /\ current' = current \cup {Client(w)}
    BY <1>12 DEF DeleteGet, GetIamPolicy
  <2>2. CASE Done(w)
    BY <1>5, <2>1, <2>2
  <2>3. ASSUME NEW k \in RoleBindings(policy, RoleOf[mw[w].cr]),
               MemberOf[mw[w].cr] \in policy[k],
               Goto(w, "deleteSet", mw[w].seen, UnbindRoleFromMember(policy, k, MemberOf[mw[w].cr]))
        PROVE  FreshInstance'
    <3>1. /\ mw'[w].pc = "deleteSet" /\ mw'[w].cr = mw[w].cr
          /\ mw'[w].instance = UnbindRoleFromMember(policy, k, MemberOf[mw[w].cr])
          /\ \A v \in Replicas \ {w} : mw'[v] = mw[v]
      BY <1>1, <2>3 DEF Goto, MemberTypeOK
    <3>2. k \in Keys /\ k.role = RoleOf[mw[w].cr]
      BY DEF RoleBindings
    <3>3. FreshDelete(w)' /\ ~At(w, "createSet")'
      BY <2>1, <2>3, <3>1, <3>2 DEF FreshDelete, At, UnbindRoleFromMember
    <3>4. QED
      BY <2>1, <3>1, <3>3, FreshKept
  <2>4. QED
    BY <1>12, <2>2, <2>3 DEF DeleteGet
<1>13. ASSUME NEW w \in Replicas, SetMember(w) PROVE FreshInstance'
  BY <1>13, FreshAfterSet DEF SetMember, SetWithEtag
<1>14. QED
  BY <1>1, <1>2, <1>3, <1>4, <1>7, <1>8, <1>9, <1>10, <1>11, <1>12, <1>13
     DEF MemberNext, WorkerStep

LEMMA PolicyStepFresh ==
  ASSUME FreshInstance, PolicyStep PROVE FreshInstance'
<1>1. mw' = mw
  BY DEF PolicyStep, memberVars
<1>2. CASE UNCHANGED iamVars
  BY <1>1, <1>2 DEF iamVars, FreshInstance, FreshCreate, FreshDelete, At, Client
<1>3. ASSUME NEW w \in Replicas, GetIamPolicy(PClient(w)) PROVE FreshInstance'
  BY <1>1, <1>3, FreshKeptByOthers DEF GetIamPolicy
<1>4. ASSUME NEW w \in Replicas, PolicyWorkerStep(w) PROVE FreshInstance'
  <2>1. CASE ObservePolicy(w) \/ UpdateGet(w)
    <3>1. UNCHANGED iamVars \/ GetIamPolicy(PClient(w))
      BY <2>1, Zenon DEF ObservePolicy, UpdateGet
    <3>2. QED BY <1>2, <1>3, <3>1
  <2>2. CASE AddPolicyFinalizer(w) \/ RemovePolicyFinalizer(w)
    BY <1>2, <2>2 DEF AddPolicyFinalizer, RemovePolicyFinalizer
  <2>3. CASE CreatePolicy(w) \/ UpdateSet(w) \/ DeletePolicy(w)
    BY <2>3, FreshAfterSet
       DEF CreatePolicy, UpdateSet, DeletePolicy, SetWithEtag, SetWithoutEtag
  <2>4. QED
    BY <1>4, <2>1, <2>2, <2>3 DEF PolicyWorkerStep
<1>5. QED
  BY <1>2, <1>4
     DEF PolicyStep, EditPolicyCR, DeletePolicyCR, SyncPolicy, BeginPolicy, FailPolicy

\* While a worker's etag is the policy's, what it is about to write is that
\* policy with its own grant made or withdrawn.
THEOREM InstancesAreFresh == Spec => []FreshInstance
<1>1. Init => FreshInstance
  BY DEF Init, IamInit, FreshInstance
<1>2. TypeOK /\ FreshInstance /\ [Next]_vars => FreshInstance'
  <2> SUFFICES ASSUME TypeOK, FreshInstance, [Next]_vars PROVE FreshInstance'
    OBVIOUS
  <2>1. CASE ForeignEdit
    BY <2>1, FreshAfterSet DEF ForeignEdit, SetWithoutEtag
  <2>2. CASE DeleteBucket \/ UNCHANGED vars
    BY <2>2 DEF DeleteBucket, vars, memberVars, FreshInstance, FreshCreate, FreshDelete, At, Client
  <2>3. QED
    BY <2>1, <2>2, MemberStepFresh, PolicyStepFresh DEF Next
<1>3. QED
  BY <1>1, <1>2, TypeCorrect, PTL DEF Spec

-----------------------------------------------------------------------------
(* The read-modify-write is atomic in effect.                              *)

\* A member's entry in a binding changes in a step only through a foreign
\* client, the BucketPolicy controller, or SetMember with that very grant.
LEMMA StepChangesOwnGrant ==
  ASSUME TypeOK, FreshInstance, [Next]_vars, NEW k \in Keys, NEW m \in Members,
         (m \in policy[k]) # (m \in policy'[k])
  PROVE  ForeignWrote \/ PolicyWrote \/ MemberWrote(k, m)
<1>1. policy' # policy
  OBVIOUS
<1>2. CASE ForeignEdit
  BY <1>2 DEF ForeignEdit, ForeignWrote, TypeOK
<1>3. CASE DeleteBucket \/ UNCHANGED vars
  BY <1>1, <1>3 DEF DeleteBucket, vars
<1>4. CASE PolicyStep
  <2>1. PICK w \in Replicas : CreatePolicy(w) \/ UpdateSet(w) \/ DeletePolicy(w)
    <3>1. ~UNCHANGED iamVars
      BY <1>1 DEF iamVars
    <3>2. PICK w \in Replicas : PolicyWorkerStep(w)
      BY <1>4, <3>1
         DEF PolicyStep, EditPolicyCR, DeletePolicyCR, SyncPolicy, BeginPolicy, FailPolicy
    <3>3. ~ObservePolicy(w)
      BY <1>1, <3>1, Zenon DEF ObservePolicy, GetIamPolicy
    <3>4. QED
      BY <1>1, <3>1, <3>2, <3>3
         DEF PolicyWorkerStep, AddPolicyFinalizer, RemovePolicyFinalizer, UpdateGet, GetIamPolicy
  <2>2. QED
    BY <2>1 DEF CreatePolicy, UpdateSet, DeletePolicy, PDone, PAt, PolicyWrote, TypeOK, PolicyTypeOK
<1>5. CASE MemberStep
  <2>1. PICK w \in Replicas : SetMember(w)
    BY <1>1, <1>5
       DEF MemberStep, MemberNext, WorkerStep, DeleteMemberCR, SyncMember, BeginMember, FailMember,
           ObserveMember, AddFinalizer, RemoveFinalizer, CreateGet, DeleteGet, GetIamPolicy, iamVars
  <2>2. /\ mw'[w] = Idle /\ policy' = mw[w].instance
        /\ At(w, "createSet") => FreshCreate(w)
        /\ At(w, "deleteSet") => FreshDelete(w)
    BY <2>1 DEF SetMember, SetWithEtag, Done, FreshInstance, TypeOK, MemberTypeOK
  <2>3. CASE At(w, "createSet")
    <3>1. PICK j \in Keys : /\ j.role = RoleOf[mw[w].cr]
                            /\ MemberOf[mw[w].cr] \notin policy[j]
                            /\ policy' = [policy EXCEPT ![j] = @ \cup {MemberOf[mw[w].cr]}]
      BY <2>2, <2>3 DEF FreshCreate, BindRoleToMember
    <3>2. j = k /\ m = MemberOf[mw[w].cr]
      BY <3>1 DEF TypeOK, Policy
    <3>3. QED
      BY <2>2, <2>3, <3>1, <3>2 DEF MemberWrote
  <2>4. CASE At(w, "deleteSet")
    <3>1. PICK j \in Keys : /\ j.role = RoleOf[mw[w].cr]
                            /\ MemberOf[mw[w].cr] \in policy[j]
                            /\ policy' = [policy EXCEPT ![j] = @ \ {MemberOf[mw[w].cr]}]
      BY <2>2, <2>4 DEF FreshDelete, UnbindRoleFromMember
    <3>2. j = k /\ m = MemberOf[mw[w].cr]
      BY <3>1 DEF TypeOK, Policy
    <3>3. QED
      BY <2>2, <2>4, <3>1, <3>2 DEF MemberWrote
  <2>5. QED
    BY <2>1, <2>3, <2>4 DEF SetMember
<1>6. QED
  BY <1>2, <1>3, <1>4, <1>5 DEF Next

\* BucketPolicyMember's Create and Delete never disturb a grant other than
\* their own, whatever happens between their read and their write.
THEOREM OnlyOwnGrantsChange == Spec => OnlyOwnGrantChanges
<1>1. TypeOK /\ FreshInstance /\ [Next]_vars =>
        [\A k \in Keys, m \in Members :
           (m \in policy[k]) # (m \in policy'[k]) =>
             ForeignWrote \/ PolicyWrote \/ MemberWrote(k, m)]_vars
  BY StepChangesOwnGrant
<1>2. QED
  BY <1>1, TypeCorrect, InstancesAreFresh, PTL DEF Spec, OnlyOwnGrantChanges
============================================================================
