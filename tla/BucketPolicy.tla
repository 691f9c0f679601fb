---------------------------- MODULE BucketPolicy ----------------------------
(***************************************************************************)
(* The BucketPolicy controller: one custom resource that owns the whole    *)
(* policy of the bucket.  Update is a read-modify-write under the etag;    *)
(* Create and Delete send a policy of their own making, without an etag.   *)
(***************************************************************************)
EXTENDS IamPolicy

CONSTANT Specs       \* the policies a user may put in spec.forProvider.policy

ASSUME SpecsAssumption == Specs # {} /\ Specs \subseteq Policy

VARIABLES pcr,      \* the object: its lifecycle state and its spec
          pcache,   \* each replica's informer cache of it
          pw        \* each replica's worker of this controller

policyVars == <<pcr, pcache, pw>>

PolicyCRState == {"new", "managed", "deleting", "gone"}
PolicyCR == [state : PolicyCRState, spec : Specs]

PIdle == [pc |-> "idle"]
PBusy == [pc : {"observe", "finalizer", "create", "update", "updateSet",
                "delete", "unfinalize"},
          after : {"create", "update", "done"}, \* what follows the finalizer
          seen : PolicyCR]

PolicyTypeOK ==
  /\ pcr \in PolicyCR
  /\ pcache \in [Replicas -> PolicyCR]
  /\ pw \in [Replicas -> PBusy \cup {PIdle}]

\* present: does the object exist.
PolicyInit(present) ==
  /\ pcr \in [state : {IF present THEN "new" ELSE "gone"}, spec : Specs]
  /\ pcache = [w \in Replicas |-> pcr]
  /\ pw = [w \in Replicas |-> PIdle]

PAt(w, pc) == pw[w].pc = pc
PGoto(w, pc) == pw' = [pw EXCEPT ![w].pc = pc]
PDone(w) == pw' = [pw EXCEPT ![w] = PIdle]
PClient(w) == <<"policy", w>>

-----------------------------------------------------------------------------
DeletePolicyCR ==
  /\ pcr.state \in {"new", "managed"}
  /\ pcr' = [pcr EXCEPT !.state = IF @ = "new" THEN "gone" ELSE "deleting"]
  /\ UNCHANGED <<pcache, pw>> /\ UNCHANGED iamVars

\* The user edits spec.forProvider.policy.
EditPolicyCR ==
  /\ pcr.state \in {"new", "managed"}
  /\ \E s \in Specs \ {pcr.spec} : pcr' = [pcr EXCEPT !.spec = s]
  /\ UNCHANGED <<pcache, pw>> /\ UNCHANGED iamVars

SyncPolicy(w) ==
  /\ pcache[w] # pcr
  /\ pcache' = [pcache EXCEPT ![w] = pcr]
  /\ UNCHANGED <<pcr, pw>> /\ UNCHANGED iamVars

BeginPolicy(w) ==
  /\ PAt(w, "idle")
  /\ pcache[w].state # "gone"
  /\ pw' = [pw EXCEPT ![w] = [pc |-> "observe", after |-> "done", seen |-> pcache[w]]]
  /\ UNCHANGED <<pcr, pcache>> /\ UNCHANGED iamVars

FailPolicy(w) ==
  /\ ~PAt(w, "idle")
  /\ PDone(w)
  /\ UNCHANGED <<pcr, pcache>> /\ UNCHANGED iamVars

\* What the reconciler does with an observation: next is what a live object
\* needs once its finalizer is on, exists decides what a deleted one needs.
AfterObserve(w, exists, next) ==
  LET seen == pw[w].seen IN
  \/ /\ seen.state = "deleting"
     /\ PGoto(w, IF exists THEN "delete" ELSE "unfinalize")
  \/ /\ seen.state = "new"
     /\ pw' = [pw EXCEPT ![w] = [pc |-> "finalizer", after |-> next, seen |-> seen]]
  \/ /\ seen.state = "managed"
     /\ IF next = "done" THEN PDone(w) ELSE PGoto(w, next)

\* Mutated: a bucket that is not found is an error.
ObserveNeedsBucket(w) ==
  /\ PAt(w, "observe")
  /\ GetIamPolicy(PClient(w))
  /\ AfterObserve(w, ~IsEmpty(policy),
       IF IsEmpty(policy) THEN "create"
       ELSE IF IsUpToDate(pw[w].seen.spec, policy) THEN "done" ELSE "update")
  /\ UNCHANGED <<pcr, pcache>>

\* Observe: a bucket that is not found and a policy without bindings both
\* count as "does not exist"; otherwise the bindings are compared.
ObservePolicy(w) ==
  /\ PAt(w, "observe")
  /\ \/ /\ ~bucket
        /\ AfterObserve(w, FALSE, "create")
        /\ UNCHANGED iamVars
     \/ /\ GetIamPolicy(PClient(w))
        /\ LET exists == ~IsEmpty(policy) IN
           AfterObserve(w, exists,
             IF ~exists THEN "create"
             ELSE IF IsUpToDate(pw[w].seen.spec, policy) THEN "done" ELSE "update")
  /\ UNCHANGED <<pcr, pcache>>

AddPolicyFinalizer(w) ==
  /\ PAt(w, "finalizer")
  /\ pcr = pw[w].seen
  /\ pcr' = [pcr EXCEPT !.state = "managed"]
  /\ IF pw[w].after = "done" THEN PDone(w) ELSE PGoto(w, pw[w].after)
  /\ UNCHANGED pcache /\ UNCHANGED iamVars

RemovePolicyFinalizer(w) ==
  /\ PAt(w, "unfinalize")
  /\ pcr = pw[w].seen
  /\ pcr' = [pcr EXCEPT !.state = "gone"]
  /\ PDone(w)
  /\ UNCHANGED pcache /\ UNCHANGED iamVars

\* Create generates the policy into a fresh instance: no etag.
CreatePolicy(w) ==
  /\ PAt(w, "create")
  /\ SetWithoutEtag(pw[w].seen.spec)
  /\ PDone(w)
  /\ UNCHANGED <<pcr, pcache>>

\* Mutated: the outcome of IsUpToDate is taken the wrong way round.
UpdateInverted(w) ==
  /\ PAt(w, "update")
  /\ GetIamPolicy(PClient(w))
  /\ IF IsUpToDate(pw[w].seen.spec, policy) THEN PGoto(w, "updateSet") ELSE PDone(w)
  /\ UNCHANGED <<pcr, pcache>>

\* Update, first call: nothing to do when the policy has become right.
UpdateGet(w) ==
  /\ PAt(w, "update")
  /\ GetIamPolicy(PClient(w))
  /\ IF IsUpToDate(pw[w].seen.spec, policy) THEN PDone(w) ELSE PGoto(w, "updateSet")
  /\ UNCHANGED <<pcr, pcache>>

\* Update, second call: the generated bindings under the etag just read.
UpdateSet(w) ==
  /\ PAt(w, "updateSet")
  /\ SetWithEtag(PClient(w), pw[w].seen.spec)
  /\ PDone(w)
  /\ UNCHANGED <<pcr, pcache>>

\* Delete sets an empty policy: no etag.
DeletePolicy(w) ==
  /\ PAt(w, "delete")
  /\ SetWithoutEtag(EmptyPolicy)
  /\ PDone(w)
  /\ UNCHANGED <<pcr, pcache>>

PolicyWorkerStep(w) ==
  \/ ObservePolicy(w) \/ AddPolicyFinalizer(w) \/ RemovePolicyFinalizer(w)
  \/ CreatePolicy(w) \/ UpdateGet(w) \/ UpdateSet(w) \/ DeletePolicy(w)

=============================================================================
