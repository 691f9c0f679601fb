------------------------- MODULE BucketPolicyMember -------------------------
(***************************************************************************)
(* The BucketPolicyMember controller: each custom resource binds one role  *)
(* to one member in the policy of a bucket that others write too.          *)
(*                                                                         *)
(* A replica of the provider runs one worker for this controller.  A       *)
(* worker reads the custom resource from the informer cache, observes the  *)
(* policy, and then creates or deletes the grant with a read-modify-write; *)
(* between any two calls other replicas, other controllers, users and      *)
(* other IAM clients may act, and any call may fail.                       *)
(***************************************************************************)
EXTENDS IamPolicy

CONSTANTS MemberCRs,       \* the BucketPolicyMember objects of this bucket
          RoleOf, MemberOf \* spec.forProvider.role and .member of each

ASSUME MemberAssumption ==
  /\ RoleOf \in [MemberCRs -> Roles]
  /\ MemberOf \in [MemberCRs -> Members]

VARIABLES mcr,     \* the API server's view of each object
          mcache,  \* each replica's informer cache of it
          mw       \* each replica's worker

memberVars == <<mcr, mcache, mw>>

\* "new": no finalizer yet; "managed": with the finalizer; "deleting": with
\* the finalizer and a deletion timestamp; "gone": removed from the API server.
CRState == {"new", "managed", "deleting", "gone"}

Idle == [pc |-> "idle"]
Busy == [pc : {"observe", "finalizer", "adopt", "create", "createSet",
               "delete", "deleteSet", "unfinalize"},
         cr : MemberCRs, seen : CRState, instance : Policy]

MemberTypeOK ==
  /\ mcr \in [MemberCRs -> CRState]
  /\ mcache \in [Replicas -> [MemberCRs -> CRState]]
  /\ mw \in [Replicas -> Busy \cup {Idle}]

\* present: the objects that exist.
MemberInit(present) ==
  /\ mcr = [c \in MemberCRs |-> IF c \in present THEN "new" ELSE "gone"]
  /\ mcache = [w \in Replicas |-> mcr]
  /\ mw = [w \in Replicas |-> Idle]

At(w, pc) == mw[w].pc = pc
Goto(w, pc, seen, p) ==
  mw' = [mw EXCEPT ![w] = [pc |-> pc, cr |-> @.cr, seen |-> seen, instance |-> p]]
Done(w) == mw' = [mw EXCEPT ![w] = Idle]
Client(w) == <<"member", w>>

-----------------------------------------------------------------------------
\* The user deletes the object: it stays while it carries a finalizer.
DeleteMemberCR(c) ==
  /\ mcr[c] \in {"new", "managed"}
  /\ mcr' = [mcr EXCEPT ![c] = IF @ = "new" THEN "gone" ELSE "deleting"]
  /\ UNCHANGED <<mcache, mw>> /\ UNCHANGED iamVars

\* The watch delivers the object's latest state to a replica's cache.
SyncMember(w, c) ==
  /\ mcache[w][c] # mcr[c]
  /\ mcache' = [mcache EXCEPT ![w][c] = mcr[c]]
  /\ UNCHANGED <<mcr, mw>> /\ UNCHANGED iamVars

\* Reconcile takes c off the queue and reads it from the cache.
BeginMember(w, c) ==
  /\ At(w, "idle")
  /\ mcache[w][c] # "gone"
  /\ mw' = [mw EXCEPT ![w] = [pc |-> "observe", cr |-> c, seen |-> mcache[w][c],
                              instance |-> EmptyPolicy]]
  /\ UNCHANGED <<mcr, mcache>> /\ UNCHANGED iamVars

\* Any call of the reconcile fails, or the process restarts: the worker
\* forgets what it was doing and the object is reconciled again later.
FailMember(w) ==
  /\ ~At(w, "idle")
  /\ Done(w)
  /\ UNCHANGED <<mcr, mcache>> /\ UNCHANGED iamVars

\* Mutated: a deleted object always counts as not existing.
ObserveForgets(w) ==
  /\ At(w, "observe")
  /\ GetIamPolicy(Client(w))
  /\ \E k \in BindTargets(policy, RoleOf[mw[w].cr]) :
       LET exists == MemberOf[mw[w].cr] \in policy[k]
           seen   == mw[w].seen IN
       \/ seen = "deleting" /\ Goto(w, "unfinalize", seen, EmptyPolicy)
       \/ seen = "new" /\ Goto(w, IF exists THEN "adopt" ELSE "finalizer", seen, EmptyPolicy)
       \/ seen = "managed" /\ IF exists THEN Done(w) ELSE Goto(w, "create", seen, EmptyPolicy)
  /\ UNCHANGED <<mcr, mcache>>

\* Observe: the grant exists when binding it would not change the policy.
\* A deleted object goes on to Delete or to losing its finalizer; a live one
\* gets its finalizer first and is done when the grant is there.
ObserveMember(w) ==
  /\ At(w, "observe")
  /\ GetIamPolicy(Client(w))
  /\ \E k \in BindTargets(policy, RoleOf[mw[w].cr]) :
       LET exists == MemberOf[mw[w].cr] \in policy[k]
           seen   == mw[w].seen IN
       \/ /\ seen = "deleting"
          /\ Goto(w, IF exists THEN "delete" ELSE "unfinalize", seen, EmptyPolicy)
       \/ /\ seen = "new"
          /\ Goto(w, IF exists THEN "adopt" ELSE "finalizer", seen, EmptyPolicy)
       \/ /\ seen = "managed" /\ ~exists
          /\ Goto(w, "create", seen, EmptyPolicy)
       \/ /\ seen = "managed" /\ exists
          /\ Done(w)
  /\ UNCHANGED <<mcr, mcache>>

\* AddFinalizer: an Update of the object read from the cache, refused when
\* the object has changed since.
AddFinalizer(w) ==
  /\ At(w, "finalizer") \/ At(w, "adopt")
  /\ mcr[mw[w].cr] = mw[w].seen
  /\ mcr' = [mcr EXCEPT ![mw[w].cr] = "managed"]
  /\ IF At(w, "adopt") THEN Done(w) ELSE Goto(w, "create", "managed", EmptyPolicy)
  /\ UNCHANGED mcache /\ UNCHANGED iamVars

\* RemoveFinalizer lets the API server drop the object.
RemoveFinalizer(w) ==
  /\ At(w, "unfinalize")
  /\ mcr[mw[w].cr] = mw[w].seen
  /\ mcr' = [mcr EXCEPT ![mw[w].cr] = "gone"]
  /\ Done(w)
  /\ UNCHANGED mcache /\ UNCHANGED iamVars

\* Mutated: the role is bound in a new policy instead of the one read.
CreateFromScratch(w) ==
  /\ At(w, "create")
  /\ GetIamPolicy(Client(w))
  /\ \E k \in BindTargets(policy, RoleOf[mw[w].cr]) :
       Goto(w, "createSet", mw[w].seen, BindRoleToMember(EmptyPolicy, k, MemberOf[mw[w].cr]))
  /\ UNCHANGED <<mcr, mcache>>

\* Mutated: the outcome of BindRoleToMember is taken the wrong way round.
CreateInverted(w) ==
  /\ At(w, "create")
  /\ GetIamPolicy(Client(w))
  /\ \E k \in BindTargets(policy, RoleOf[mw[w].cr]) :
       IF MemberOf[mw[w].cr] \notin policy[k]
         THEN Done(w)
         ELSE Goto(w, "createSet", mw[w].seen, policy)
  /\ UNCHANGED <<mcr, mcache>>

\* Create, first call: read the policy again and bind the role in the copy.
CreateGet(w) ==
  /\ At(w, "create")
  /\ GetIamPolicy(Client(w))
  /\ \E k \in BindTargets(policy, RoleOf[mw[w].cr]) :
       LET m == MemberOf[mw[w].cr] IN
       IF m \in policy[k]
         THEN Done(w)
         ELSE Goto(w, "createSet", mw[w].seen, BindRoleToMember(policy, k, m))
  /\ UNCHANGED <<mcr, mcache>>

\* Delete, first call: the same with the role unbound from the member.
DeleteGet(w) ==
  /\ At(w, "delete")
  /\ GetIamPolicy(Client(w))
  /\ LET m == MemberOf[mw[w].cr]
         bound == RoleBindings(policy, RoleOf[mw[w].cr]) IN
     \/ /\ bound = {}
        /\ Done(w)
     \/ \E k \in bound :
          IF m \notin policy[k]
            THEN Done(w)
            ELSE Goto(w, "deleteSet", mw[w].seen, UnbindRoleFromMember(policy, k, m))
  /\ UNCHANGED <<mcr, mcache>>

\* Mutated: the instance is written without the etag it was read with.
SetWithNoEtag(w) ==
  /\ At(w, "createSet") \/ At(w, "deleteSet")
  /\ SetWithoutEtag(mw[w].instance)
  /\ Done(w)
  /\ UNCHANGED <<mcr, mcache>>

\* Mutated: Delete returns before the write.
SetOnCreateOnly(w) ==
  /\ At(w, "createSet") \/ At(w, "deleteSet")
  /\ IF At(w, "createSet") THEN SetWithEtag(Client(w), mw[w].instance) ELSE UNCHANGED iamVars
  /\ Done(w)
  /\ UNCHANGED <<mcr, mcache>>

\* Create and Delete, second call: write the copy back under its etag.  A
\* refused write ends the reconcile with an error: that is FailMember.
SetMember(w) ==
  /\ At(w, "createSet") \/ At(w, "deleteSet")
  /\ SetWithEtag(Client(w), mw[w].instance)
  /\ Done(w)
  /\ UNCHANGED <<mcr, mcache>>

\* A write that reached the service although its response was lost leaves the
\* same state as SetMember: the worker keeps no memory of the outcome.
WorkerStep(w) ==
  \/ ObserveMember(w) \/ AddFinalizer(w) \/ RemoveFinalizer(w)
  \/ CreateGet(w) \/ DeleteGet(w) \/ SetMember(w)

MemberNext ==
  \/ \E c \in MemberCRs : DeleteMemberCR(c)
  \/ \E w \in Replicas :
       \/ \E c \in MemberCRs : SyncMember(w, c) \/ BeginMember(w, c)
       \/ FailMember(w)
       \/ WorkerStep(w)
=============================================================================
