----------------------------- MODULE BucketIam -----------------------------
(***************************************************************************)
(* Everyone who writes one bucket's IAM policy: the BucketPolicyMember and *)
(* BucketPolicy controllers of each provider replica, and IAM clients that *)
(* are not part of the provider.                                           *)
(***************************************************************************)
EXTENDS BucketPolicyMember, BucketPolicy, Naturals

CONSTANTS Setups,          \* which BucketPolicyMembers, and whether a BucketPolicy, exist, and
                           \* how many edits there have been
          InitialPolicy,   \* the bindings the bucket has before any object exists
          ForeignGrants,   \* the <<binding, member>> pairs other IAM clients change
          BucketMayGo,     \* may the bucket itself be deleted
          MaxEdits         \* bound on foreign edits and spec edits together

ASSUME IamAssumption ==
  /\ Setups \subseteq (SUBSET MemberCRs) \X BOOLEAN \X (0..MaxEdits)
  /\ InitialPolicy \in Policy
  /\ ForeignGrants \subseteq Keys \X Members
  /\ BucketMayGo \in BOOLEAN
  /\ MaxEdits \in Nat

VARIABLE edits             \* foreign edits and spec edits so far

vars == <<policy, bucket, current, mcr, mcache, mw, pcr, pcache, pw, edits>>

TypeOK ==
  /\ policy \in Policy
  /\ bucket \in BOOLEAN
  /\ current \subseteq {"member", "policy"} \X Replicas
  /\ MemberTypeOK
  /\ PolicyTypeOK
  /\ edits \in 0..MaxEdits

Init ==
  /\ IamInit(InitialPolicy)
  /\ \E s \in Setups : MemberInit(s[1]) /\ PolicyInit(s[2]) /\ edits = s[3]

\* Another IAM client adds or removes one member of one binding, with a
\* read-modify-write of its own.
ForeignEdit ==
  /\ edits < MaxEdits
  /\ \E g \in ForeignGrants :
       SetWithoutEtag([policy EXCEPT ![g[1]] =
                         IF g[2] \in @ THEN @ \ {g[2]} ELSE @ \cup {g[2]}])
  /\ edits' = edits + 1
  /\ UNCHANGED memberVars /\ UNCHANGED policyVars

\* The bucket is deleted, its policy with it.
DeleteBucket ==
  /\ BucketMayGo /\ bucket
  /\ bucket' = FALSE
  /\ UNCHANGED <<policy, current, edits>>
  /\ UNCHANGED memberVars /\ UNCHANGED policyVars

MemberStep == MemberNext /\ UNCHANGED edits /\ UNCHANGED policyVars

PolicyStep ==
  \/ /\ EditPolicyCR
     /\ edits < MaxEdits
     /\ edits' = edits + 1
     /\ UNCHANGED memberVars
  \/ /\ \/ DeletePolicyCR
        \/ \E w \in Replicas :
             SyncPolicy(w) \/ BeginPolicy(w) \/ FailPolicy(w) \/ PolicyWorkerStep(w)
     /\ UNCHANGED edits
     /\ UNCHANGED memberVars

Next == MemberStep \/ PolicyStep \/ ForeignEdit \/ DeleteBucket

Spec == Init /\ [][Next]_vars

-----------------------------------------------------------------------------
(***************************************************************************)
(* Fairness.  The watch delivers; every reconcile ends; the work queue     *)
(* hands out every object again and again, after errors too; and calls     *)
(* that could succeed do not fail for ever (a call that succeeds and ends  *)
(* the reconcile may leave the same state as one that fails).              *)
(***************************************************************************)
MemberFairness ==
  LET Alone(A) == A /\ UNCHANGED <<pcr, pcache, pw, edits>> IN
  /\ \A w \in Replicas :
       /\ []<>At(w, "idle")
       /\ \A c \in MemberCRs : /\ WF_vars(Alone(SyncMember(w, c)))
                               /\ SF_vars(Alone(BeginMember(w, c)))

PolicyFairness ==
  LET Alone(A) == A /\ UNCHANGED <<mcr, mcache, mw, edits>> IN
  /\ \A w \in Replicas : /\ []<>PAt(w, "idle")
                         /\ WF_vars(Alone(SyncPolicy(w)))
                         /\ WF_vars(Alone(BeginPolicy(w)))

CallsSucceed ==
  <>[][\A w \in Replicas :
         /\ FailMember(w) /\ ENABLED WorkerStep(w) => WorkerStep(w)
         /\ FailPolicy(w) /\ ENABLED PolicyWorkerStep(w) => PolicyWorkerStep(w)]_vars

FairSpec == Spec /\ MemberFairness /\ PolicyFairness /\ CallsSucceed

-----------------------------------------------------------------------------
(***************************************************************************)
(* Safety.                                                                 *)
(***************************************************************************)

\* As long as the etag a worker holds is the policy's, the policy it is about
\* to write is the one in force with its own grant made, or withdrawn, in one
\* binding: what it computed from its read has not gone stale.
FreshCreate(w) ==
  \E k \in Keys : /\ k.role = RoleOf[mw[w].cr]
                  /\ MemberOf[mw[w].cr] \notin policy[k]
                  /\ mw[w].instance = BindRoleToMember(policy, k, MemberOf[mw[w].cr])
FreshDelete(w) ==
  \E k \in Keys : /\ k.role = RoleOf[mw[w].cr]
                  /\ MemberOf[mw[w].cr] \in policy[k]
                  /\ mw[w].instance = UnbindRoleFromMember(policy, k, MemberOf[mw[w].cr])

FreshInstance ==
  \A w \in Replicas :
    Client(w) \in current =>
      /\ At(w, "createSet") => FreshCreate(w)
      /\ At(w, "deleteSet") => FreshDelete(w)

\* Who may have caused member m to enter or leave binding k in a step.
ForeignWrote == edits' # edits
PolicyWrote ==
  \E w \in Replicas : /\ pw[w].pc \in {"create", "updateSet", "delete"}
                      /\ pw'[w] = PIdle
MemberWrote(k, m) ==
  \E w \in Replicas :
    /\ mw'[w] = Idle
    /\ \/ At(w, "createSet") /\ m \notin policy[k]
       \/ At(w, "deleteSet") /\ m \in policy[k]
    /\ RoleOf[mw[w].cr] = k.role
    /\ MemberOf[mw[w].cr] = m

\* Create and Delete of BucketPolicyMember write back a whole policy they
\* read a call earlier, yet such a write never drops a grant somebody else
\* made in between and never brings back one somebody else removed: the only
\* grant that changes is the one the object is about, in the direction asked.
OnlyOwnGrantChanges ==
  [][\A k \in Keys, m \in Members :
       (m \in policy[k]) # (m \in policy'[k]) =>
         ForeignWrote \/ PolicyWrote \/ MemberWrote(k, m)]_vars

\* A grant that only the provider makes: the bucket did not have it from the
\* start and no other IAM client changes it.
Ours(k, m) == m \notin InitialPolicy[k] /\ <<k, m>> \notin ForeignGrants

\* A finalizer goes on before a grant is made and comes off only once the grant
\* is seen to be gone, so no interleaving of the two controllers, deletion,
\* stale cache reads, failures and restarts leaves a grant behind when neither a
\* BucketPolicyMember that asks for it is left nor a BucketPolicy whose policies
\* list it (one replica).
NoOrphanedGrant ==
  bucket =>
    \A k \in Keys : \A m \in policy[k] :
      Ours(k, m) =>
        \/ pcr.state # "gone" /\ \E s \in Specs : m \in s[k]
        \/ \E d \in MemberCRs : mcr[d] # "gone" /\ RoleOf[d] = k.role /\ MemberOf[d] = m

\* bucketpolicy_types.go:70: "If you use IAM Conditions, you must include the
\* etag field whenever you call setIamPolicy": a BucketPolicy worker never
\* drops a conditional binding of a policy it has not read.
ConditionsNotOverwrittenUnread ==
  [][\A w \in Replicas, k \in Keys :
       /\ k.cond # NoCondition
       /\ policy[k] # {} /\ policy'[k] = {}
       /\ pw[w].pc \in {"create", "updateSet", "delete"} /\ pw'[w] = PIdle
       => PClient(w) \in current]_vars

-----------------------------------------------------------------------------
(***************************************************************************)
(* Liveness.                                                               *)
(***************************************************************************)

\* Another object in the given state asks for the same grant as c.
Rival(c, state) ==
  \E d \in MemberCRs \ {c} :
    mcr[d] = state /\ RoleOf[d] = RoleOf[c] /\ MemberOf[d] = MemberOf[c]

\* Once others stop editing, the grant of every live object is made and then
\* stays, however often writes are refused because the etag moved; an object
\* for the same grant that is being deleted withdraws it for a while, and a
\* BucketPolicy, which owns the whole policy, withdraws it each time it looks.
GrantsConverge ==
  \A c \in MemberCRs :
    <>[](mcr[c] = "managed" /\ pcr.state = "gone" /\ bucket /\ ~Rival(c, "deleting") =>
           Granted(policy, RoleOf[c], MemberOf[c]))

\* A deleted BucketPolicyMember eventually goes away, unless its bucket does
\* (Observe does not ignore a bucket that is not found), or a live object for
\* the same grant, a BucketPolicy that lists it included, may make it again each
\* time before Observe looks.
MemberDeletionEnds ==
  \A c \in MemberCRs :
    mcr[c] = "deleting" ~>
      \/ mcr[c] = "gone" \/ ~bucket \/ Rival(c, "managed")
      \/ pcr.state = "managed" /\ Granted(pcr.spec, RoleOf[c], MemberOf[c])

\* Once others stop editing and no BucketPolicyMember is left, a live
\* BucketPolicy is the bucket's policy.
PolicyConverges ==
  <>[](pcr.state = "managed" /\ bucket /\ (\A c \in MemberCRs : mcr[c] = "gone") => policy = pcr.spec)

\* A deleted BucketPolicy eventually goes away even when the bucket has gone
\* first (Observe takes a bucket that is not found for a missing policy), but
\* a live BucketPolicyMember may make its grant each time before Observe looks.
PolicyDeletionEnds ==
  pcr.state = "deleting" ~> (pcr.state = "gone" \/ \E c \in MemberCRs : mcr[c] = "managed")
=============================================================================
