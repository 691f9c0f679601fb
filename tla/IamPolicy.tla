----------------------------- MODULE IamPolicy -----------------------------
(***************************************************************************)
(* The IAM policy of one bucket, as the storage service keeps it and as    *)
(* pkg/clients/bucketpolicy computes with it.                              *)
(*                                                                         *)
(* A policy is a list of bindings, each a role, an optional condition and  *)
(* a list of members.  Here it is a function from binding keys to sets of  *)
(* members: the service keeps one binding per role and condition and lists *)
(* only bindings that have members.  The order of that list is the         *)
(* service's choice, so "the first binding with this role" is any of them. *)
(***************************************************************************)
CONSTANTS Roles, Members,
          Conditions, NoCondition,  \* NoCondition: a binding with Condition == nil
          Replicas                  \* provider processes; leader election is off by default

ASSUME ConditionAssumption == NoCondition \in Conditions

VARIABLES policy,     \* the bindings the service holds
          bucket,     \* does the bucket still exist
          current     \* the clients whose last GetIamPolicy carried the etag
                      \* the policy has now; every SetIamPolicy changes the etag

iamVars == <<policy, bucket, current>>

Keys == [role : Roles, cond : Conditions]
Policy == [Keys -> SUBSET Members]
EmptyPolicy == [k \in Keys |-> {}]

RoleBindings(p, r) == {k \in Keys : k.role = r /\ p[k] # {}}

\* IsEmpty: no binding is listed.
IsEmpty(p) == \A k \in Keys : p[k] = {}

\* IsUpToDate: the generated bindings and the observed ones are the same.
IsUpToDate(desired, observed) == desired = observed

(***************************************************************************)
(* BindRoleToMember and UnbindRoleFromMember look at the first binding     *)
(* with the role and at no other; Bind adds an unconditional binding when  *)
(* there is none.  Both report whether the policy changed.                 *)
(***************************************************************************)
BindTargets(p, r) ==
  IF RoleBindings(p, r) # {} THEN RoleBindings(p, r)
                             ELSE {[role |-> r, cond |-> NoCondition]}

BindRoleToMember(p, k, m) == [p EXCEPT ![k] = @ \cup {m}]
\* Mutated: the binding is dropped and the others are not kept in place.
UnbindDropsKey(p, k, m) == [j \in Keys \ {k} |-> p[j]]
\* Mutated: every member of the binding is unbound.
UnbindAll(p, k, m) == [p EXCEPT ![k] = {}]
UnbindRoleFromMember(p, k, m) == [p EXCEPT ![k] = @ \ {m}]

\* A member holds a role when some binding of the role lists it.
Granted(p, r, m) == \E k \in Keys : k.role = r /\ m \in p[k]

(***************************************************************************)
(* The two calls.  GetIamPolicy gives client x the policy and its etag.    *)
(* SetIamPolicy with an etag (the instance came from a Get) is refused     *)
(* when the etag has changed; without one it overwrites whatever is there. *)
(***************************************************************************)
GetIamPolicy(x) ==
  /\ bucket
  /\ current' = current \cup {x}
  /\ UNCHANGED <<policy, bucket>>

SetWithEtag(x, p) ==
  /\ bucket
  /\ x \in current
  /\ policy' = p
  /\ current' = {}
  /\ UNCHANGED bucket

SetWithoutEtag(p) ==
  /\ bucket
  /\ policy' = p
  /\ current' = {}
  /\ UNCHANGED bucket

IamInit(p) ==
  /\ policy = p
  /\ bucket = TRUE
  /\ current = {}
=============================================================================
