---------------------------- MODULE MCBucketIam ----------------------------
(* Instances of BucketIam for TLC.                                         *)
EXTENDS BucketIam, TLC

CONSTANTS r1, m1, m2, none, c1, c2, w1, w2

\* One object per member of one role; none at all; and
\* two objects that ask for the same grant.
MCRoleOf == [c \in {c1, c2} |-> r1]
MCMemberOf == [c \in {c1, c2} |-> IF c = c1 THEN m1 ELSE m2]
SameMemberOf == [c \in {c1, c2} |-> m1]
NoObjects == [c \in {} |-> r1]

\* What exists on the bucket, and the edits before: a BucketPolicyMember beside a
\* BucketPolicy is disturbed enough by that.
MembersOnly == {<<MemberCRs, FALSE, 0>>}
MembersAndPolicy == {<<MemberCRs, TRUE, 0>>}
AloneOrBoth == {<<MemberCRs, FALSE, 0>>, <<{}, TRUE, 0>>, <<{c1}, TRUE, MaxEdits>>}

NoPolicy == [k \in Keys |-> {}]
HasM1 == [k \in Keys |-> {m1}]
HasM2 == [k \in Keys |-> {m2}]
EmptyOrM1 == {NoPolicy, HasM1}

GrantsOfM2 == Keys \X {m2}
\* A policy that grants nothing under a condition.
Unconditional == {[k \in Keys |-> IF k.cond = none THEN {m1} ELSE {}]}
ConditionalGrants == {k \in Keys : k.cond # none} \X {m2}

OneSpec == {HasM2}

\* Replicas are interchangeable.
ReplicaSymmetry == Permutations(Replicas)
=============================================================================
