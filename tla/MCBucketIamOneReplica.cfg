\* One worker with two objects that ask for the same grant, with a BucketPolicy,
\* or with one of each, which may list that grant too; failures, and a foreign
\* edit of another grant.
SPECIFICATION FairSpec
CONSTANTS
  r1 = r1  m1 = m1  m2 = m2  none = none  c1 = c1  c2 = c2  w1 = w1  w2 = w2
  Roles = {r1}
  Members = {m1, m2}
  Conditions = {none}
  NoCondition = none
  Replicas = {w1}
  MemberCRs = {c1, c2}
  RoleOf <- MCRoleOf
  MemberOf <- SameMemberOf
  Specs <- EmptyOrM1
  Setups <- AloneOrBoth
  InitialPolicy <- NoPolicy
  ForeignGrants <- GrantsOfM2
  BucketMayGo = TRUE
  MaxEdits = 1
INVARIANTS TypeOK NoOrphanedGrant
PROPERTY OnlyOwnGrantChanges
PROPERTY GrantsConverge
PROPERTY MemberDeletionEnds
PROPERTY PolicyConverges
PROPERTY PolicyDeletionEnds
CHECK_DEADLOCK FALSE
