\* Two replicas, one object per member of a role, a foreign edit.
SPECIFICATION Spec
CONSTANTS
  r1 = r1  m1 = m1  m2 = m2  none = none  c1 = c1  c2 = c2  w1 = w1  w2 = w2
  Roles = {r1}
  Members = {m1, m2}
  Conditions = {none}
  NoCondition = none
  Replicas = {w1, w2}
  MemberCRs = {c1, c2}
  RoleOf <- MCRoleOf
  MemberOf <- MCMemberOf
  Specs <- OneSpec
  Setups <- MembersOnly
  InitialPolicy <- NoPolicy
  ForeignGrants <- GrantsOfM2
  BucketMayGo = FALSE
  MaxEdits = 1
INVARIANT FreshInstance
PROPERTY OnlyOwnGrantChanges
SYMMETRY ReplicaSymmetry
CHECK_DEADLOCK FALSE
