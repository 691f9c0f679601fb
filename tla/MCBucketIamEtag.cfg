\* A foreign client adds a conditional binding while a BucketPolicy without
\* conditional bindings is created.
SPECIFICATION Spec
CONSTANTS
  r1 = r1  m1 = m1  m2 = m2  none = none  c1 = c1  c2 = c2  w1 = w1  w2 = w2
  Roles = {r1}
  Members = {m1, m2}
  Conditions = {none, cond}
  NoCondition = none
  Replicas = {w1}
  MemberCRs = {}
  RoleOf <- NoObjects
  MemberOf <- NoObjects
  Specs <- Unconditional
  Setups <- MembersAndPolicy
  InitialPolicy <- NoPolicy
  ForeignGrants <- ConditionalGrants
  BucketMayGo = FALSE
  MaxEdits = 1
PROPERTY ConditionsNotOverwrittenUnread
CHECK_DEADLOCK FALSE
