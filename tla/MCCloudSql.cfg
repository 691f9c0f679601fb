SPECIFICATION FairSpec
CONSTANTS
  r1 = r1
  r2 = r2
  v1 = v1
  v2 = v2
  Unset = Unset
  Replicas <- TwoReplicas
  Values = {v2}
  Default = v1
  MaxChanges = 1
  MaxCreates = 2
INVARIANTS TypeOK PublishedPasswordWorks EveryInstanceTagged
PROPERTIES NoOrphan InstanceConverges InstanceDeletionEnds
CHECK_DEADLOCK FALSE
