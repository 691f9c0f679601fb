\* Convergence and deletion, while an operation may fail.
SPECIFICATION FairSpec
CONSTANTS
  addons = addons  labels = labels  other = other  v1 = v1  v2 = v2
  Unset = Unset
  Fields = {addons, labels}
  UpdateOrder <- TwoOrder
  Scalars = {labels}
  Sticky = {}
  LateInited = {addons, labels}
  Overwritten = {}
  Values = {v1, v2}
  Default <- LabelsByUser
  Autopilot = FALSE
  SpecEdits <- WithUnset
  InitialSpec <- NothingSet
  MaxEdits = 2
  MaxFailures = 1
  MaxForeign = 0
PROPERTY ClusterConverges
PROPERTY ClusterDeletionEnds
CHECK_DEADLOCK FALSE
