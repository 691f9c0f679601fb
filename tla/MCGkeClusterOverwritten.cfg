\* The client certificate setting.
SPECIFICATION Spec
CONSTANTS
  addons = addons  labels = labels  other = other  v1 = v1  v2 = v2
  Unset = Unset
  Fields = {addons, labels, other}
  UpdateOrder <- TwoOrder
  Scalars = {labels}
  Sticky = {}
  LateInited = {addons, labels, other}
  Overwritten = {other}
  Values = {v1, v2}
  Default <- AllSet
  Autopilot = FALSE
  SpecEdits <- WithUnset
  InitialSpec <- NothingSet
  MaxEdits = 1
  MaxFailures = 0
  MaxForeign = 0
PROPERTY UserValuesSurvive
CHECK_DEADLOCK FALSE
