\* The cluster is deleted by somebody else.
SPECIFICATION Spec
CONSTANTS
  addons = addons  labels = labels  other = other  v1 = v1  v2 = v2
  Unset = Unset
  Fields = {addons, labels}
  UpdateOrder <- TwoOrder
  Scalars = {labels}
  Sticky = {}
  LateInited = {addons, labels}
  Overwritten = {}
  Values = {v1, v2}
  Default <- AllSet
  Autopilot = FALSE
  SpecEdits <- AllEdits
  InitialSpec <- AllSet
  MaxEdits = 0
  MaxFailures = 0
  MaxForeign = 1
INVARIANT CreateWaitsForProvisioning
CHECK_DEADLOCK FALSE
