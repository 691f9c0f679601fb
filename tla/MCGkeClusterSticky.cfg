\* The notification configuration.
SPECIFICATION Spec
CONSTANTS
  addons = addons  labels = labels  other = other  v1 = v1  v2 = v2
  Unset = Unset
  Fields = {addons, labels, other}
  UpdateOrder <- ThreeOrder
  Scalars = {labels}
  Sticky = {other}
  LateInited = {addons, labels, other}
  Overwritten = {}
  Values = {v1, v2}
  Default <- AllSet
  Autopilot = FALSE
  SpecEdits <- AllEdits
  InitialSpec <- AllSet
  MaxEdits = 1
  MaxFailures = 0
  MaxForeign = 0
INVARIANT UpToDateMeansSame
CHECK_DEADLOCK FALSE
