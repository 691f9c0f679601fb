\* A late-initialised spec brings an old status back.
SPECIFICATION Spec
CONSTANTS
  addons = addons  labels = labels  other = other  v1 = v1  v2 = v2
  Unset = Unset
  Fields = {addons, labels}
  UpdateOrder <- TwoOrder
  Scalars = {labels}
  Sticky = {}
  LateInited = {addons, labels}
  Overwritten = {}
  Values = {v1, v2}
  Default <- AllSet
  Autopilot = FALSE
  SpecEdits <- WithUnset
  InitialSpec <- NothingSet
  MaxEdits = 2
  MaxFailures = 0
  MaxForeign = 0
INVARIANT OneUpdateAtATime
CHECK_DEADLOCK FALSE
