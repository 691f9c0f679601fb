SPECIFICATION FairSpec
CONSTANTS
  a = a  b = b
  Values = {a, b}
  Zero = Zero
  Nil = Nil
  Absent = Absent
  Instances <- MCInstances
  Defaults = {a, Zero, Absent}
  Initial = {a, Nil, Absent}
  Referenced = a
INVARIANTS TypeOK NoOrphan CreatedWhereReferred FilledInOnce
PROPERTY KeepsPromise UserValuesSurvive UpdatesOnlyWhatDiffers CallsSettle Converges UpdatesEnd StatusFollows DeletionEnds
CHECK_DEADLOCK FALSE
