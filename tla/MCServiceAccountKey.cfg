SPECIFICATION FairSpec
CONSTANTS
  MaxFaults = 2
  MaxForeign = 2
  MaxKeys = 5
INVARIANTS TypeOK LeaksNeedFaults RecordedKeyDeleted SecretHoldsKey
PROPERTIES KeyDeletionEnds PublicHalfFollows
CHECK_DEADLOCK FALSE
