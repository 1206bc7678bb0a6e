SPECIFICATION FairSpec
CONSTANTS
  None = None
  Schedule = TRUE
  Interval = 2
  Retention = 1
  MaxPosts = 1
  MaxTime = 4
  MaxGen = 1
  MaxRestores = 1
  MaxFaults = 2
  LastFault = 2
INVARIANTS DatabaseIntact
PROPERTIES RestoreOnlyFromGood ReplacedDataIsSaved GoodBackupRemains ServerComesBack CompleteBackupEventually
CHECK_DEADLOCK FALSE
