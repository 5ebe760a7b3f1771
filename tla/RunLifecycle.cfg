SPECIFICATION FairSpec
CONSTANTS
  Thread = {t1}
  Unlisted = {}
  Agent = {dflt}
  Default = dflt
  MaxRuns = 2
  MaxCrashes = 1
  MaxFaults = 1
INVARIANTS
  TypeOK
  RunningThreadsHaveRuns
  InterruptedMeansWaiting
  StoredBeforeTold
  NotificationsTellActivity
PROPERTIES
  CancelledRunsEnd
CHECK_DEADLOCK FALSE
