SPECIFICATION Spec
CONSTANTS
  Thread = {t1}
  Unlisted = {t1}
  Agent = {dflt}
  Default = dflt
  MaxRuns = 1
  MaxCrashes = 1
  MaxFaults = 0
INVARIANTS
  EveryStaleRunIsReconciled
CHECK_DEADLOCK FALSE
