SPECIFICATION Spec
CONSTANTS
  Thread = {t1}
  Unlisted = {}
  Agent = {dflt}
  Default = dflt
  MaxRuns = 2
  MaxCrashes = 0
  MaxFaults = 0
INVARIANTS
  NothingIsReplacedAway
CHECK_DEADLOCK FALSE
