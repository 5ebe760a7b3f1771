SPECIFICATION Spec
CONSTANTS
  Thread = {t1}
  Unlisted = {}
  Agent = {dflt, coder}
  Default = dflt
  MaxRuns = 3
  MaxCrashes = 0
  MaxFaults = 0
INVARIANTS
  ResumeUsesPausedGraph
CHECK_DEADLOCK FALSE
