SPECIFICATION SettingsSpec
CONSTANTS
  Putter = {p1}
  Env <- EnvOn
  MaxPuts = 2
INVARIANT UnsetFieldsKeepTheirValue
CHECK_DEADLOCK FALSE
