SPECIFICATION Spec
CONSTANTS
  Skill = {s1, s2}
  File = {md, ref}
  Md = md
  Run = {r1, r2, n1}
  Named = {n1}
  NoRun = NoRun
  MaxEdits = 2
SYMMETRY Alike
INVARIANTS
  TypeOK
PROPERTIES
  OwnRunsRewriteWhatChanged
  SyncStoresTheDirectory
CHECK_DEADLOCK FALSE
