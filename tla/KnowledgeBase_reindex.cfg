SPECIFICATION Spec
CONSTANTS
  Kb = {"k"}
  Path = {"a"}
  Size <- Ones
  Chunks <- Ones
  Quota = 2
  MaxBatch = 1
  Slots = {s1}
  MaxUploads = 1
  MaxCopies = 2
  MaxRequests = 2
  MaxCrashes = 0
INVARIANT ReindexKeepsDocuments
CHECK_DEADLOCK FALSE
