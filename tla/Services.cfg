SPECIFICATION ServicesSpec
CONSTANTS
  Kb = {"k"}
  Path = {"a", "x"}
  Size <- SizeOf
  Chunks <- ChunksOf
  Quota = 2
  MaxBatch = 2
  Slots = {s1, s2}
  MaxUploads = 1
  MaxCopies = 2
  MaxRequests = 3
  MaxCrashes = 1
  Cap = 2
  MaxMessages = 1
  MaxCalls <- CallsOf
  MaxDeltas = 1
  Client = {"c1"}
  RecentLimit = 3
  QueueBound = 2
  MaxEvents = 5
  MaxRestarts = 1
  Name = {"one", "two"}
  Admin = {"first", "second"}
  Body <- Bodies
  MaxWrites = 3
  Chat = {b1, b2}
  MaxCache = 1
  MaxTools = 1
  MaxChanges = 2
  Skill = {"s", "t"}
  ConfigSlot = {g1, g2}
  Page = 3
  MaxConfigs = 2
  MaxEdits = 1
  Account = {"root", "amy"}
  Root = "root"
  AccountSlot = {u1, u2}
  MaxAccountRequests = 4
  McpSlot = {m1, m2}
  MaxInstances = 2
  MaxSessions = 2
  MaxMutations = 1
  Files = 2
  Legacy = 2
  Window = 1
  MaxStarts = 3
  MaxOwned = 1
  Model = {m, n}
  AskSlot = {a1, a2}
  MaxAsks = 2
  MaxAdminWrites = 2
  PrefCount = 2
  PrefSlot = {p1, p2}
  MaxPatches = 3
  LoginSlot = {l1, l2}
  LoginCap = 2
  Span = 2
  MaxClock = 4
  Dir = {"amy"}
  Worker = {w1, w2}
  MaxTreeEdits = 2
  MaxKills = 1
INVARIANTS
  NoOrphanVectors
  ReadyMeansIndexed
  QuotaOvershootIsBounded
  ProcessingIsWorkedOn
  PartsAreWellFormed
  FinishLeavesNothingOpen
  NotificationsAreExact
  ResolvedIsTheDefault
  GraphsAreFresh
  SnapshotIsTheSelection
  AnAdminRemains
  NoSessionIsLost
  BackendIsWhole
  LegacyIsKept
  GrantsWereFit
  DenialsWereDue
  NoPreferenceIsLost
  LoginsAreLimited
  WorkspaceIsVersioned
PROPERTY
  StopEndsTheStream
CHECK_DEADLOCK FALSE
