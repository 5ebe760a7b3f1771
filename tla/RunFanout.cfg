SPECIFICATION FairSpec
CONSTANTS
  Client = {c1, c2}
  Starter = c1
  Cap = 2
  MaxDeltas = 4
INVARIANTS
  TypeOK
  DeliveredInOrder
  TerminalEventsReachOpenStreams
  EndedStreamsSawTheEnding
  OnlyFullQueuesLose
PROPERTIES
  StreamsClose
  ImplementsRunStream
CHECK_DEADLOCK FALSE
