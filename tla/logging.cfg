SPECIFICATION LiveSpec
CONSTANTS
  Threads = {"a", "b"}
  Capacity = 2
  Uses <- LoggingUses
  Oversized <- LongMessages
  PipeRoom = 1
  MaxConnections = 2
  MaxStarts = 2
CHECK_DEADLOCK FALSE
INVARIANTS QueueHolds WindowIsTrue
PROPERTIES LoggedIsShown EveryoneStops
