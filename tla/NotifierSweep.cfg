SPECIFICATION FairSpec
CONSTANTS
  Threads = {1, 2, 3}
  FinishStatuses = {"completed"}
  Unreadable = {}
  Rapid = {}
  PageSize = 1
  BatchLimit = 4
  RetryDelay = 1
  LastUpdate = 1
  MaxClock = 1
  MaxTurns = 1
  MaxFaults = 0
PROPERTIES
  EveryThreadTracked
