SPECIFICATION FairSpec
CONSTANTS
  Threads = {1, 2}
  FinishStatuses = {"completed"}
  Unreadable = {1}
  Rapid = {2}
  PageSize = 1
  BatchLimit = 1
  RetryDelay = 1
  LastUpdate = 1
  MaxClock = 2
  MaxTurns = 2
  MaxFaults = 1
PROPERTIES
  LatestTerminalAnnounced
