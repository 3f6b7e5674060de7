SPECIFICATION Spec
CONSTANTS
  Threads = {1}
  FinishStatuses = {"completed", "interrupted"}
  Unreadable = {}
  Rapid = {1}
  PageSize = 1
  BatchLimit = 1
  RetryDelay = 1
  LastUpdate = 2
  MaxClock = 3
  MaxTurns = 3
  MaxFaults = 2
INVARIANTS
  CursorInv
  QueueInTurnOrder
  CaughtUp
  HistoryNotReplayed
