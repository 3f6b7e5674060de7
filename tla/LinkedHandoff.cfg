SPECIFICATION Spec
CONSTANTS
  Bot = Bot
  Poll = Poll
  Desktop = Desktop
  None = None
  Workers = {w1, w2, w3}
  MaxTurns = 4
  MaxPCTurns = 1
  MaxReplies = 2
  MaxFaults = 1
  MaxRestarts = 1
INVARIANTS
  StartedOnce
  QueueInv
  ReadyIsReleased
  NoticeAfterEnd
PROPERTIES
  ImplementsHandoff
CHECK_DEADLOCK FALSE
