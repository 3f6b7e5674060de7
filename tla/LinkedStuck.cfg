SPECIFICATION FairSpec
CONSTANTS
  Bot = Bot
  Poll = Poll
  Desktop = Desktop
  None = None
  Workers = {w1}
  MaxTurns = 2
  MaxPCTurns = 1
  MaxReplies = 1
  MaxFaults = 0
  MaxRestarts = 0
PROPERTIES
  OwnershipEnds
CHECK_DEADLOCK FALSE
