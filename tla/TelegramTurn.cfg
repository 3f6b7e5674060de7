SPECIFICATION Spec
CONSTANTS
  poll = poll
  bot = bot
  Poll = poll
  Bot = bot
  MaxTurns = 2
  MaxTexts = 2
  MaxEvents = 2
INVARIANTS GateInv TextArrivesOnce NoParallelTurn StopLeavesPlanMode
PROPERTIES StopIsShown
CHECK_DEADLOCK FALSE
