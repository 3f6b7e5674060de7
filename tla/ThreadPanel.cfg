SPECIFICATION Spec
CONSTANTS
  poll = poll
  bot = bot
  Loops <- MCLoops
  Bot = bot
  PanelMode = "per_run"
  MaxTurns = 2
  MaxEvents = 1
INVARIANTS PanelInv FinalsSentOnce DetailsShowItsRun
PROPERTIES RunningPanelGetsFinal OwnTextNotEchoed TelegramPanelKept
CHECK_DEADLOCK FALSE
