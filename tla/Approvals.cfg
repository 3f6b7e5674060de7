SPECIFICATION Spec
CONSTANTS
  MaxTurns = 2
  MaxSessions = 2
  MaxEvents = 2
  MaxPairs = 2
  MaxCards = 2
  MaxAttempts = 2
  MaxFaults = 1
INVARIANTS
  AnsweredOnceByItsCard
  StatusIsTrue
  ButtonsInv
  ToldIsSpent
PROPERTIES
  SettledIsFinal
CHECK_DEADLOCK FALSE
