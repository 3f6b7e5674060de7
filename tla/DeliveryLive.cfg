SPECIFICATION FairSpec
CONSTANTS
  Items <- MixedItems
  Groups <- MixedGroups
  GroupOf <- MixedGroupOf
  SeqNo <- MixedSeqNo
  KindOf <- LiveKindOf
  NoGroup = "none"
  Protected = TRUE
  ClaimLimit = 2
  MaxAttempts = 2
  StoreFaults = 0
  MaxRestarts = 1
INVARIANTS
  WaitingHasPayload
PROPERTIES
  EventuallySettled
CHECK_DEADLOCK FALSE
