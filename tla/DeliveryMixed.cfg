SPECIFICATION Spec
CONSTANTS
  Items <- MixedItems
  Groups <- MixedGroups
  GroupOf <- MixedGroupOf
  SeqNo <- MixedSeqNo
  KindOf <- MixedKindOf
  NoGroup = "none"
  Protected = TRUE
  ClaimLimit = 2
  MaxAttempts = 2
  StoreFaults = 1
  MaxRestarts = 1
INVARIANTS
  PartsInOrder
  EventMatchesParts
  DuplicatesAccounted
  RouteIffDelivered
PROPERTIES
  DeliveredIsFinal
CHECK_DEADLOCK FALSE
