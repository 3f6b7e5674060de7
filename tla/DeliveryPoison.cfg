SPECIFICATION FairSpec
CONSTANTS
  Items <- ApprovalItems
  Groups <- ApprovalGroups
  GroupOf <- ApprovalGroupOf
  SeqNo <- ApprovalSeqNo
  KindOf <- ApprovalKindOf
  NoGroup = "none"
  Protected = TRUE
  ClaimLimit = 10
  MaxAttempts = 2
  StoreFaults = 0
  MaxRestarts = 0
PROPERTIES
  EventuallySettled
CHECK_DEADLOCK FALSE
