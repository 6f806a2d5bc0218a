SPECIFICATION FairSpec
CONSTANTS
  NoSeat = NoSeat
  Seat <- MCSeat
  Kind <- MCKind
  Plan <- MCPlan
  Conversation <- MCConversation
  Request <- MCRequest
  Mode <- MCMode
  WantType <- MCWantType
  WantPlan <- MCWantPlan
  Conv <- MCConv
  Supports <- MCSupports
  Forced <- MCForced
  InitialPool <- MCSeat
  Changes <- MCChanges
  MaxAttempts = 1
  MaxReloads = 0
CHECK_DEADLOCK FALSE
INVARIANTS RefusedDeleteMeansInUse
