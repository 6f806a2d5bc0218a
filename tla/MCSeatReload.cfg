SPECIFICATION FairSpec
CONSTANTS
  NoSeat = NoSeat
  Seat <- MCSeat
  Kind <- MCKind
  Plan <- MCPlan
  Conversation <- MCConversation
  Request <- MCRequest
  Mode <- MCMode
  WantType <- MCWantType
  WantPlan <- MCWantPlan
  Conv <- MCConv
  Supports <- MCSupports
  Forced <- MCForced
  InitialPool <- MCInitialPool
  Changes <- MCChanges
  MaxAttempts = 1
  MaxReloads = 1
INVARIANTS SeatAccounting ClaimsBacked
PROPERTIES EveryRequestEnds
CHECK_DEADLOCK FALSE
