SPECIFICATION FairSpec
CONSTANTS
  NoSession = "none"
  Session <- MCSession
  Lane <- MCLane
  Seat <- MCSeat
  Person <- MCPerson
  Name <- MCName
  NameOf <- MCNameOf
  Handler <- MCHandler
  MaxCopies = 2
  MaxStarted = 2
INVARIANTS TypeOK OpenServersAccounted
PROPERTIES IdleServersStop SignsInOnce
CHECK_DEADLOCK FALSE
