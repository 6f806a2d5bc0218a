SPECIFICATION FairSpec
CONSTANTS
  NoCaller = NoCaller
  Seat <- MCSeat
  Codex = {}
  Caller <- MCCaller
  Role <- MCRole
  Target <- MCTarget
  MaxIssued = 2
  MaxReloads = 1
  MaxCrashes = 1
  MaxLost = 1
  MaxFaults = 1
  Losable = {"answer", "write"}
INVARIANT SingleFlight
PROPERTIES EveryWaiterTold
CHECK_DEADLOCK FALSE
