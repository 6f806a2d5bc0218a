SPECIFICATION Spec
CONSTANTS
  NoCaller = NoCaller
  Seat <- MCSeat
  Codex <- MCSeat
  Caller <- MCCaller
  Role <- MCRole
  Target <- MCTarget
  MaxIssued = 2
  MaxReloads = 0
  MaxCrashes = 0
  MaxLost = 1
  MaxFaults = 1
  Losable = {"write"}
INVARIANTS TypeOK NewestTokenKept NoTokenReplay RetryUsesNewerToken
CHECK_DEADLOCK FALSE
