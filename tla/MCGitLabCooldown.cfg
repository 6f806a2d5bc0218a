CONSTANTS
    a = a
    b = b
    org = org
    Pool <- OneOrg
    Scopes = {org}
    Scope <- OrgOf
    Requests = {r1}
    Waits = {2}
    Answers = {"tpm", "no_quota"}
    Outcomes = {"granted", "throttled"}
    Lead = 1
    RetryDelay = 2
    CanaryTimeout = 1
    MaxRestarts = 1
    MaxEvents = 2
SPECIFICATION Spec
INVARIANTS TypeOK TurnedAwayOnlyIfBlocked
PROPERTIES CanariesSpaced DeadSeatStaysDead ScopeReopens
