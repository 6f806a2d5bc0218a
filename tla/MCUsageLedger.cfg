CONSTANTS
    a = a
    b = b
    r1 = r1
    r2 = r2
    Accounts <- TwoAccounts
    Users = {u1}
    Requests = {r1, r2}
    Retention = 0
    HoursPerDay = 2
    Readings <- MCReadings
    MaxTime = 2
    MaxLoads = 1
SPECIFICATION Spec
SYMMETRY AlikeRequests
CHECK_DEADLOCK FALSE
INVARIANTS TypeOK TotalsAgree ReportsAddUp
