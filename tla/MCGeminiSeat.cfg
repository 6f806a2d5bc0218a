SPECIFICATION Spec
CONSTANTS
    m1 = m1
    r1 = r1
    NoModel = NoModel
    NoObject = NoObject
    Model = {m1}
    Request = {r1}
    Object = {1, 2}
    Window = 3
    Longest = 1
    Loads <- MCLoads
    Replies <- MCReplies
    Dates <- MCDates
    Disturbances = 1
INVARIANT TypeOK
INVARIANT BlockedSeatRefused
INVARIANT StaleOnlyWhileRenewed
PROPERTY ModelLimitLastsItsTime
