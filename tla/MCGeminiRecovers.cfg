SPECIFICATION Spec
CONSTANTS
    m1 = m1
    NoModel = NoModel
    NoObject = NoObject
    Model = {m1}
    Request = {}
    Object = {1, 2}
    Window = 2
    Longest = 1
    Loads <- MCRecoverLoads
    Replies <- MCRecoverReplies
    Dates <- MCOldDates
    Disturbances = 1
PROPERTY StaleSeatRecovers
