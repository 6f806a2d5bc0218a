SPECIFICATION Spec
CONSTANTS
    o = o
    g = g
    k = k
    Seat = {o, g, k}
    Family <- MCFamily
    User = {u1}
    Slot = {1, 2, 3, 4}
    MaxLogins = 1
    MaxWork = 2
    NoSeat = NoSeat
    NoSlot = 0
    NoObject = NoObject
    Torn = Torn
INVARIANTS TypeOK PoolIsTheFiles DeletedStaysDeleted
CHECK_DEADLOCK FALSE
