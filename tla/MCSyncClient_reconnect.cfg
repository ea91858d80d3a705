\* Events in change order; the connection may be lost during a full sync.
SPECIFICATION Spec
CONSTANTS
    r1 = r1
    r2 = r2
    m1 = m1
    m2 = m2
    Room = {r1, r2}
    MessageId = {m1, m2}
    RoomOf <- TwoRooms
    Mine = {r1, r2}
    PageLimit = 1
    MaxChange = 2
    Opened = {}
    MaxFault = 1
    PublishInOrder = TRUE
    FaultDuringSync = TRUE
INVARIANTS
    RecoveredAfterReady
CHECK_DEADLOCK FALSE
