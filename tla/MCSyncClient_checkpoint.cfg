\* Events in any order; full syncs undisturbed.
SPECIFICATION Spec
CONSTANTS
    r1 = r1
    r2 = r2
    m1 = m1
    m2 = m2
    Room = {r1, r2}
    MessageId = {m1, m2}
    RoomOf <- TwoRooms
    Mine = {r1, r2}
    PageLimit = 1
    MaxChange = 3
    Opened = {}
    MaxFault = 1
    PublishInOrder = FALSE
    FaultDuringSync = FALSE
PROPERTIES
    Converges
CHECK_DEADLOCK FALSE
