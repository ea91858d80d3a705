\* One tab. Markers: one failed write. Sync: two rooms, events in change order and full syncs undisturbed.
SPECIFICATION TabSpec
CONSTANTS
    r1 = r1
    r2 = r2
    m1 = m1
    m2 = m2
    Room = {r1, r2}
    MessageId = {m1, m2}
    RoomOf <- TwoRooms
    Mine = {r1, r2}
    PageLimit = 1
    MaxChange = 3
    Opened = {}
    MaxFault = 1
    PublishInOrder = TRUE
    FaultDuringSync = FALSE
    ApiCall = {c1, c2}
    MaxToken = 3
    MaxMessage = 2
    MaxFailure = 1
    MaxVisits = 1
    MaxLoads = 1
INVARIANTS
    RecoveredAfterReady
    ShownIsVerified
PROPERTIES
    CatchesUp
    CallsSettle
    ReadsAreStored
CHECK_DEADLOCK FALSE
