\* One tab: events in any order and a room opened meanwhile; its caches
\* and forms; the lists, pages and badges it reads.
SPECIFICATION MCSpec
CONSTANTS
    r1 = r1
    r2 = r2
    m1 = m1
    m2 = m2
    p1 = p1
    Room = {r1, r2}
    MessageId = {m1, m2}
    RoomOf <- TwoRooms
    Mine = {r1}
    PageLimit = 1
    MaxChange = 3
    Opened = {m1}
    MaxFault = 1
    PublishInOrder = FALSE
    FaultDuringSync = TRUE
    Load = {l1, l2}
    WebPage = {w1, w2}
    Asset = {a1, a2}
    PagesKept = 1
    AssetsKept = 1
    MaxVersion = 2
    MaxSession = 2
    Chat = {r1, r2}
    Item = {i1, i2}
    Post = {p1}
    ChatOf <- OnePost
    None = None
    Contact = {c1}
    Saver = {s1, s2}
    Saving = {a}
    MaxEdit = 2
    MaxUpdates = 2
    MaxDeeds = 3
    MaxFetches = 2
    Filed = {x1, x2}
    Folder = {g1, g2}
    NoFolder = NoFolder
    Drop = {d1}
    MaxMoves = 2
    MaxReads = 2
    PageSize = 2
    Old = {1, 2}
    Twins = {1, 2}
    MaxPosition = 3
    MaxToggles = 1
    Line = {b1}
    Restricted = {b1}
    NoLine = NoLine
    CountLimit = 2
    MaxLog = 2
    MaxUpsets = 1
INVARIANTS
    CachesAreKeptSmall
    SentOnceWhereTyped NoBlockedContact ShownIsStored ListsConverge ListAgrees
    PagesMeetAll
PROPERTIES
    NeverOutdated BadgesCountOnce
CHECK_DEADLOCK FALSE
