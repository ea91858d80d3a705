\* Every operation on rooms, tokens, files, migrations, records, and the shutdown.
SPECIFICATION ServicesSpec
CONSTANTS
  alice = alice
  bob = bob
  carol = carol
  p1 = p1
  p2 = p2
  User = {alice, bob, carol}
  Worker = {w1, w2}
  Nobody = Nobody
  InitialRoles <- Starts
  MaxRequests = 2
  MaxLost = 1
  Person = {alice, bob}
  Clerk = {k1, k2}
  NoClerk = NoClerk
  Placements <- Apart
  MaxChat = 2
  MaxCalls = 3
  Browser = {"b1", "b2"}
  Tab = {t1, t2}
  BrowserOf <- OneBrowser
  LockSettings = {TRUE, FALSE}
  MaxTokens = 4
  MaxLeft = 1
  Upload = {1, 2}
  Message = {"s1", "s2"}
  AsksFor <- Overlapping
  Avatar = {7, 8}
  MaxBroken = 1
  Runner = {n1, n2}
  Releases <- Branches
  MaxSteps = 4
  Capacity = 3
  Duration = {1, 2, 3}
  Threshold = 1
  MaxWritten = 4
  Incoming = {q1, q2}
  Signal = {sigterm, sigint}
SYMMETRY Sym
INVARIANTS
  SubscriptionsMatch FriendsCanTalk TabsKeepTheirSession
  RowsNameWholeFiles SentWithAttachments AppliedInOrder ReportsAreRecent
  StopsInOrder
PROPERTIES OwnerIsKept RemovalIsAuthorized PairIsSerialized
CHECK_DEADLOCK FALSE
