\* Two requests of a pair, served by one process.
SPECIFICATION MCSpec
CONSTANTS
  alice = alice
  bob = bob
  carol = carol
  p1 = p1
  p2 = p2
  User = {alice, bob, carol}
  Worker = {w1, w2}
  Nobody = Nobody
  InitialRoles <- Started
  MaxRequests = 0
  MaxLost = 0
  Person = {alice, bob}
  Clerk = {k1, k2}
  NoClerk = NoClerk
  Placements <- Together
  MaxChat = 1
  MaxCalls = 2
SYMMETRY Sym
INVARIANTS BlockedRoomsReadOnly
CHECK_DEADLOCK FALSE
