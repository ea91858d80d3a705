\* An admin and a member on one message while roles, mutes and the room change.
SPECIFICATION Spec
CONSTANTS
  alice = alice
  lobby = lobby
  annex = annex
  User = {alice, bob}
  Room = {lobby}
  MessageId = {m1}
  Command = {k1, k2}
  ReadCommand = {}
  Worker = {w1, w2}
  None = None
  ViewHistory <- HiddenHistory
  InitialRole <- AdminAndMembers
  MaxChange = 3
  MaxAdmin = 1
SYMMETRY Interchangeable
INVARIANTS RowMatchesHistory
PROPERTIES HistoryIsKept AuthorizedAtCommit
CHECK_DEADLOCK FALSE
