\* One user, two rooms, two handlers: retries, key reuse, joining and deletion.
SPECIFICATION Spec
CONSTANTS
  alice = alice
  lobby = lobby
  annex = annex
  User = {alice}
  Room = {lobby, annex}
  MessageId = {m1, m2}
  Command = {k1, k2}
  ReadCommand = {q1, q2}
  Worker = {w1, w2}
  None = None
  ViewHistory <- HiddenHistory
  InitialRole <- OwnerOfLobby
  MaxChange = 2
  MaxAdmin = 1
SYMMETRY Interchangeable
INVARIANTS CommandAtMostOnce HeardAsMade
PROPERTIES ImplementsChangeLog
CHECK_DEADLOCK FALSE
