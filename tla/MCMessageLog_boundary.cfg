\* An admin sends while an applicant is approved, leaves and reads.
SPECIFICATION Spec
CONSTANTS
  alice = alice
  lobby = lobby
  annex = annex
  User = {alice, bob}
  Room = {lobby}
  MessageId = {m1, m2}
  Command = {k1}
  ReadCommand = {q1}
  Worker = {w1, w2}
  None = None
  ViewHistory <- HiddenHistory
  InitialRole <- AdminAndApplicants
  MaxChange = 2
  MaxAdmin = 2
SYMMETRY Interchangeable
PROPERTIES BoundarySplitsHistory
CHECK_DEADLOCK FALSE
