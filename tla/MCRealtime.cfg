\* Presence, sessions, typing, the Redis subscriber and alerts.
SPECIFICATION MCSpec
CONSTANTS
  Socket = {s1, s2}
  Instance = {i1, i2}
  GraceSettings = {TRUE, FALSE}
  MaxTurns = 2
  MaxFaults = 1
  Session = {s1, s2}
  Limit = 1
  Attempts = 2
  MaxChanges = 1
  MaxRemote = 1
  MaxOutages = 2
  Keyboard = {s1, s2}
  Frame = {f1, f2}
  MaxConnections = 6
  MaxCalls = 2
  MaxTrouble = 3
  Contact = {c1, c2}
  Check = {k1, k2}
  Place <- TwoPlaces
  Inactive = {TRUE, FALSE}
  MaxMishaps = 1
INVARIANTS
  SlotsCounted
  TypingFollowsSockets FramesAccountedFor EachAlertedOnce
PROPERTIES
  PresenceIsTrue SubscriptionsFollow SubscriptionsRestored IncidentCloses
CHECK_DEADLOCK FALSE
