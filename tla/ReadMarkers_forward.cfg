\* A member list that is still on its way when a read_update comes.
SPECIFICATION MarkerSpec
CONSTANTS
  MaxMessage = 2
  MaxFailure = 0
  MaxVisits = 0
  MaxLoads = 1
PROPERTIES MarkersMoveForward
CHECK_DEADLOCK FALSE
