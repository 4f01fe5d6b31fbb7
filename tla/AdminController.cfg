SPECIFICATION Spec
CONSTANTS
  admin = admin
  other = other
  Controller = Controller
  Accounts = {admin, other}
  InitialAdmin = admin
  InitialDelay = 1
  MIN_TIMELOCK = 1
  MAX_TIMELOCK = 2
  ACTION_EXPIRY = 1
  RoleGrants <- Grants
  Delays = {0, 1, 3}
  MaxTime = 3
  MaxQueued = 2
PROPERTIES ExecutedIsFinal CancelledIsFinal TimelockRespected
CHECK_DEADLOCK FALSE
