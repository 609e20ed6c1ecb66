SPECIFICATION Spec
CONSTANTS
  old = old
  new = new
  r1 = r1
  r2 = r2
  Request <- MCRequest
  Key = {old, new}
  BodiesOf <- TwoInitializations
  InitiallyHeld = {old}
  Environments <- MCEnvironments
  MaxRetryAttempts = 1
PROPERTY
  AbortLeavesPreviousData
CHECK_DEADLOCK FALSE
