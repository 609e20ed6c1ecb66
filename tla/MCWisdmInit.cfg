SPECIFICATION Spec
CONSTANTS
  old = old
  new = new
  r1 = r1
  r2 = r2
  Request <- MCRequest
  Key = {old, new}
  BodiesOf <- MCBodiesOf
  InitiallyHeld = {old}
  Environments <- MCEnvironments
  MaxRetryAttempts = 1
INVARIANTS
  TypeOK
  FinalizeOnlyWhenComplete
  ReportIsTrue
  NothingLostUnlessAsked
  SoloRunLeavesItsRecords
PROPERTIES
  RequestEnds
CHECK_DEADLOCK FALSE
