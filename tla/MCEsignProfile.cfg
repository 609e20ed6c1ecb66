SPECIFICATION FairEsignSpec
CONSTANTS
  c1 = c1
  c2 = c2
  citizen = citizen
  Call <- MCCall
  Ssn <- MCSsn
  Settings <- MCSettings
  FaultStatuses = {200, 500}
  PageStatuses = {200, 503}
  MaxRetryAttempts = 1
INVARIANTS
  EsignTypeOK
  AnswerHolds
  SuccessWasCarriedOut
PROPERTY
  EsignCallSettles
CHECK_DEADLOCK FALSE
