\* As documented, every field of a record is sent to INTERPOL.
SPECIFICATION GatewaySpec
CONSTANTS
  Requests <- WisdmRequests
  AnswersTo <- MCAnswersTo
INVARIANT EveryFieldSent
CHECK_DEADLOCK FALSE
