\* One request of every kind, over all the answers that differ in what decides.
\* The run ends with the reply.
SPECIFICATION GatewaySpec
CONSTANTS
  Requests <- MCRequests
  AnswersTo <- MCAnswersTo
INVARIANTS
  GatewayTypeOK
  SentDatesConsistent
  OkMeansAccepted
  ActsOnTheFoundRecord
  OwnRecordReadsBack
  CriteriaKept
  PersonsFit
  ChildrenUnderSixteen
  
  EmployersDisclosed
  ActivityAsAsked
CHECK_DEADLOCK FALSE
