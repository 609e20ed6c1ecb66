\* Searches with every kind of score: one that is no number goes with the widest.
SPECIFICATION GatewaySpec
CONSTANTS
  Requests <- MCRequests
  AnswersTo <- MCAnswersTo
INVARIANTS
  ScoreNotCoerced
CHECK_DEADLOCK FALSE
