SPECIFICATION OutSpec
CONSTANTS
  lookup = lookup
  submit = submit
  r1 = r1
  Call <- MCCall
  Request = {r1}
  RequestOf <- MCRequestOf
  RequestId <- MCRequestId
  MethodOf <- MCMethodOf
  AcceptsAnyStatus = {}
  OwnTimeout = {submit}
  DefaultTimeoutMs = 15000
  Environments <- MCEnvironments
  RefusedCodes = {"ECONNREFUSED", "ETIMEDOUT"}
  BrokenCodes = {"ECONNRESET", "ERR_BAD_RESPONSE"}
  Statuses = {200, 503}
  MAX_TRACKED_UPSTREAM_CALLS = 1
  MaxRetryAttempts = 1
  MaxNow = 0
INVARIANT
  ProcessedOnceByDefault
CHECK_DEADLOCK FALSE
