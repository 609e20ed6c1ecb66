SPECIFICATION Spec
CONSTANTS
  search = search
  details = details
  licenses = licenses
  vehicles = vehicles
  interpol = interpol
  roadPolice = roadPolice
  sameId = sameId
  Call <- MCCall
  Request <- MCRequest
  RequestOf <- MCRequestOf
  RequestId <- MCRequestId
  MethodOf <- MCMethodOf
  AcceptsAnyStatus = {details}
  OwnTimeout = {search, details, licenses}
  DefaultTimeoutMs = 0
  Environments <- MCEnvironments
  RefusedCodes = {}
  BrokenCodes = {}
  HttpExceptions = {404}
  Statuses = {200}
  MAX_TRACKED_UPSTREAM_CALLS = 50
  MaxRetryAttempts = 0
  MaxNow = 1
  Parallel = {roadPolice}
  RouteOf <- MCRouteOf
INVARIANT
  UpstreamTimeWithinDuration
CHECK_DEADLOCK FALSE
