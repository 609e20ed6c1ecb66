SPECIFICATION FairBootSpec
CONSTANTS
  i1 = i1
  i2 = i2
  Instance <- MCInstance
  RoutesOf <- MCRoutesOf
  Environments <- MCEnvironments
  MaxCrashes = 1
INVARIANTS
  BootTypeOK
  EveryRouteHasItsPermission
  OwnCredentialsAccepted
  ConflictOnlyInCompany
PROPERTY
  EveryInstanceServes
CHECK_DEADLOCK FALSE
