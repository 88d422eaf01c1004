\* One accelerator over one device, from the empty store, with a restart.
CONSTANTS
  MaxTenants = 1  MaxVirtuals = 1  MaxLeases = 2  MaxAssignments = 2  MaxMigrations = 0
  MaxGeneration = 6  MaxRefreshes = 2  MaxPhysicalGeneration = 2
  MaxPolicyGeneration = 1  MaxEpoch = 2  MaxLeaseGeneration = 2
  d1 = d1  d2 = d2  b1 = b1  b2 = b2  b3 = b3
  Devices = {d1}  Backings = {b1, b2}  NoBacking = NoBacking
  DeviceOf <- OneDevice  Exclusive = {b1}  Capacity <- UnitCapacity
  Contracts <- UnitContract  Policies <- NoPolicies  DefaultPolicy <- OpenPolicy
  AllocationSizes <- Sizes
SPECIFICATION AuditedSpec
INVARIANTS
  AuthoritativeIsCurrent
  AttachedIsEarned
  HonouredLeaseIsBacked
  RetiredHoldsNothing
  AuditStaysSilent
PROPERTIES
  LifecycleFollowsTable
  MutationAdvancesGeneration
CHECK_DEADLOCK FALSE
