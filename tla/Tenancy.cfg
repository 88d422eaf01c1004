\* Two accelerators on one shared backing that change hands between two tenants.
CONSTANTS
  MaxTenants = 2  MaxVirtuals = 2  MaxLeases = 2  MaxAssignments = 2  MaxMigrations = 0
  MaxGeneration = 6  MaxRefreshes = 1  MaxPhysicalGeneration = 1
  MaxPolicyGeneration = 1  MaxEpoch = 1  MaxLeaseGeneration = 1
  d1 = d1  d2 = d2  b1 = b1  b2 = b2  b3 = b3
  Devices = {d1}  Backings = {b2}  NoBacking = NoBacking
  DeviceOf <- OneDevice  Exclusive = {}  Capacity <- UnitCapacity
  Contracts <- UnitContract  Policies <- NoPolicies  DefaultPolicy <- OversubscribedPolicy
  AllocationSizes <- NoSizes
SPECIFICATION FleetSpec
INVARIANTS
  TypeOK
  HonouredLeaseIsBacked
  AttachmentsAreLiveLeases
  FencedTenantHoldsNothing
  AuditStaysSilent
CHECK_DEADLOCK FALSE
