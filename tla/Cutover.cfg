\* Two accelerators and one migration over an exclusive and a shared backing.
CONSTANTS
  MaxTenants = 1  MaxVirtuals = 2  MaxLeases = 0  MaxAssignments = 3  MaxMigrations = 1
  MaxGeneration = 5  MaxRefreshes = 1  MaxPhysicalGeneration = 1
  MaxPolicyGeneration = 1  MaxEpoch = 1  MaxLeaseGeneration = 1
  d1 = d1  d2 = d2  b1 = b1  b2 = b2  b3 = b3
  Devices = {d1}  Backings = {b1, b2}  NoBacking = NoBacking
  DeviceOf <- OneDevice  Exclusive = {b1}  Capacity <- UnitCapacity
  Contracts <- UnitContract  Policies <- NoPolicies  DefaultPolicy <- OversubscribedPolicy
  AllocationSizes <- NoSizes
SPECIFICATION FleetSpec
INVARIANTS
  AuthoritativeIsCurrent
  HolderIsAuthoritative
PROPERTIES
  AuthorityIsNeverRegained
  LifecycleFollowsTable
CHECK_DEADLOCK FALSE
