\* One accelerator migrating between two devices, with a restart at any point.
CONSTANTS
  MaxTenants = 1  MaxVirtuals = 1  MaxLeases = 1  MaxAssignments = 3  MaxMigrations = 2
  MaxGeneration = 6  MaxRefreshes = 1  MaxPhysicalGeneration = 1
  MaxPolicyGeneration = 1  MaxEpoch = 2  MaxLeaseGeneration = 1
  d1 = d1  d2 = d2  b1 = b1  b2 = b2  b3 = b3
  Devices = {d1, d2}  Backings = {b1, b3}  NoBacking = NoBacking
  DeviceOf <- TwoDevices  Exclusive = {b1}  Capacity <- UnitCapacity
  Contracts <- TwoContracts  Policies <- NoPolicies  DefaultPolicy <- OpenPolicy
  AllocationSizes <- NoSizes
SPECIFICATION FleetSpec
INVARIANTS
  MigratingHasOpenMigration
  
  
  AuditStaysSilent
PROPERTIES
  RestartSettles
  MigrationFollowsTable
  RestartClosesAccounting
CHECK_DEADLOCK FALSE
