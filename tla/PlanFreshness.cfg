\* One accelerator planned for migration after its device was reported again.
CONSTANTS
  MaxTenants = 1  MaxVirtuals = 1  MaxLeases = 0  MaxAssignments = 3  MaxMigrations = 1
  MaxGeneration = 5  MaxRefreshes = 2  MaxPhysicalGeneration = 1
  MaxPolicyGeneration = 1  MaxEpoch = 1  MaxLeaseGeneration = 1
  d1 = d1  d2 = d2  b1 = b1  b2 = b2  b3 = b3
  Devices = {d1}  Backings = {b1, b2}  NoBacking = NoBacking
  DeviceOf <- OneDevice  Exclusive = {b1}  Capacity <- UnitCapacity
  Contracts <- UnitContract  Policies <- NoPolicies  DefaultPolicy <- OpenPolicy
  AllocationSizes <- NoSizes
SPECIFICATION FleetSpec
PROPERTIES
  NewPlanIsFresh
CHECK_DEADLOCK FALSE
