\* Two accelerators, a policy limit below the size of the fleet, and a restart.
CONSTANTS
  MaxTenants = 1  MaxVirtuals = 2  MaxLeases = 0  MaxAssignments = 1  MaxMigrations = 0
  MaxGeneration = 4  MaxRefreshes = 1  MaxPhysicalGeneration = 1
  MaxPolicyGeneration = 2  MaxEpoch = 2  MaxLeaseGeneration = 1
  d1 = d1  d2 = d2  b1 = b1  b2 = b2  b3 = b3
  Devices = {d1}  Backings = {b1, b2}  NoBacking = NoBacking
  DeviceOf <- OneDevice  Exclusive = {b1}  Capacity <- UnitCapacity
  Contracts <- UnitContract  Policies <- TightPolicies  DefaultPolicy <- OpenPolicy
  AllocationSizes <- NoSizes
SPECIFICATION FleetSpec
INVARIANTS
  RestartIsNeverRefused
CHECK_DEADLOCK FALSE
