------------------------------ MODULE MCRuntime ------------------------------
(***************************************************************************)
(* Small fleets for TLC.                                                   *)
(***************************************************************************)
EXTENDS Audit, Placement

CONSTANTS d1, d2, b1, b2, b3

\* b1 and b2 are offered by the first device, b3 by the second.
OneDevice  == [b \in Backings |-> d1]
TwoDevices == [b \in Backings |-> IF b = b3 THEN d2 ELSE d1]
UnitCapacity == [b \in Backings |-> 1]

NoSizes == {}
Sizes == {1}

(***************************************************************************)
(* The descriptors: b1 claims nothing about memory; b2 and b3 do.  The     *)
(* demands are what clients and the operator submit; what they permit is   *)
(* Placement's verdict.                                                    *)
(***************************************************************************)
Descriptor(b) ==
  [klass |-> "SyntheticHardwarePartition", multiplexing |-> "HardwarePartitioned",
   provenance |-> "Synthetic", capability_rank |-> 12, exclusive |-> b \in Exclusive,
   isolation |-> [dimension \in {"TenantState", "AdminControl", "Performance"}
                               \cup (IF b = b1 THEN {} ELSE {"Memory"}) |-> Partial]]

ContractDemands ==
  [allowed_backing_classes |-> {}, allowed_multiplexing_modes |-> {"HardwarePartitioned"},
   minimum_backing_rank |-> 10, exclusivity_required |-> FALSE, oversubscription_allowed |-> FALSE,
   compute_share_milli |-> 500, max_streams |-> 4, max_concurrency |-> 4,
   allowed_migration_classes |-> {},
   required_isolation |-> {Requirement("Performance", Shared)}]

DefaultDemands ==
  [allowed_backing_classes |-> {"SyntheticHardwarePartition"}, synthetic_backing_allowed |-> TRUE,
   tenant_sharing |-> "Shared", allowed_migration_classes |-> {"RebindOnly", "DrainAndRestart"},
   max_attachments_per_virtual |-> 2, max_compute_share_milli |-> 1000,
   max_virtual_accelerators |-> 1, max_tenants |-> 1, max_memory_ceiling_bytes |-> 1,
   required_isolation |-> {Requirement("TenantState", Partial), Requirement("AdminControl", Partial)}]
MemoryDemands ==
  [DefaultDemands EXCEPT !.required_isolation = @ \cup {Requirement("Memory", Shared)}]
\* A contract of the same terms that must have its backing to itself.
ExclusiveDemands == [ContractDemands EXCEPT !.exclusivity_required = TRUE]

\* normalize() and validate() leave the demands as they are.
ASSUME DemandsAreStorable ==
  /\ \A c \in {ContractDemands, ExclusiveDemands} : ContractIsValid(c) /\ Normalized(c) = {c}
  /\ \A p \in {DefaultDemands, MemoryDemands} : PolicyIsValid(p) /\ Normalized(p) = {p}

AContract(ceiling) ==
  [permits |-> {b \in Backings : PermittedByContract(ContractDemands, Descriptor(b))},
   memory_ceiling_bytes |-> ceiling,
   migration_allowed |-> TRUE, oversubscription_allowed |-> FALSE]
UnitContract == {AContract(1)}
TwoContracts ==
  {AContract(1),
   [AContract(1) EXCEPT
      !.permits = {b \in Backings : PermittedByContract(ExclusiveDemands, Descriptor(b))}]}

OpenPolicy ==
  [permits |-> {b \in Backings : PermittedByPolicy(DefaultDemands, Descriptor(b))},
   max_memory_ceiling_bytes |-> 1,
   max_virtual_accelerators |-> MaxVirtuals, max_attachments_per_virtual |-> 2,
   migration_allowed |-> TRUE, oversubscription_allowed |-> FALSE]
OversubscribedPolicy == [OpenPolicy EXCEPT !.oversubscription_allowed = TRUE]
\* The policy demands a dimension of which b1 proves nothing.
NarrowPolicy ==
  [OpenPolicy EXCEPT
     !.permits = {b \in Backings : PermittedByPolicy(MemoryDemands, Descriptor(b))}]
\* A limit below the size the fleet may already have, and no migration.
TightPolicy == [OpenPolicy EXCEPT !.max_virtual_accelerators = 1, !.migration_allowed = FALSE]

\* The demands behind the policy in force.
Demands == IF policy = NarrowPolicy THEN MemoryDemands ELSE DefaultDemands

NoPolicies == {}
TightPolicies == {NarrowPolicy, TightPolicy}

-----------------------------------------------------------------------------
(***************************************************************************)
(* A fleet that start(), RegisterPhysical, CreateTenant and CreateVirtual  *)
(* have just built: every device reported, every tenant and accelerator    *)
(* created, accelerators owned by the first tenant.                        *)
(***************************************************************************)
FleetInit ==
  /\ running = "up"
  /\ epoch = 1
  /\ policy = DefaultPolicy
  /\ policy_generation = 1
  /\ physical = [d \in Devices |-> [generation |-> 1, present |-> TRUE]]
  /\ backings = [b \in Backings |-> [FreshBacking EXCEPT !.generation = 1, !.available = TRUE,
                                                         !.physical_generation = 1]]
  /\ tenants = [t \in TenantIds |->
                  [NoTenant EXCEPT !.generation = 1,
                                   !.owned = IF t = 1 THEN VirtualIds ELSE {}]]
  /\ \E c \in Contracts :
       virtuals = [v \in VirtualIds |->
                     [NoVirtual EXCEPT !.generation = 1, !.state = "Provisioned",
                                       !.owner = 1, !.owner_generation = 1, !.contract = c]]
  /\ leases = [l \in LeaseIds |-> NoLease]
  /\ assignments = [a \in AssignmentIds |-> NoAssignment]
  /\ migrations = [m \in MigrationIds |-> NoMigration]

AuditedFleet == FleetInit /\ AuditInit

FleetSpec == AuditedFleet /\ [][AuditedNext]_auditVars

\* An accelerator stands on a backing that proves, in every dimension its
\* contract and the policy in force require, at least what they require: the
\* demand is met when the backing is assigned or migrated to, and again by every
\* set_policy, and an unproven dimension never meets it (README 182-184).
IsolationIsProvided ==
  \A v \in VirtualIds : HoldsAuthority(v) =>
     \A r \in ContractDemands.required_isolation \cup Demands.required_isolation :
        LET claims == Descriptor(virtuals[v].backing).isolation IN
        r.dimension \in DOMAIN claims /\ claims[r.dimension] >= r.minimum
=============================================================================
