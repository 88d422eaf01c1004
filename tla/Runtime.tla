------------------------------- MODULE Runtime -------------------------------
(***************************************************************************)
(* The virtualization runtime: every operation of                          *)
(* src/include/av/runtime.hpp over one durable state, interleaved with     *)
(* crashes, restarts and device loss.                                      *)
(***************************************************************************)
EXTENDS Tenancy, Devices, Accelerators, Bindings, Attachments, Recovery, Governance

\* start() on an empty store
Init ==
  /\ running = "up"
  /\ epoch = 1
  /\ policy = DefaultPolicy
  /\ policy_generation = 1
  /\ tenants = [t \in TenantIds |-> NoTenant]
  /\ physical = [d \in Devices |-> NoPhysical]
  /\ backings = [b \in Backings |-> FreshBacking]
  /\ virtuals = [v \in VirtualIds |-> NoVirtual]
  /\ leases = [l \in LeaseIds |-> NoLease]
  /\ assignments = [a \in AssignmentIds |-> NoAssignment]
  /\ migrations = [m \in MigrationIds |-> NoMigration]

TenancyStep ==
  \/ \E t \in TenantIds : CreateTenant(t)
  \/ \E t \in TenantIds : FenceTenant(t)
  \/ \E v \in VirtualIds, t \in TenantIds : TransferOwnership(v, t)

DeviceStep ==
  \/ \E d \in Devices, listed \in SUBSET Backings : RegisterPhysical(d, listed)
  \/ \E d \in Devices, listed \in SUBSET Backings : ReplacePhysical(d, listed)
  \/ \E d \in Devices : PhysicalLost(d)

LifecycleStep ==
  \/ \E v \in VirtualIds, t \in TenantIds, c \in Contracts : CreateVirtual(v, t, c)
  \/ \E v \in VirtualIds, c \in Contracts : UpdateContract(v, c)
  \/ \E v \in VirtualIds : Activate(v)
  \/ \E v \in VirtualIds : Drain(v)
  \/ \E v \in VirtualIds : ResolveRecovery(v)
  \/ \E v \in VirtualIds : Suspend(v)
  \/ \E v \in VirtualIds : Resume(v)
  \/ \E v \in VirtualIds : FenceVirtual(v)
  \/ \E v \in VirtualIds : RetireVirtual(v)

BindingStep ==
  \/ \E v \in VirtualIds, b \in Backings, a \in AssignmentIds : AssignBacking(v, b, a)
  \/ \E v \in VirtualIds, b \in Backings, a \in AssignmentIds : ReplaceBacking(v, b, a)

AttachmentStep ==
  \/ \E v \in VirtualIds, l \in LeaseIds : Attach(v, l)
  \/ \E l \in LeaseIds : RenewLease(l)
  \/ \E l \in LeaseIds : Detach(l)
  \/ \E l \in LeaseIds, bytes \in AllocationSizes : ReserveAllocation(l, bytes)
  \/ \E v \in VirtualIds, bytes \in AllocationSizes : ReleaseAllocation(v, bytes)

MigrationStep ==
  \/ \E v \in VirtualIds, b \in Backings, m \in MigrationIds : PlanMigration(v, b, m)
  \/ \E m \in MigrationIds, a \in AssignmentIds : PrepareMigration(m, a)
  \/ \E m \in MigrationIds : CommitMigration(m)
  \/ \E m \in MigrationIds : CompleteMigration(m)
  \/ \E m \in MigrationIds : AbortMigration(m)

PolicyStep == \E p \in Policies : SetPolicy(p)

ProcessStep == Crash \/ Shutdown \/ Start \/ RefuseStart \/ ClassifyRecoveredMigrations

Next ==
  \/ TenancyStep \/ DeviceStep \/ LifecycleStep \/ BindingStep
  \/ AttachmentStep \/ MigrationStep \/ PolicyStep \/ ProcessStep

Spec == Init /\ [][Next]_vars
=============================================================================
