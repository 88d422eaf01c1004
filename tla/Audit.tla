-------------------------------- MODULE Audit --------------------------------
(***************************************************************************)
(* What the runtime derives from its records and keeps beside them, and    *)
(* the rules by which run_invariant_audit (src/src/invariant.cpp) judges   *)
(* the whole state.  The operations of Runtime are taken as they are; each *)
(* is given what it does to the counters (recompute_derived_accounting and *)
(* the increments scattered over runtime.cpp) and to the capability        *)
(* projection of an accelerator (rebuild_projection, build_projection).    *)
(*                                                                         *)
(* Of a projection the model keeps what it is bound to and the capability  *)
(* it derives from both contract and policy, migration support; of the     *)
(* counters the three gauges that the audit compares with the records.     *)
(***************************************************************************)
EXTENDS Properties

VARIABLES
  accounting,   \* virtual_active, attachments_active, bytes_allocated_current
  projections   \* by accelerator: VirtualAcceleratorRecord::projection

auditVars == <<vars, accounting, projections>>

-----------------------------------------------------------------------------
(* The counters.                                                           *)

\* The sum of a field over the accelerators, as the number of pairs of an
\* accelerator and one of its units.
Sum(field(_)) == Cardinality(UNION {{v} \X (1..field(v)) : v \in VirtualIds})

\* The accelerators that count as active.
Counted == {v \in VirtualIds : /\ VirtualExists(v)
                              /\ virtuals[v].state \notin {"Retired", "Suspended", "Fenced"}}

\* recompute_derived_accounting
Derived ==
  [virtual_active |-> Cardinality(Counted),
   attachments_active |-> Sum(LAMBDA v : virtuals[v].active_attachments),
   bytes_allocated_current |-> Sum(LAMBDA v : virtuals[v].allocated_bytes)]

\* Mutant: the records change and the gauges stay.
RecomputeNothing == UNCHANGED accounting

Recompute == accounting' = Derived'

\* Mutant: fence_leases ends the leases and leaves the gauge.
AccountForgets(v) == UNCHANGED accounting

\* fence_leases
AccountFenced(v) ==
  accounting' = [accounting EXCEPT !.attachments_active = Minus(@, Cardinality(LiveLeases(v)))]

AccountCreated == accounting' = [accounting EXCEPT !.virtual_active = @ + 1]
AccountAttached == accounting' = [accounting EXCEPT !.attachments_active = @ + 1]
AccountDetached == accounting' = [accounting EXCEPT !.attachments_active = Minus(@, 1)]
AccountReserved(bytes) ==
  accounting' = [accounting EXCEPT !.bytes_allocated_current = @ + bytes]
AccountReleased(bytes) ==
  accounting' = [accounting EXCEPT !.bytes_allocated_current = Minus(@, bytes)]

-----------------------------------------------------------------------------
(* The projections.                                                        *)

NoProjection == [contract |-> NoVirtual.contract, backing_generation |-> 0,
                 policy_generation |-> 0, migration_support |-> FALSE]

\* Mutant: the projection is bound to the revision of the backing's record.
ProjectionOfRevision(v) ==
  [contract |-> virtuals[v].contract,
   backing_generation |-> IF BackingExists(virtuals[v].backing)
                          THEN backings[virtuals[v].backing].generation ELSE 0,
   policy_generation |-> policy_generation, migration_support |-> MigrationPermitted(v)]

\* build_projection and rebuild_projection, from the record, the policy and the backing of v.
Projection(v) ==
  [contract |-> virtuals[v].contract, backing_generation |-> virtuals[v].backing_generation,
   policy_generation |-> policy_generation, migration_support |-> MigrationPermitted(v)]

\* Mutant: set_policy rebuilds the projections of bound accelerators only.
RebuildBound(V) ==
  projections' = [v \in VirtualIds |->
                    IF v \in V /\ virtuals'[v].assignment # 0 THEN Projection(v)'
                    ELSE projections[v]]

\* rebuild_projection of the accelerators in V, at the end of the operation.
Rebuild(V) ==
  projections' = [v \in VirtualIds |-> IF v \in V THEN Projection(v)' ELSE projections[v]]

-----------------------------------------------------------------------------
(* The operations, by what they do to the two.                             *)

AuditInit ==
  /\ accounting = Derived
  /\ projections = [v \in VirtualIds |-> IF VirtualExists(v) THEN Projection(v) ELSE NoProjection]

\* Neither changes.
Unaudited ==
  /\ \/ \E t \in TenantIds : CreateTenant(t)
     \/ \E d \in Devices, listed \in SUBSET Backings : RegisterPhysical(d, listed)
     \/ \E d \in Devices, listed \in SUBSET Backings : ReplacePhysical(d, listed)
     \/ \E v \in VirtualIds : Drain(v) \/ ResolveRecovery(v)
     \/ \E l \in LeaseIds : RenewLease(l)
     \/ \E v \in VirtualIds, b \in Backings, m \in MigrationIds : PlanMigration(v, b, m)
     \/ \E m \in MigrationIds : CompleteMigration(m) \/ AbortMigration(m)
     \/ Crash \/ RefuseStart \/ ClassifyRecoveredMigrations
  /\ UNCHANGED <<accounting, projections>>

\* The gauges move by increments.
Incremented ==
  /\ \/ \E v \in VirtualIds, t \in TenantIds : TransferOwnership(v, t) /\ AccountFenced(v)
     \/ \E m \in MigrationIds, a \in AssignmentIds :
          PrepareMigration(m, a) /\ AccountFenced(migrations[m].virtual)
     \/ \E v \in VirtualIds, l \in LeaseIds : Attach(v, l) /\ AccountAttached
     \/ \E l \in LeaseIds : Detach(l) /\ AccountDetached
     \/ \E l \in LeaseIds, n \in AllocationSizes : ReserveAllocation(l, n) /\ AccountReserved(n)
     \/ \E v \in VirtualIds, n \in AllocationSizes : ReleaseAllocation(v, n) /\ AccountReleased(n)
  /\ UNCHANGED projections

\* The gauges are recomputed from the records the operation leaves.
Recomputed ==
  /\ \/ \E t \in TenantIds : FenceTenant(t)
     \/ \E d \in Devices : PhysicalLost(d)
     \/ \E v \in VirtualIds : Activate(v) \/ Resume(v) \/ FenceVirtual(v)
     \/ Start \/ Shutdown
  /\ Recompute
  /\ UNCHANGED projections

\* The projection is rebuilt, with either treatment of the gauges.
Rebuilt ==
  \/ \E v \in VirtualIds, t \in TenantIds, c \in Contracts :
       CreateVirtual(v, t, c) /\ Rebuild({v}) /\ AccountCreated
  \/ \E v \in VirtualIds, c \in Contracts :
       UpdateContract(v, c) /\ Rebuild({v}) /\ UNCHANGED accounting
  \/ \E v \in VirtualIds, b \in Backings, a \in AssignmentIds :
       \/ AssignBacking(v, b, a) /\ Rebuild({v}) /\ UNCHANGED accounting
       \/ ReplaceBacking(v, b, a) /\ Rebuild({v}) /\ AccountFenced(v)
  \/ \E m \in MigrationIds :
       CommitMigration(m) /\ Rebuild({migrations[m].virtual}) /\ UNCHANGED accounting
  \/ \E v \in VirtualIds : (Suspend(v) \/ RetireVirtual(v)) /\ Rebuild({v}) /\ Recompute
  \/ \E p \in Policies : SetPolicy(p) /\ Rebuild(Governed) /\ Recompute

AuditedNext == Unaudited \/ Incremented \/ Recomputed \/ Rebuilt

AuditedInit == Init /\ AuditInit

AuditedSpec == AuditedInit /\ [][AuditedNext]_auditVars

-----------------------------------------------------------------------------
(***************************************************************************)
(* run_invariant_audit, one operator per rule or section.  What a record   *)
(* holds by its shape (a map key equal to the identity in the record, a    *)
(* generation that is set) is left out, as are contracts and isolation.    *)
(***************************************************************************)

Known == {v \in VirtualIds : VirtualExists(v)}
LiveOnes == {l \in LeaseIds : LeaseIsLive(l)}

OwnersResolve ==
  \A v \in Known : /\ TenantExists(virtuals[v].owner)
                   /\ virtuals[v].owner_generation = tenants[virtuals[v].owner].generation

FencedTenantNoAuthority ==
  \A v \in Known : tenants[virtuals[v].owner].fenced =>
     virtuals[v].active_attachments = 0 /\ LiveLeases(v) = {}

PhysicalGenerationValid ==
  \A b \in Backings : BackingExists(b) =>
     backings[b].physical_generation = physical[DeviceOf[b]].generation

AssignmentsResolve ==
  \A a \in AssignmentIds : assignments[a].virtual # 0 =>
     assignments[a].virtual \in Known /\ BackingExists(assignments[a].backing)

Authoritative == {a \in AssignmentIds : assignments[a].authoritative}

OneAssignmentEach ==
  \A a1, a2 \in Authoritative : assignments[a1].virtual = assignments[a2].virtual => a1 = a2

OneHolderIfExclusive ==
  \A a1, a2 \in Authoritative :
     assignments[a1].backing = assignments[a2].backing /\ assignments[a1].backing \in Exclusive
       => a1 = a2

BackingHolderConsistent ==
  \A v \in Known : virtuals[v].backing \in Exclusive =>
     backings[virtuals[v].backing].assigned_to \in {0, v}

NoStaleBackingActive ==
  \A v \in Known :
     /\ virtuals[v].state \in AttachedStates => HoldsAuthority(v)
     /\ virtuals[v].backing # NoBacking => virtuals[v].backing_generation # 0

RetiredHoldsNoLease ==
  \A v \in Known : virtuals[v].state = "Retired" =>
     /\ virtuals[v].active_attachments = 0
     /\ virtuals[v].backing = NoBacking /\ virtuals[v].assignment = 0

LeaseGenerationBound ==
  \A l \in LiveOnes :
     LET r == virtuals[leases[l].virtual] IN
     /\ leases[l].virtual_generation = r.generation
     /\ leases[l].backing_generation = r.backing_generation
     /\ r.state \in AttachedStates

LeaseAuthorityCurrent ==
  \A l \in LiveOnes : leases[l].policy_generation = policy_generation /\ leases[l].epoch = epoch

ProjectionConsistent ==
  \A v \in Known :
     /\ projections[v].contract = virtuals[v].contract
     /\ projections[v].backing_generation = virtuals[v].backing_generation
     /\ virtuals[v].state # "Retired" => projections[v].policy_generation = policy_generation

MigrationEndpointsPresent ==
  \A m \in MigrationIds : MigrationExists(m) =>
     /\ migrations[m].virtual \in Known
     /\ BackingExists(migrations[m].source_backing)
     /\ BackingExists(migrations[m].destination_backing)

PastCutover == {m \in MigrationIds : MigrationExists(m) /\ AfterCutover(migrations[m].state)}

NoSourceAuthorityAfterCutover ==
  \A m \in PastCutover : ~assignments[migrations[m].source_assignment].authoritative

DestinationAuthorityAfterCutover ==
  \A m \in PastCutover : assignments[migrations[m].destination_assignment].authoritative

AttachmentCountConsistent ==
  \A v \in Known : virtuals[v].active_attachments = Cardinality(LiveLeases(v))

OwnedByTenant ==
  \A t \in TenantIds : \A v \in tenants[t].owned : v \in Known /\ virtuals[v].owner = t

TenantCountConsistent ==
  \A t \in TenantIds :
     tenants[t].active_attachments = TotalAttachments(tenants[t].owned, virtuals)

VirtualActiveCloses == accounting.virtual_active = Derived.virtual_active

GaugesClose ==
  /\ accounting.attachments_active = Derived.attachments_active
  /\ accounting.bytes_allocated_current = Derived.bytes_allocated_current

\* run_invariant_audit: the rules it applies and what each says.
RuleNames ==
  {"OwnersResolve", "OwnedByTenant", "FencedTenantNoAuthority",
   "PhysicalGenerationValid", "AssignmentsResolve", "OneAssignmentEach",
   "OneHolderIfExclusive", "BackingHolderConsistent", "NoStaleBackingActive",
   "RetiredHoldsNoLease", "LeaseGenerationBound", "LeaseAuthorityCurrent",
   "ProjectionConsistent", "MigrationEndpointsPresent",
   "NoSourceAuthorityAfterCutover", "DestinationAuthorityAfterCutover",
   "AttachmentCountConsistent", "TenantCountConsistent", "VirtualActiveCloses",
   "GaugesClose"}

Holds(rule) ==
  CASE rule = "OwnersResolve" -> OwnersResolve
    [] rule = "OwnedByTenant" -> OwnedByTenant
    [] rule = "FencedTenantNoAuthority" -> FencedTenantNoAuthority
    [] rule = "PhysicalGenerationValid" -> PhysicalGenerationValid
    [] rule = "AssignmentsResolve" -> AssignmentsResolve
    [] rule = "OneAssignmentEach" -> OneAssignmentEach
    [] rule = "OneHolderIfExclusive" -> OneHolderIfExclusive
    [] rule = "BackingHolderConsistent" -> BackingHolderConsistent
    [] rule = "NoStaleBackingActive" -> NoStaleBackingActive
    [] rule = "RetiredHoldsNoLease" -> RetiredHoldsNoLease
    [] rule = "LeaseGenerationBound" -> LeaseGenerationBound
    [] rule = "LeaseAuthorityCurrent" -> LeaseAuthorityCurrent
    [] rule = "ProjectionConsistent" -> ProjectionConsistent
    [] rule = "MigrationEndpointsPresent" -> MigrationEndpointsPresent
    [] rule = "NoSourceAuthorityAfterCutover" -> NoSourceAuthorityAfterCutover
    [] rule = "DestinationAuthorityAfterCutover" -> DestinationAuthorityAfterCutover
    [] rule = "AttachmentCountConsistent" -> AttachmentCountConsistent
    [] rule = "TenantCountConsistent" -> TenantCountConsistent
    [] rule = "VirtualActiveCloses" -> VirtualActiveCloses
    [] rule = "GaugesClose" -> GaugesClose

-----------------------------------------------------------------------------
(***************************************************************************)
(* The rules that legal operations break.  fence_tenant leaves the retired *)
(* accelerators of the tenant at its old generation; a new device in a     *)
(* slot leaves the backings it does not list at the old one; commit and    *)
(* set_policy let two accelerators name an exclusive backing; a changed    *)
(* contract or device leaves live leases at the old generation; suspending *)
(* after a migration ends its destination's authority; transfer_ownership  *)
(* clears the count of an owner that keeps other attachments; and          *)
(* resolve_recovery and assign_backing move in and out of Suspended without*)
(* recomputing virtual_active.                                             *)
(***************************************************************************)
BrokenByLegalOperations ==
  {"OwnersResolve", "PhysicalGenerationValid", "OneHolderIfExclusive", "BackingHolderConsistent",
   "LeaseGenerationBound", "DestinationAuthorityAfterCutover", "TenantCountConsistent",
   "VirtualActiveCloses"}

\* The audit of a serving coordinator reports no rule but those: whatever
\* operations have run, fenced tenants and retired accelerators hold nothing,
\* an accelerator has one assignment, live leases are of this policy and epoch,
\* projections follow their records, a cutover has left the source without
\* authority, and the attachment and byte gauges, which nine handlers move by
\* increments and ten recompute, agree with the records.
AuditStaysSilent ==
  running = "up" => \A rule \in RuleNames \ BrokenByLegalOperations : Holds(rule)

\* The projection an observer reads advertises migration exactly when
\* migration_capability would grant it, although only seven handlers rebuild
\* it (runtime.cpp 845-849, 2537).
ProjectionIsTruthful ==
  \A v \in Governed : projections[v].migration_support = MigrationPermitted(v)

\* Once start() has finished, every gauge agrees with the records, drifted or
\* not before: classifying the migrations afterwards does not undo the
\* recomputation (runtime.cpp 1826).
RestartClosesAccounting ==
  [][running = "recovering" /\ running' = "up" => accounting' = Derived']_auditVars
=============================================================================
