-------------------------------- MODULE Model --------------------------------
(***************************************************************************)
(* The durable state of the virtualization runtime (VirtualizationState,   *)
(* src/include/av/model.hpp) and the helpers its operations share          *)
(* (src/src/runtime.cpp, 921-1630).  The operations themselves are in      *)
(* Tenancy, Devices, Accelerators, Bindings, Attachments, Migrations,      *)
(* Governance and Recovery; Runtime composes them.                         *)
(*                                                                         *)
(* One mutex serialises every operation and a successful operation is      *)
(* durable before it returns, so one operation is one step.  A map entry   *)
(* that does not exist is a default-constructed record: its generation, or *)
(* an assignment's accelerator, is 0.  Identities are issued in increasing *)
(* order; 0 is the invalid identity.                                       *)
(***************************************************************************)
EXTENDS Integers, FiniteSets, FiniteSetsExt, Lifecycle

CONSTANTS
  MaxTenants, MaxVirtuals, MaxLeases, MaxAssignments, MaxMigrations,
                        \* how many of each the fleet may ever hold
  MaxGeneration,        \* bound on an accelerator's generation
  MaxRefreshes,         \* bound on a backing's generation
  MaxPhysicalGeneration, MaxPolicyGeneration, MaxEpoch, MaxLeaseGeneration,
                        \* bounds on the other generations
  Devices, Backings, NoBacking,
  DeviceOf,             \* the device that offers each backing
  Exclusive,            \* the backings whose descriptor says exclusive
  Capacity,             \* capacity_bytes of each backing
  Contracts,            \* the resource contracts clients submit
  Policies,             \* the policies the operator submits
  DefaultPolicy,        \* the policy of a fresh coordinator
  AllocationSizes       \* the sizes clients reserve and release

ASSUME SizesAssumption ==
  /\ MaxTenants \in Nat /\ MaxVirtuals \in Nat /\ MaxLeases \in Nat
  /\ MaxAssignments \in Nat /\ MaxMigrations \in Nat
ASSUME BackingsAssumption ==
  /\ NoBacking \notin Backings
  /\ DeviceOf \in [Backings -> Devices]
  /\ Exclusive \subseteq Backings
  /\ Capacity \in [Backings -> Nat]

(***************************************************************************)
(* What a contract and a policy say about backings is abstracted to the    *)
(* set of backings they permit: their allowed classes, multiplexing modes, *)
(* provenance, minimum rank and isolation requirements, judged against     *)
(* the descriptor of each backing.                                         *)
(***************************************************************************)
Contract == [permits : SUBSET Backings, memory_ceiling_bytes : Nat,
             migration_allowed : BOOLEAN, oversubscription_allowed : BOOLEAN]
Policy == [permits : SUBSET Backings, max_memory_ceiling_bytes : Nat,
           max_virtual_accelerators : Nat, max_attachments_per_virtual : Nat,
           migration_allowed : BOOLEAN, oversubscription_allowed : BOOLEAN]

ASSUME InputsAssumption ==
  /\ Contracts \subseteq Contract /\ Contracts # {}
  /\ Policies \subseteq Policy /\ DefaultPolicy \in Policy
  /\ AllocationSizes \subseteq Nat

VARIABLES
  running,      \* "up", "down", "recovering" (start() between its two commits), "refused"
  epoch, policy, policy_generation,
  tenants, physical, backings, virtuals, leases, assignments, migrations

vars == <<running, epoch, policy, policy_generation, tenants, physical,
          backings, virtuals, leases, assignments, migrations>>

-----------------------------------------------------------------------------
TenantIds     == 1..MaxTenants
VirtualIds    == 1..MaxVirtuals
LeaseIds      == 1..MaxLeases
AssignmentIds == 1..MaxAssignments
MigrationIds  == 1..MaxMigrations

LeaseStates == {"Granted", "Active", "Revoked", "Expired", "Fenced", "Superseded"}
AssignmentStates == {"Proposed", "Validated", "Prepared", "Committed", "Active",
                     "Draining", "Revoked", "Superseded", "Failed"}

Tenant == [generation : Nat, fenced : BOOLEAN, active_attachments : Nat,
           owned : SUBSET VirtualIds]
Physical == [generation : Nat, present : BOOLEAN]
\* available stands for available and evidence_fresh, which every operation
\* writes together; exclusive and physical are the constants above.
Backing == [generation : Nat, physical_generation : Nat, available : BOOLEAN,
            assigned_to : {0} \cup VirtualIds,
            active_assignment : {0} \cup AssignmentIds]
VirtualAccelerator ==
  [generation : Nat, state : LifecycleStates,
   owner : {0} \cup TenantIds, owner_generation : Nat, contract : Contract,
   assignment : {0} \cup AssignmentIds, backing : {NoBacking} \cup Backings,
   backing_generation : Nat, physical_generation : Nat,
   migration : {0} \cup MigrationIds,
   active_attachments : Nat, allocated_bytes : Nat]
\* The lease list of an accelerator is the leases whose virtual field names it.
Lease == [generation : Nat, state : LeaseStates,
          virtual : {0} \cup VirtualIds, virtual_generation : Nat,
          tenant : {0} \cup TenantIds, tenant_generation : Nat,
          backing_generation : Nat, physical_generation : Nat,
          policy_generation : Nat, epoch : Nat]
Assignment == [virtual : {0} \cup VirtualIds, backing : {NoBacking} \cup Backings,
               backing_generation : Nat, state : AssignmentStates,
               authoritative : BOOLEAN]
Migration ==
  [generation : Nat, state : MigrationStates,
   virtual : {0} \cup VirtualIds, virtual_generation : Nat,
   source_backing : {NoBacking} \cup Backings, source_backing_generation : Nat,
   destination_backing : {NoBacking} \cup Backings, destination_backing_generation : Nat,
   tenant : {0} \cup TenantIds, tenant_generation : Nat,
   policy_generation : Nat, epoch : Nat,
   source_assignment : {0} \cup AssignmentIds,
   destination_assignment : {0} \cup AssignmentIds]

NoTenant == [generation |-> 0, fenced |-> FALSE, active_attachments |-> 0, owned |-> {}]
NoPhysical == [generation |-> 0, present |-> FALSE]
FreshBacking == [generation |-> 0, physical_generation |-> 0, available |-> FALSE,
                 assigned_to |-> 0, active_assignment |-> 0]
NoVirtual ==
  [generation |-> 0, state |-> "Created", owner |-> 0, owner_generation |-> 0,
   contract |-> CHOOSE c \in Contracts : TRUE, assignment |-> 0, backing |-> NoBacking,
   backing_generation |-> 0, physical_generation |-> 0, migration |-> 0,
   active_attachments |-> 0, allocated_bytes |-> 0]
NoLease ==
  [generation |-> 0, state |-> "Granted", virtual |-> 0, virtual_generation |-> 0,
   tenant |-> 0, tenant_generation |-> 0, backing_generation |-> 0,
   physical_generation |-> 0, policy_generation |-> 0, epoch |-> 0]
NoAssignment == [virtual |-> 0, backing |-> NoBacking, backing_generation |-> 0,
                 state |-> "Proposed", authoritative |-> FALSE]
NoMigration ==
  [generation |-> 0, state |-> "Planned", virtual |-> 0, virtual_generation |-> 0,
   source_backing |-> NoBacking, source_backing_generation |-> 0,
   destination_backing |-> NoBacking, destination_backing_generation |-> 0,
   tenant |-> 0, tenant_generation |-> 0, policy_generation |-> 0, epoch |-> 0,
   source_assignment |-> 0, destination_assignment |-> 0]
-----------------------------------------------------------------------------
\* next_id: identities are issued in increasing order and never reused.
IsNextTenant(t)     == t \in TenantIds /\ tenants[t].generation = 0
                       /\ \A u \in 1..(t - 1) : tenants[u].generation # 0
IsNextVirtual(v)    == v \in VirtualIds /\ virtuals[v].generation = 0
                       /\ \A u \in 1..(v - 1) : virtuals[u].generation # 0
IsNextLease(l)      == l \in LeaseIds /\ leases[l].generation = 0
                       /\ \A k \in 1..(l - 1) : leases[k].generation # 0
IsNextAssignment(a) == a \in AssignmentIds /\ assignments[a].virtual = 0
                       /\ \A c \in 1..(a - 1) : assignments[c].virtual # 0
IsNextMigration(m)  == m \in MigrationIds /\ migrations[m].generation = 0
                       /\ \A k \in 1..(m - 1) : migrations[k].generation # 0

TenantExists(t)    == t \in TenantIds /\ tenants[t].generation # 0
VirtualExists(v)   == v \in VirtualIds /\ virtuals[v].generation # 0
BackingExists(b)   == b \in Backings /\ backings[b].generation # 0
LeaseExists(l)     == l \in LeaseIds /\ leases[l].generation # 0
MigrationExists(m) == m \in MigrationIds /\ migrations[m].generation # 0

\* The bound on the generation that an operation advances by one.
CanAdvance(v) == virtuals[v].generation < MaxGeneration

(***************************************************************************)
(* A client operation names an existing accelerator, its exact generation, *)
(* the current epoch and the current generation of the tenant it acts for; *)
(* any other request is refused and changes nothing but logs and counters, *)
(* so only the exact request is a step.  resolve_tenant, resolve_virtual   *)
(* and require_owner then leave:                                           *)
(***************************************************************************)
RequireOwner(v) ==
  /\ running = "up"
  /\ VirtualExists(v)
  /\ virtuals[v].owner_generation = tenants[virtuals[v].owner].generation
  /\ ~tenants[virtuals[v].owner].fenced

RequireMutable(v) == AcceptsMutation(virtuals[v].state)

\* lease_state_is_live
LeaseIsLive(l) == leases[l].generation # 0 /\ leases[l].state \in {"Granted", "Active"}
LiveLeases(v) == {l \in LeaseIds : leases[l].virtual = v /\ LeaseIsLive(l)}

\* Mutant: only leases that were granted and never became active are ended.
EndedGrantedLeases(V, s) ==
  [l \in LeaseIds |-> IF leases[l].state = "Granted" /\ leases[l].virtual \in V
                      THEN [leases[l] EXCEPT !.state = s] ELSE leases[l]]

\* The live leases of the accelerators in V leave service in state s.
EndedLeases(V, s) ==
  [l \in LeaseIds |-> IF LeaseIsLive(l) /\ leases[l].virtual \in V
                      THEN [leases[l] EXCEPT !.state = s] ELSE leases[l]]

\* Mutant: the subtraction does not saturate.
PlainMinus(n, k) == n - k

\* Saturating subtraction of the attachment counters.
Minus(n, k) == IF n >= k THEN n - k ELSE 0

\* Mutant: the attachment count survives the fencing of the leases.
WithAttachments(v) == virtuals[v]

(***************************************************************************)
(* fence_leases: the live leases of v become Fenced; if there were any,    *)
(* the accelerator's attachment count drops to zero and its owner's by the *)
(* number of leases.  Its three effects, on leases, virtuals and tenants:  *)
(***************************************************************************)
FencedLeases(V) == EndedLeases(V, "Fenced")
WithoutAttachments(v) ==
  IF LiveLeases(v) = {} THEN virtuals[v] ELSE [virtuals[v] EXCEPT !.active_attachments = 0]
TenantsAfterFencing(v) ==
  [tenants EXCEPT ![virtuals[v].owner].active_attachments = Minus(@, Cardinality(LiveLeases(v)))]

(***************************************************************************)
(* transition: refused unless the table allows it; both generations move   *)
(* (state_generation follows generation and is not kept).  Between two     *)
(* states that allow leases the live leases are carried to the new         *)
(* generation.                                                             *)
(***************************************************************************)
Moved(r, target) == [r EXCEPT !.state = target, !.generation = @ + 1]
CarriedLeases(v, target) ==
  [l \in LeaseIds |->
     IF l \in LiveLeases(v) /\ {virtuals[v].state, target} \subseteq AttachedStates
     THEN [leases[l] EXCEPT !.virtual_generation = virtuals[v].generation + 1]
     ELSE leases[l]]

\* Mutant: Draining is not taken for an attached state.
DowngradedUnlessDraining(r, target) ==
  IF r.state \in {"Attached", "Active"} THEN Moved(r, target) ELSE r
\* Mutant: the state is overwritten without asking what it was.
DowngradedAlways(r, target) == Moved(r, target)

\* The handlers that withdraw service move an attached state and keep the others.
Downgraded(r, target) == IF r.state \in AttachedStates THEN Moved(r, target) ELSE r

\* Mutant: the assignment is marked ended and stays authoritative.
EndedInNameOnly(A, s) ==
  [a \in AssignmentIds |-> IF a \in A /\ assignments[a].authoritative
                           THEN [assignments[a] EXCEPT !.state = s] ELSE assignments[a]]

\* Every authoritative assignment in A loses authority and ends in state s.
EndedAssignments(A, s) ==
  [a \in AssignmentIds |-> IF a \in A /\ assignments[a].authoritative
                           THEN [assignments[a] EXCEPT !.authoritative = FALSE, !.state = s]
                           ELSE assignments[a]]
RevokedAssignments(A) == EndedAssignments(A, "Revoked")

\* Mutant: the backings keep their holder.
UnreleasedBackings(B) == backings

\* The backings in B forget their holder, whoever it is.
ReleasedBackings(B) ==
  [b \in Backings |-> IF b \in B
                      THEN [backings[b] EXCEPT !.assigned_to = 0, !.active_assignment = 0]
                      ELSE backings[b]]

HoldsAuthority(v) ==
  virtuals[v].assignment # 0 /\ assignments[virtuals[v].assignment].authoritative

(***************************************************************************)
(* validate_backing_for: whether backing b may serve accelerator v under   *)
(* contract c and policy p, with the backing records bk and assignments    *)
(* asg as they stand when the test is made.                                *)
(***************************************************************************)
CommittedCeilings(b, v, asg) ==
  MapThenSumSet(LAMBDA a : virtuals[asg[a].virtual].contract.memory_ceiling_bytes,
                {a \in AssignmentIds : /\ asg[a].authoritative
                                       /\ asg[a].backing = b
                                       /\ asg[a].virtual # v})
ValidateBackingFor(b, v, c, p, bk, asg) ==
  /\ b \in p.permits /\ b \in c.permits
  /\ bk[b].available
  /\ b \in Exclusive => bk[b].assigned_to \in {0, v}
  /\ physical[DeviceOf[b]].present
  /\ \/ c.memory_ceiling_bytes = 0
     \/ c.oversubscription_allowed
     \/ p.oversubscription_allowed
     \/ CommittedCeilings(b, v, asg) + c.memory_ceiling_bytes <= Capacity[b]

\* migration_capability
MigrationPermitted(v) ==
  policy.migration_allowed /\ virtuals[v].contract.migration_allowed

\* Mutant: the accelerator's generation is not compared.
PlanIsFreshAtAnyGeneration(m) ==
  LET plan == migrations[m]  v == virtuals[plan.virtual] IN
  /\ plan.epoch = epoch
  /\ plan.policy_generation = policy_generation
  /\ \/ AfterCutover(plan.state)
     \/ /\ plan.source_backing = v.backing
        /\ plan.source_backing_generation = v.backing_generation
  /\ backings[plan.source_backing].generation = plan.source_backing_generation
  /\ backings[plan.destination_backing].generation = plan.destination_backing_generation

(***************************************************************************)
(* plan_staleness finds nothing stale in migration m.  The plan's source   *)
(* generation is the revision of the backing record (plan_migration), and  *)
(* it is compared both with that record and with the binding counter of    *)
(* the accelerator.  The contract changes only in update_contract, which   *)
(* moves the accelerator's generation too, so its own generation is not    *)
(* kept.                                                                   *)
(***************************************************************************)
PlanIsFresh(m) ==
  LET plan == migrations[m]  v == virtuals[plan.virtual] IN
  /\ plan.epoch = epoch
  /\ plan.policy_generation = policy_generation
  /\ plan.virtual_generation = v.generation
  /\ \/ AfterCutover(plan.state)
     \/ /\ plan.source_backing = v.backing
        /\ plan.source_backing_generation = v.backing_generation
  /\ backings[plan.source_backing].generation = plan.source_backing_generation
  /\ backings[plan.destination_backing].generation = plan.destination_backing_generation
  /\ tenants[plan.tenant].generation = plan.tenant_generation
=============================================================================
