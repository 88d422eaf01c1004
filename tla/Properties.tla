----------------------------- MODULE Properties ------------------------------
(***************************************************************************)
(* What the runtime promises about authority, leases and recovery.         *)
(***************************************************************************)
EXTENDS Runtime

\* The type invariant: every record of the durable state is well formed.
TypeOK ==
  /\ running \in {"up", "down", "recovering", "refused"}
  /\ epoch \in Nat /\ policy \in Policy /\ policy_generation \in Nat
  /\ tenants \in [TenantIds -> Tenant]
  /\ physical \in [Devices -> Physical]
  /\ backings \in [Backings -> Backing]
  /\ virtuals \in [VirtualIds -> VirtualAccelerator]
  /\ leases \in [LeaseIds -> Lease]
  /\ assignments \in [AssignmentIds -> Assignment]
  /\ migrations \in [MigrationIds -> Migration]

-----------------------------------------------------------------------------
(* Authority over backings *)

\* An authoritative assignment is the one its accelerator names, for the
\* backing and the binding generation the accelerator records.  Hence no
\* interleaving of assign, replace, suspend, migrate, policy change, device
\* loss and restart gives an accelerator two authoritative assignments
\* (backing.hpp 76-78).
AuthoritativeIsCurrent ==
  \A a \in AssignmentIds : assignments[a].authoritative =>
     /\ assignments[a].virtual \in VirtualIds
     /\ virtuals[assignments[a].virtual].assignment = a
     /\ virtuals[assignments[a].virtual].backing = assignments[a].backing
     /\ virtuals[assignments[a].virtual].backing_generation = assignments[a].backing_generation

\* The holder that a backing records holds it: the accelerator is bound to
\* this backing and the recorded assignment is its authoritative one, although
\* several handlers clear a holder without asking whose hold it is.
HolderIsAuthoritative ==
  \A b \in Backings : backings[b].assigned_to # 0 =>
     LET v == backings[b].assigned_to IN
     /\ virtuals[v].backing = b
     /\ virtuals[v].assignment = backings[b].active_assignment
     /\ HoldsAuthority(v)

\* Authority is only over what is permitted: the backing of an authoritative
\* assignment is one that the accelerator's contract and the policy in force
\* permit.  A migration commits without validating its destination again, so
\* this rests on its plan going stale with either.
AuthorityIsPermitted ==
  \A a \in AssignmentIds : assignments[a].authoritative =>
     /\ assignments[a].backing \in policy.permits
     /\ assignments[a].backing \in virtuals[assignments[a].virtual].contract.permits

\* An assignment that was revoked, superseded or failed never has authority
\* again: no late commit, abort or recovery revives the source that a cutover
\* revoked or the destination of an aborted migration (README 237-240).
AuthorityIsNeverRegained ==
  [][\A a \in AssignmentIds :
       assignments[a].state \in {"Revoked", "Superseded", "Failed"}
         => ~assignments'[a].authoritative]_vars

-----------------------------------------------------------------------------
(* The lifecycle *)

\* Every change of a lifecycle state is one the table allows, although a dozen
\* handlers assign the state directly instead of calling transition().
LifecycleFollowsTable ==
  [][\A v \in VirtualIds :
       \/ virtuals'[v].state = virtuals[v].state
       \/ IsLegalTransition(virtuals[v].state, virtuals'[v].state)]_vars

\* What an observer of an accelerator acts upon.
Observed(r) ==
  <<r.state, r.owner, r.contract, r.assignment, r.backing, r.backing_generation>>

\* A change of state, owner, contract or binding always advances the
\* generation of the accelerator, which is how observers and leases learn of
\* it (model.hpp 104-107).
MutationAdvancesGeneration ==
  [][\A v \in VirtualIds :
       Observed(virtuals'[v]) # Observed(virtuals[v])
         => virtuals'[v].generation > virtuals[v].generation]_vars

\* A retired accelerator holds nothing: no assignment with authority, no
\* backing that records it, no live lease.
RetiredHoldsNothing ==
  \A v \in VirtualIds : virtuals[v].state = "Retired" =>
     /\ \A a \in AssignmentIds : assignments[a].virtual = v => ~assignments[a].authoritative
     /\ \A b \in Backings : backings[b].assigned_to # v
     /\ LiveLeases(v) = {}

-----------------------------------------------------------------------------
(* Leases *)

\* A lease that renew_lease and reserve_allocation would honour belongs to an
\* attached accelerator, is held by its present owner and stands on the
\* authoritative assignment it was granted under.
HonouredLeaseIsBacked ==
  \A l \in LeaseIds : LeaseIsCurrent(l) =>
     LET r == virtuals[leases[l].virtual] IN
     /\ r.state \in AttachedStates
     /\ r.owner = leases[l].tenant
     /\ HoldsAuthority(leases[l].virtual)
     /\ assignments[r.assignment].backing_generation = leases[l].backing_generation
     /\ r.physical_generation = leases[l].physical_generation

\* An attached accelerator has a live lease and stands on an authoritative
\* assignment (README 113): every path that ends the last lease or revokes the
\* assignment also leaves the attached states.
AttachedIsEarned ==
  \A v \in VirtualIds : virtuals[v].state \in AttachedStates =>
     LiveLeases(v) # {} /\ HoldsAuthority(v)

\* The attachment count of an accelerator is the number of its live leases.
AttachmentsAreLiveLeases ==
  \A v \in VirtualIds : virtuals[v].active_attachments = Cardinality(LiveLeases(v))

\* A fenced tenant has no live lease and no attached accelerator anywhere
\* (the comment of fence_tenant, runtime.cpp 2638).
FencedTenantHoldsNothing ==
  \A t \in TenantIds : tenants[t].fenced =>
     /\ \A l \in LeaseIds : leases[l].tenant = t => ~LeaseIsLive(l)
     /\ \A v \in VirtualIds : virtuals[v].owner = t => virtuals[v].state \notin AttachedStates

-----------------------------------------------------------------------------
(* Migration and recovery *)

\* An accelerator is in Migrating only while the migration it names is
\* prepared and open, so a restart always finds something to resolve.
MigratingHasOpenMigration ==
  \A v \in VirtualIds : virtuals[v].state = "Migrating" =>
     /\ virtuals[v].migration # 0
     /\ migrations[virtuals[v].migration].virtual = v
     /\ migrations[virtuals[v].migration].state = "CommitReady"

\* A migration advances along its table, possibly by several edges in one
\* operation: in particular a cutover is never aborted and an aborted migration
\* never commits, although no operation consults the table.
MigrationFollowsTable ==
  [][\A m \in MigrationIds : MigrationExists(m) =>
       \E n \in 0..4 : migrations'[m].state \in MigrationPath[n][migrations[m].state]]_vars

\* When start() has finished, no migration is left before its cutover, no
\* accelerator is left in Migrating and no lease of the old epoch is live.
RestartSettles ==
  [][running = "recovering" /\ running' = "up" =>
       /\ \A m \in MigrationIds : ~BeforeCutover(m)'
       /\ \A v \in VirtualIds : virtuals'[v].state # "Migrating"
       /\ \A l \in LeaseIds : ~LeaseIsLive(l)']_vars

\* The durable state is one that start() accepts: the references resolve,
\* attached accelerators are backed and the fleet fits the policy.
StateIsTrustworthy == ValidateState

-----------------------------------------------------------------------------
(* Promises of the repository that its code does not keep *)

\* An exclusive backing has at most one authoritative assignment
\* (invariant.cpp 194-195).
ExclusiveHasOneHolder ==
  \A b \in Exclusive :
     Cardinality({a \in AssignmentIds : assignments[a].authoritative
                                       /\ assignments[a].backing = b}) <= 1

\* An active accelerator has a valid backing (README 115): when a device is
\* lost, no accelerator stays active on one of its backings.
ActiveHasValidBacking ==
  \A v \in VirtualIds : virtuals[v].state = "Active" => backings[virtuals[v].backing].available

\* plan_staleness reports a source binding that has changed (runtime.cpp
\* 1595-1601) only when it has: the plan that plan_migration has just built from
\* the current binding is fresh.
NewPlanIsFresh ==
  [][\A m \in MigrationIds :
       ~MigrationExists(m) /\ MigrationExists(m)' => PlanIsFresh(m)']_vars

\* A restart restores the durable accelerators (README 253-254): start() never
\* refuses the state its own operations have written.
RestartIsNeverRefused == running # "refused"
=============================================================================
