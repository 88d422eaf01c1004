------------------------------ MODULE Recovery -------------------------------
(***************************************************************************)
(* The process around the durable state: crash, shutdown and start         *)
(* (src/src/runtime.cpp 1722-1910), with the validation of the loaded      *)
(* state (src/src/state_codec.cpp 1264-1400) and the classification of     *)
(* interrupted migrations (4454-4516).  A crash keeps exactly what the     *)
(* completed operations made durable.  start() commits twice, so a crash   *)
(* can fall between the two.                                               *)
(***************************************************************************)
EXTENDS Migrations

(***************************************************************************)
(* validate_state: the references resolve, an attached accelerator stands  *)
(* on an authoritative assignment, and the fleet fits the stored policy.   *)
(***************************************************************************)
ReferencesResolve ==
  /\ \A v \in VirtualIds : VirtualExists(v) => TenantExists(virtuals[v].owner)
  /\ \A l \in LeaseIds : LeaseExists(l) => /\ VirtualExists(leases[l].virtual)
                                           /\ TenantExists(leases[l].tenant)
  /\ \A a \in AssignmentIds : assignments[a].virtual # 0 =>
       VirtualExists(assignments[a].virtual) /\ BackingExists(assignments[a].backing)
  /\ \A m \in MigrationIds : MigrationExists(m) =>
       /\ VirtualExists(migrations[m].virtual)
       /\ BackingExists(migrations[m].source_backing)
       /\ BackingExists(migrations[m].destination_backing)
  /\ \A b \in Backings : BackingExists(b) => physical[DeviceOf[b]].generation # 0

BackedStates ==
  \A v \in VirtualIds : virtuals[v].state \in AttachedStates =>
     BackingExists(virtuals[v].backing) /\ HoldsAuthority(v)

AttachmentsHaveLeases ==
  \A v \in VirtualIds :
     virtuals[v].active_attachments <= Cardinality({l \in LeaseIds : leases[l].virtual = v})

FleetFitsPolicy ==
  Cardinality({v \in VirtualIds : VirtualExists(v)}) <= policy.max_virtual_accelerators

ValidateState ==
  ReferencesResolve /\ BackedStates /\ AttachmentsHaveLeases /\ FleetFitsPolicy

-----------------------------------------------------------------------------
\* The bound on restarts: the process stops only if it may start again.
CanRestart == epoch < MaxEpoch

Crash ==
  /\ running \in {"up", "recovering"}
  /\ CanRestart
  /\ running' = "down"
  /\ UNCHANGED <<epoch, policy, policy_generation, tenants, physical, backings,
                 virtuals, leases, assignments, migrations>>

\* Attachment authority is process-local: both ends of a process drop it.
ReleaseAttachments(lease_state) ==
  /\ \A v \in VirtualIds : virtuals[v].state \in AttachedStates => CanAdvance(v)
  /\ leases' = EndedLeases(VirtualIds, lease_state)
  /\ virtuals' = [v \in VirtualIds |->
                    Downgraded([virtuals[v] EXCEPT !.active_attachments = 0], "Provisioned")]
  /\ tenants' = [t \in TenantIds |-> [tenants[t] EXCEPT !.active_attachments = 0]]

Shutdown ==
  /\ running = "up"
  /\ CanRestart
  /\ running' = "down"
  /\ ReleaseAttachments("Fenced")
  /\ UNCHANGED <<epoch, policy, policy_generation, physical, backings, assignments, migrations>>

\* start() on a loaded state, up to its first commit.
Start ==
  /\ running = "down"
  /\ ValidateState
  /\ running' = "recovering"
  /\ epoch' = epoch + 1
  /\ ReleaseAttachments("Expired")
  /\ backings' = [b \in Backings |-> [backings[b] EXCEPT !.available = FALSE]]
  /\ physical' = [d \in Devices |-> [physical[d] EXCEPT !.present = FALSE]]
  /\ UNCHANGED <<policy, policy_generation, assignments, migrations>>

RefuseStart ==
  /\ running = "down"
  /\ ~ValidateState
  /\ running' = "refused"
  /\ UNCHANGED <<epoch, policy, policy_generation, tenants, physical, backings,
                 virtuals, leases, assignments, migrations>>

(***************************************************************************)
(* do_classify_recovered_migrations, start()'s second commit: a durable    *)
(* cutover is completed, a migration before its cutover is aborted and its *)
(* accelerator leaves Migrating.  start() then validates the state again,  *)
(* which what Start accepted still passes: no reference or limit moved.    *)
(***************************************************************************)
BeforeCutover(m) ==
  /\ MigrationExists(m)
  /\ ~MigrationIsTerminal(migrations[m].state)
  /\ migrations[m].state \notin {"Committed", "RecoveryRequired"}

\* Mutant: only migrations that were never prepared strand an accelerator.
StrandedByPlans ==
  {v \in VirtualIds : /\ virtuals[v].state = "Migrating"
                     /\ \E m \in MigrationIds : /\ migrations[m].virtual = v
                                                /\ migrations[m].state = "Planned"}

\* The accelerators that an interrupted migration has left in Migrating.
Stranded ==
  {v \in VirtualIds : /\ virtuals[v].state = "Migrating"
                     /\ \E m \in MigrationIds : /\ migrations[m].virtual = v
                                                /\ BeforeCutover(m)}

ClassifyRecoveredMigrations ==
  LET open == {m \in MigrationIds : BeforeCutover(m)} IN
  /\ running = "recovering"
  /\ \A v \in Stranded : CanAdvance(v)
  /\ running' = "up"
  /\ migrations' = [m \in MigrationIds |->
                      IF m \in open THEN [migrations[m] EXCEPT !.state = "Aborted"]
                      ELSE IF MigrationExists(m) /\ migrations[m].state = "Committed"
                      THEN [migrations[m] EXCEPT !.state = "Completed"]
                      ELSE migrations[m]]
  /\ assignments' = FailedDestinations(
                      {m \in open : /\ migrations[m].destination_assignment # 0
                                    /\ ~assignments[migrations[m].destination_assignment].authoritative})
  /\ virtuals' = [v \in VirtualIds |->
                    IF v \in Stranded THEN Moved(virtuals[v], "Provisioned") ELSE virtuals[v]]
  /\ UNCHANGED <<epoch, policy, policy_generation, tenants, physical, backings, leases>>
=============================================================================
