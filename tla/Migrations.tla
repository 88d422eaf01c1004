----------------------------- MODULE Migrations ------------------------------
(***************************************************************************)
(* Moving an accelerator to another backing: plan, prepare, commit,        *)
(* complete and abort (src/src/runtime.cpp, 3934-4429).  Preparing drains  *)
(* the accelerator and proposes a destination assignment; committing is    *)
(* the cutover that moves authority from the source to the destination.    *)
(***************************************************************************)
EXTENDS Model

\* Mutant: a second migration may be planned beside an open one.
AnyMigrationInFlight(v) == TRUE

\* The state has no open migration for v: v.migration is unset or terminal.
NoMigrationInFlight(v) ==
  virtuals[v].migration # 0 => MigrationIsTerminal(migrations[virtuals[v].migration].state)

\* plan_migration records the revision of the source backing's record.
PlanMigration(v, b, m) ==
  LET r == virtuals[v] IN
  /\ RequireOwner(v)
  /\ r.assignment # 0 /\ r.backing # NoBacking
  /\ NoMigrationInFlight(v)
  /\ r.state \in {"Provisioned", "Suspended"} \cup AttachedStates
  /\ b # r.backing
  /\ MigrationPermitted(v)
  /\ BackingExists(b)
  /\ ValidateBackingFor(b, v, r.contract, policy, backings, assignments)
  /\ IsNextMigration(m)
  /\ migrations' = [migrations EXCEPT ![m] =
       [generation |-> 1, state |-> "Planned",
        virtual |-> v, virtual_generation |-> r.generation,
        source_backing |-> r.backing,
        source_backing_generation |-> backings[r.backing].generation,
        destination_backing |-> b,
        destination_backing_generation |-> backings[b].generation,
        tenant |-> r.owner, tenant_generation |-> r.owner_generation,
        policy_generation |-> policy_generation, epoch |-> epoch,
        source_assignment |-> r.assignment, destination_assignment |-> 0]]
  /\ virtuals' = [virtuals EXCEPT ![v].migration = m]
  /\ UNCHANGED <<running, epoch, policy, policy_generation, tenants, physical,
                 backings, leases, assignments>>

\* migration_prologue: what every later phase asks of migration m.
MigrationPrologue(m) ==
  /\ MigrationExists(m)
  /\ RequireOwner(migrations[m].virtual)
  /\ PlanIsFresh(m)

(***************************************************************************)
(* prepare_migration: the accelerator drains into Migrating, its leases    *)
(* are fenced and the destination assignment is proposed.  The destination *)
(* is neither validated again nor reserved.                                *)
(***************************************************************************)
PrepareMigration(m, a) ==
  LET v == migrations[m].virtual  r == virtuals[v] IN
  /\ MigrationPrologue(m)
  /\ migrations[m].state = "Planned"
  /\ IsLegalTransition(r.state, "Migrating")
  /\ CanAdvance(v)
  /\ IsNextAssignment(a)
  /\ leases' = FencedLeases({v})
  /\ tenants' = TenantsAfterFencing(v)
  /\ virtuals' = [virtuals EXCEPT ![v] = Moved(WithoutAttachments(v), "Migrating")]
  /\ assignments' = [assignments EXCEPT ![a] =
                       [virtual |-> v, backing |-> migrations[m].destination_backing,
                        backing_generation |-> r.backing_generation + 1,
                        state |-> "Prepared", authoritative |-> FALSE]]
  /\ migrations' = [migrations EXCEPT ![m].state = "CommitReady",
                                      ![m].generation = @ + 1,
                                      ![m].virtual_generation = r.generation + 1,
                                      ![m].destination_assignment = a]
  /\ UNCHANGED <<running, epoch, policy, policy_generation, physical, backings>>

\* Mutant: the source assignment stays authoritative.
CutOverBeside(source, destination) ==
  [assignments EXCEPT ![destination].authoritative = TRUE, ![destination].state = "Active"]

\* The cutover: authority leaves source and enters destination in one step.
CutOver(source, destination) ==
  [assignments EXCEPT ![source].authoritative = FALSE, ![source].state = "Revoked",
                      ![destination].authoritative = TRUE, ![destination].state = "Active"]

(***************************************************************************)
(* commit_migration: the destination is neither validated again nor asked  *)
(* whether another accelerator has taken it since the plan.                *)
(***************************************************************************)
CommitMigration(m) ==
  LET plan == migrations[m]  v == plan.virtual
      source == plan.source_assignment  destination == plan.destination_assignment
      moved == [virtuals[v] EXCEPT
                  !.backing = plan.destination_backing,
                  !.backing_generation = assignments[destination].backing_generation,
                  !.physical_generation = backings[plan.destination_backing].physical_generation,
                  !.assignment = destination] IN
  /\ MigrationPrologue(m)
  /\ plan.state = "CommitReady"
  /\ assignments[source].authoritative
  /\ destination # 0
  /\ CanAdvance(v)
  /\ virtuals' = [virtuals EXCEPT ![v] = Moved(moved, "Provisioned")]
  /\ assignments' = CutOver(source, destination)
  /\ backings' = [ReleasedBackings({plan.source_backing}) EXCEPT
                    ![plan.destination_backing].assigned_to = v,
                    ![plan.destination_backing].active_assignment = destination]
  /\ migrations' = [migrations EXCEPT ![m].state = "Committed",
                                      ![m].virtual_generation = virtuals[v].generation + 1]
  /\ UNCHANGED <<running, epoch, policy, policy_generation, tenants, physical, leases>>

CompleteMigration(m) ==
  /\ MigrationPrologue(m)
  /\ migrations[m].state = "Committed"
  /\ migrations' = [migrations EXCEPT ![m].state = "Completed"]
  /\ UNCHANGED <<running, epoch, policy, policy_generation, tenants, physical,
                 backings, virtuals, leases, assignments>>

\* The destination assignments of the migrations in M, if any, have failed.
FailedDestinations(M) ==
  [a \in AssignmentIds |->
     IF \E m \in M : migrations[m].destination_assignment = a
     THEN [assignments[a] EXCEPT !.state = "Failed", !.authoritative = FALSE]
     ELSE assignments[a]]

\* Mutant: a migration that has cut over may still be aborted.
MayAbortAfterCutover(m) == ~MigrationIsTerminal(migrations[m].state)

MayAbort(m) ==
  ~AfterCutover(migrations[m].state) /\ ~MigrationIsTerminal(migrations[m].state)

\* abort_migration is refused, like every phase, once the plan is stale.
AbortMigration(m) ==
  LET v == migrations[m].virtual IN
  /\ MigrationPrologue(m)
  /\ MayAbort(m)
  /\ CanAdvance(v)
  /\ assignments' = FailedDestinations({m})
  /\ migrations' = [migrations EXCEPT ![m].state = "Aborted"]
  /\ virtuals' = [virtuals EXCEPT ![v] = IF @.state = "Migrating"
                                         THEN Moved(@, "Provisioned") ELSE @]
  /\ UNCHANGED <<running, epoch, policy, policy_generation, tenants, physical,
                 backings, leases>>
=============================================================================
