------------------------------ MODULE Lifecycle ------------------------------
(***************************************************************************)
(* The two state tables of the runtime: the lifecycle of a virtual         *)
(* accelerator (src/src/lifecycle.cpp) and the lifecycle of a migration    *)
(* (src/src/migration.cpp).                                                *)
(***************************************************************************)
EXTENDS Naturals

LifecycleStates ==
  {"Created", "Provisioned", "Attached", "Active", "Draining", "Suspended",
   "Migrating", "RecoveryRequired", "Fenced", "Retired"}

\* allowed_mask: the legal successors of each lifecycle state.
AllowedMask ==
  [s \in LifecycleStates |->
     CASE s = "Created"     -> {"Provisioned", "Fenced", "RecoveryRequired", "Retired"}
       [] s = "Provisioned" -> {"Attached", "Suspended", "Migrating", "Fenced",
                                "RecoveryRequired", "Retired"}
       [] s = "Attached"    -> {"Active", "Draining", "Suspended", "Provisioned",
                                "Migrating", "Fenced", "RecoveryRequired", "Retired"}
       [] s = "Active"      -> {"Draining", "Suspended", "Provisioned", "Migrating",
                                "Fenced", "RecoveryRequired", "Retired"}
       [] s = "Draining"    -> {"Provisioned", "Suspended", "Active", "Migrating",
                                "Fenced", "RecoveryRequired", "Retired"}
       [] s = "Suspended"   -> {"Provisioned", "Attached", "Migrating", "Fenced",
                                "RecoveryRequired", "Retired"}
       [] s = "Migrating"   -> {"Attached", "Active", "Provisioned",
                                "RecoveryRequired", "Fenced", "Retired"}
       [] s = "RecoveryRequired" -> {"Provisioned", "Suspended", "Fenced", "Retired"}
       [] s = "Fenced"      -> {"RecoveryRequired", "Retired"}
       [] s = "Retired"     -> {}]

\* is_legal_transition; self-transitions are never legal.
IsLegalTransition(from, to) == from # to /\ to \in AllowedMask[from]

\* lifecycle_requires_backing and lifecycle_allows_leases name the same states.
AttachedStates == {"Attached", "Active", "Draining"}

\* lifecycle_accepts_mutation, the test behind require_mutable.
AcceptsMutation(s) == s \notin {"Fenced", "Retired"}

-----------------------------------------------------------------------------

MigrationStates ==
  {"Planned", "Prepared", "SourceDraining", "DestinationPrepared",
   "StateTransferPending", "StateTransferred", "CommitReady", "Committed",
   "SourceRevoked", "Completed", "Aborted", "RecoveryRequired", "Failed"}

(***************************************************************************)
(* allowed_mask of migration.cpp.  No operation of the runtime consults    *)
(* this table: each one writes the last state of the path it stands for    *)
(* (prepare_migration goes from Planned to CommitReady in one assignment). *)
(***************************************************************************)
MigrationAllowedMask ==
  [s \in MigrationStates |->
     CASE s = "Planned"  -> {"Prepared", "Aborted", "Failed"}
       [] s = "Prepared" -> {"SourceDraining", "Aborted", "RecoveryRequired", "Failed"}
       [] s = "SourceDraining" -> {"DestinationPrepared", "Aborted", "RecoveryRequired", "Failed"}
       [] s = "DestinationPrepared" -> {"StateTransferPending", "CommitReady", "Aborted",
                                        "RecoveryRequired", "Failed"}
       [] s = "StateTransferPending" -> {"StateTransferred", "Aborted", "RecoveryRequired", "Failed"}
       [] s = "StateTransferred" -> {"CommitReady", "RecoveryRequired", "Failed"}
       [] s = "CommitReady" -> {"Committed", "Aborted", "RecoveryRequired", "Failed"}
       [] s = "Committed" -> {"SourceRevoked", "RecoveryRequired"}
       [] s = "SourceRevoked" -> {"Completed", "RecoveryRequired"}
       [] OTHER -> {}]

\* The states n edges of the table away; prepare_migration takes four.
MigrationPath[n \in 0..4] ==
  [s \in MigrationStates |->
     IF n = 0 THEN {s} ELSE UNION {MigrationAllowedMask[u] : u \in MigrationPath[n - 1][s]}]

\* migration_state_is_terminal
MigrationIsTerminal(s) == s \in {"Completed", "Aborted", "Failed"}

\* migration_state_after_cutover
AfterCutover(s) == s \in {"Committed", "SourceRevoked", "Completed"}
=============================================================================
