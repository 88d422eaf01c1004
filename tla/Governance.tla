----------------------------- MODULE Governance ------------------------------
(***************************************************************************)
(* set_policy (src/src/runtime.cpp, 2442-2552): a new policy generation    *)
(* supersedes every lease and revalidates the backing of every accelerator *)
(* that is not retired.                                                    *)
(***************************************************************************)
EXTENDS Model

Governed == {v \in VirtualIds : VirtualExists(v) /\ virtuals[v].state # "Retired"}

\* Mutants: the records keep what the accelerators in V have lost.
BackingsDespite(V) == backings
AssignmentsDespite(V) == assignments

\* The records once the accelerators in V have lost their backing.
BackingsWithout(V) == ReleasedBackings({virtuals[v].backing : v \in V})
AssignmentsWithout(V) == RevokedAssignments({virtuals[v].assignment : v \in V})

(***************************************************************************)
(* The accelerators are revalidated in the order of their identities, and  *)
(* the ones already found invalid have released their backings by then: V  *)
(* is the set that this loop invalidates.                                  *)
(***************************************************************************)
Invalidated(V, p) ==
  \A v \in VirtualIds :
     LET before == {u \in V : u < v} IN
     v \in V <=> /\ v \in Governed
                 /\ virtuals[v].backing # NoBacking
                 /\ ~ValidateBackingFor(virtuals[v].backing, v, virtuals[v].contract, p,
                                        BackingsWithout(before), AssignmentsWithout(before))

\* Mutant: every accelerator is taken back to Provisioned.
ProvisionedAnew(v, invalid) ==
  LET r == Moved([virtuals[v] EXCEPT !.active_attachments = 0], "Provisioned") IN
  IF invalid THEN Moved([r EXCEPT !.assignment = 0], "RecoveryRequired") ELSE r

\* An invalidated accelerator forgets its assignment and keeps its backing.
Regoverned(v, invalid) ==
  LET r == Downgraded([virtuals[v] EXCEPT !.active_attachments = 0], "Provisioned") IN
  IF invalid THEN Moved([r EXCEPT !.assignment = 0], "RecoveryRequired") ELSE r

\* The policy limits are not compared with what the fleet already holds.
SetPolicy(p) ==
  /\ running = "up"
  /\ policy_generation < MaxPolicyGeneration
  /\ \A v \in VirtualIds : virtuals[v].generation + 2 <= MaxGeneration
  /\ policy' = p
  /\ policy_generation' = policy_generation + 1
  /\ leases' = EndedLeases(VirtualIds, "Superseded")
  /\ tenants' = [t \in TenantIds |-> [tenants[t] EXCEPT !.active_attachments = 0]]
  /\ \E V \in SUBSET VirtualIds :
       /\ Invalidated(V, p)
       /\ assignments' = AssignmentsWithout(V)
       /\ backings' = BackingsWithout(V)
       /\ virtuals' = [v \in VirtualIds |->
                         IF v \in Governed THEN Regoverned(v, v \in V) ELSE virtuals[v]]
  /\ UNCHANGED <<running, epoch, physical, migrations>>
=============================================================================
