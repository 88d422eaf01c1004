------------------------------- MODULE Devices -------------------------------
(***************************************************************************)
(* Discovery of physical devices: register_physical / refresh_physical     *)
(* (do_register_physical, src/src/runtime.cpp 2085-2333) and physical_lost *)
(* (2352-2437).  An agent reports a device with the backings it offers; a  *)
(* descriptor that differs in identity makes it another device in the same *)
(* slot.  The agent sessions that gate registration are not modelled here. *)
(***************************************************************************)
EXTENDS Model

KnownBackings(d) == {b \in Backings : DeviceOf[b] = d /\ backings[b].generation # 0}

\* The authoritative assignments that the backings of d record as active.
DisplacedAssignments(d) ==
  {a \in AssignmentIds : /\ assignments[a].authoritative
                         /\ \E b \in KnownBackings(d) : backings[b].active_assignment = a}

\* A listed backing is created or refreshed; its holder is kept.
RefreshedBacking(b, generation) ==
  [backings[b] EXCEPT !.generation = @ + 1, !.physical_generation = generation,
                      !.available = TRUE]

(***************************************************************************)
(* Same device, fresh evidence: the listed backings are refreshed and all  *)
(* the backings of the device are available again.                         *)
(***************************************************************************)
RegisterPhysical(d, listed) ==
  LET generation == IF physical[d].generation = 0 THEN 1 ELSE physical[d].generation IN
  /\ running = "up"
  /\ \A b \in listed : DeviceOf[b] = d /\ backings[b].generation < MaxRefreshes
  /\ physical' = [physical EXCEPT ![d] = [generation |-> generation, present |-> TRUE]]
  /\ backings' =
       [b \in Backings |->
          IF b \in listed THEN RefreshedBacking(b, generation)
          ELSE IF b \in KnownBackings(d) THEN [backings[b] EXCEPT !.available = TRUE]
          ELSE backings[b]]
  /\ UNCHANGED <<running, epoch, policy, policy_generation, tenants, virtuals,
                 leases, assignments, migrations>>

(***************************************************************************)
(* A different device in the slot: the generation moves, every binding the *)
(* backings of the slot record is revoked and its accelerator must be      *)
(* recovered.  The accelerator's leases are left as they are.              *)
(***************************************************************************)
ReplacePhysical(d, listed) ==
  LET generation == physical[d].generation + 1
      displaced == DisplacedAssignments(d)
      holders == {assignments[a].virtual : a \in displaced}
      released == ReleasedBackings(KnownBackings(d)) IN
  /\ running = "up"
  /\ physical[d].generation \in 1..(MaxPhysicalGeneration - 1)
  /\ \A b \in listed : DeviceOf[b] = d /\ backings[b].generation < MaxRefreshes
  /\ \A v \in holders : CanAdvance(v)
  /\ physical' = [physical EXCEPT ![d] = [generation |-> generation, present |-> TRUE]]
  /\ backings' = [b \in Backings |->
                    IF b \in listed
                    THEN [RefreshedBacking(b, generation) EXCEPT !.assigned_to = 0,
                                                                 !.active_assignment = 0]
                    ELSE released[b]]
  /\ assignments' = RevokedAssignments(displaced)
  /\ virtuals' = [v \in VirtualIds |->
                    IF v \in holders /\ virtuals[v].state # "Retired"
                    THEN Moved(virtuals[v], "RecoveryRequired") ELSE virtuals[v]]
  /\ UNCHANGED <<running, epoch, policy, policy_generation, tenants, leases, migrations>>

\* The sum of the attachment counts of the accelerators in V, as the number of
\* pairs of an accelerator and one of its attachments.
TotalAttachments(V, record) ==
  Cardinality(UNION {{v} \X (1..record[v].active_attachments) : v \in V})

(***************************************************************************)
(* physical_lost: the backings of the device become unavailable.  The      *)
(* holder each one records, if any, loses its leases and its assignment,   *)
(* and must be recovered if it was attached.  The attachment count of      *)
(* every tenant is then recomputed from the accelerators it owns.          *)
(***************************************************************************)
PhysicalLost(d) ==
  LET holders == {backings[b].assigned_to : b \in KnownBackings(d)} \ {0}
      remaining == [v \in VirtualIds |->
                      IF v \in holders THEN Downgraded(WithoutAttachments(v), "RecoveryRequired")
                      ELSE virtuals[v]] IN
  /\ running = "up"
  /\ physical[d].generation # 0
  /\ \A v \in holders : CanAdvance(v)
  /\ physical' = [physical EXCEPT ![d].present = FALSE]
  /\ backings' = [b \in Backings |->
                    IF b \in KnownBackings(d)
                    THEN [backings[b] EXCEPT !.available = FALSE,
                                             !.assigned_to = 0, !.active_assignment = 0]
                    ELSE backings[b]]
  /\ leases' = FencedLeases(holders)
  /\ assignments' = RevokedAssignments({virtuals[v].assignment : v \in holders})
  /\ virtuals' = remaining
  /\ tenants' = [t \in TenantIds |->
                   [tenants[t] EXCEPT !.active_attachments =
                      TotalAttachments(tenants[t].owned, remaining)]]
  /\ UNCHANGED <<running, epoch, policy, policy_generation, migrations>>
=============================================================================
