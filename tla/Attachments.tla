----------------------------- MODULE Attachments -----------------------------
(***************************************************************************)
(* Leases and the memory they authorise: attach, renew_lease, detach,      *)
(* revoke_lease, reserve_allocation and release_allocation                 *)
(* (src/src/runtime.cpp, 3559-3914 and 4521-4655).                         *)
(***************************************************************************)
EXTENDS Model

\* attach: the lease is bound to the generation the attachment produces.
\* The policy's lease maximum is the size of LeaseIds.
Attach(v, l) ==
  LET r == virtuals[v]  b == backings[r.backing] IN
  /\ RequireOwner(v)
  /\ r.state \in {"Provisioned", "Suspended"}
  /\ r.backing # NoBacking
  /\ HoldsAuthority(v)
  /\ r.backing \in Exclusive => b.assigned_to = v /\ b.active_assignment = r.assignment
  /\ b.available
  /\ Cardinality(LiveLeases(v)) < policy.max_attachments_per_virtual
  /\ CanAdvance(v)
  /\ IsNextLease(l)
  /\ virtuals' = [virtuals EXCEPT ![v] =
                    Moved([r EXCEPT !.active_attachments = r.active_attachments + 1], "Attached")]
  /\ tenants' = [tenants EXCEPT ![r.owner].active_attachments = @ + 1]
  /\ leases' = [leases EXCEPT ![l] =
                  [generation |-> 1, state |-> "Active",
                   virtual |-> v, virtual_generation |-> r.generation + 1,
                   tenant |-> r.owner, tenant_generation |-> tenants[r.owner].generation,
                   backing_generation |-> r.backing_generation,
                   physical_generation |-> r.physical_generation,
                   policy_generation |-> policy_generation, epoch |-> epoch]]
  /\ UNCHANGED <<running, epoch, policy, policy_generation, physical, backings,
                 assignments, migrations>>

\* Mutant: the accelerator's generation is not compared.
LeaseIsCurrentAtAnyGeneration(l) ==
  /\ LeaseIsLive(l)
  /\ leases[l].backing_generation = virtuals[leases[l].virtual].backing_generation
  /\ leases[l].policy_generation = policy_generation
  /\ leases[l].epoch = epoch

\* The generations a lease was bound to are still the current ones: the test
\* of renew_lease and reserve_allocation.
LeaseIsCurrent(l) ==
  LET r == virtuals[leases[l].virtual] IN
  /\ LeaseIsLive(l)
  /\ leases[l].virtual_generation = r.generation
  /\ leases[l].backing_generation = r.backing_generation
  /\ leases[l].policy_generation = policy_generation
  /\ leases[l].epoch = epoch

RenewLease(l) ==
  /\ RequireOwner(leases[l].virtual)
  /\ LeaseIsCurrent(l)
  /\ leases[l].generation < MaxLeaseGeneration
  /\ leases' = [leases EXCEPT ![l].generation = @ + 1]
  /\ UNCHANGED <<running, epoch, policy, policy_generation, tenants, physical,
                 backings, virtuals, assignments, migrations>>

(***************************************************************************)
(* detach and revoke_lease end a live lease the same way.  Releasing the   *)
(* last attachment takes the accelerator to Provisioned; when the table    *)
(* refuses that move the operation reports an error, and the lease and the *)
(* counters keep what was already written.                                 *)
(***************************************************************************)
Detach(l) ==
  LET v == leases[l].virtual
      less == [virtuals[v] EXCEPT !.active_attachments = Minus(@, 1)]
      leaves == /\ less.active_attachments = 0
                /\ IsLegalTransition(less.state, "Provisioned") IN
  /\ RequireOwner(v)
  /\ LeaseIsLive(l)
  /\ CanAdvance(v)
  /\ leases' = [leases EXCEPT ![l].state = "Revoked"]
  /\ tenants' = [tenants EXCEPT ![leases[l].tenant].active_attachments = Minus(@, 1)]
  /\ virtuals' = [virtuals EXCEPT ![v] = IF leaves THEN Moved(less, "Provisioned") ELSE less]
  /\ UNCHANGED <<running, epoch, policy, policy_generation, physical, backings,
                 assignments, migrations>>

-----------------------------------------------------------------------------
\* reserve_allocation, with the memory budget enforced (the default option)
ReserveAllocation(l, bytes) ==
  LET v == leases[l].virtual  r == virtuals[v]  ceiling == r.contract.memory_ceiling_bytes IN
  /\ RequireOwner(v)
  /\ LeaseIsCurrent(l)
  /\ leases[l].tenant = r.owner
  /\ ceiling > 0 => r.allocated_bytes + bytes <= ceiling
  /\ r.state \in {"Active", "Attached"}
  /\ virtuals' = [virtuals EXCEPT ![v].allocated_bytes = @ + bytes]
  /\ UNCHANGED <<running, epoch, policy, policy_generation, tenants, physical,
                 backings, leases, assignments, migrations>>

\* release_allocation settles with current ownership only: no lease, and no
\* current generation of the accelerator, is needed.
ReleaseAllocation(v, bytes) ==
  /\ RequireOwner(v)
  /\ virtuals[v].allocated_bytes >= bytes
  /\ virtuals' = [virtuals EXCEPT ![v].allocated_bytes = @ - bytes]
  /\ UNCHANGED <<running, epoch, policy, policy_generation, tenants, physical,
                 backings, leases, assignments, migrations>>
=============================================================================
