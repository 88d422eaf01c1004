---------------------------- MODULE Accelerators -----------------------------
(***************************************************************************)
(* The lifecycle operations of a virtual accelerator                       *)
(* (src/src/runtime.cpp, 2764-3321).                                       *)
(***************************************************************************)
EXTENDS Model

\* create_virtual
CreateVirtual(v, t, c) ==
  /\ running = "up"
  /\ IsNextVirtual(v)
  /\ TenantExists(t)
  /\ ~tenants[t].fenced
  /\ c.memory_ceiling_bytes <= policy.max_memory_ceiling_bytes
  /\ Cardinality({u \in VirtualIds : VirtualExists(u)}) < policy.max_virtual_accelerators
  /\ virtuals' = [virtuals EXCEPT ![v] =
                    [NoVirtual EXCEPT !.generation = 1, !.state = "Provisioned", !.owner = t,
                                      !.owner_generation = tenants[t].generation,
                                      !.contract = c]]
  /\ tenants' = [tenants EXCEPT ![t].owned = @ \cup {v}]
  /\ UNCHANGED <<running, epoch, policy, policy_generation, physical, backings,
                 leases, assignments, migrations>>

\* update_contract: the leases keep the generation they were bound to.
UpdateContract(v, c) ==
  /\ RequireOwner(v)
  /\ RequireMutable(v)
  /\ c.memory_ceiling_bytes <= policy.max_memory_ceiling_bytes
  /\ virtuals[v].backing # NoBacking =>
       ValidateBackingFor(virtuals[v].backing, v, c, policy, backings, assignments)
  /\ CanAdvance(v)
  /\ virtuals' = [virtuals EXCEPT ![v].contract = c, ![v].generation = @ + 1]
  /\ UNCHANGED <<running, epoch, policy, policy_generation, tenants, physical,
                 backings, leases, assignments, migrations>>

-----------------------------------------------------------------------------
\* transition, as the whole effect of an operation
MoveTo(v, target) ==
  /\ IsLegalTransition(virtuals[v].state, target)
  /\ CanAdvance(v)
  /\ virtuals' = [virtuals EXCEPT ![v] = Moved(@, target)]
  /\ leases' = CarriedLeases(v, target)
  /\ UNCHANGED <<running, epoch, policy, policy_generation, tenants, physical,
                 backings, assignments, migrations>>

Activate(v) ==
  /\ RequireOwner(v)
  /\ virtuals[v].state = "Attached"
  /\ virtuals[v].backing # NoBacking
  /\ HoldsAuthority(v)
  /\ backings[virtuals[v].backing].available
  /\ MoveTo(v, "Active")

Drain(v) == RequireOwner(v) /\ RequireMutable(v) /\ MoveTo(v, "Draining")

ResolveRecovery(v) ==
  /\ RequireOwner(v)
  /\ virtuals[v].state = "RecoveryRequired"
  /\ MoveTo(v, "Suspended")

Resume(v) ==
  /\ RequireOwner(v)
  /\ virtuals[v].state = "Suspended"
  /\ MoveTo(v, "Provisioned")

-----------------------------------------------------------------------------
\* Mutant: the backing keeps its holder.
RevokeBinding(v) ==
  /\ assignments' = RevokedAssignments({virtuals[v].assignment})
  /\ backings' = backings

\* The assignment of v is revoked, its backing forgets whoever holds it, and
\* the accelerator names neither any more.
ReleaseBinding(v) ==
  /\ assignments' = RevokedAssignments({virtuals[v].assignment})
  /\ backings' = ReleasedBackings({virtuals[v].backing})

Unbound(r) == [r EXCEPT !.assignment = 0, !.backing = NoBacking]

Suspend(v) ==
  /\ RequireOwner(v)
  /\ virtuals[v].active_attachments = 0
  /\ virtuals[v].state \in {"Provisioned", "Draining"}
  /\ virtuals[v].state = "Provisioned" => virtuals[v].assignment # 0
  /\ CanAdvance(v)
  /\ ReleaseBinding(v)
  /\ virtuals' = [virtuals EXCEPT ![v] = Moved(Unbound(@), "Suspended")]
  /\ UNCHANGED <<running, epoch, policy, policy_generation, tenants, physical,
                 leases, migrations>>

\* Fencing an accelerator again is refused by the table and changes nothing.
FenceVirtual(v) ==
  /\ RequireOwner(v)
  /\ IsLegalTransition(virtuals[v].state, "Fenced")
  /\ CanAdvance(v)
  /\ leases' = FencedLeases({v})
  /\ tenants' = TenantsAfterFencing(v)
  /\ virtuals' = [virtuals EXCEPT ![v] = Moved(WithoutAttachments(v), "Fenced")]
  /\ UNCHANGED <<running, epoch, policy, policy_generation, physical, backings,
                 assignments, migrations>>

RetireVirtual(v) ==
  LET owner == virtuals[v].owner IN
  /\ RequireOwner(v)
  /\ virtuals[v].state # "Retired"
  /\ CanAdvance(v)
  /\ leases' = FencedLeases({v})
  /\ tenants' = [TenantsAfterFencing(v) EXCEPT ![owner].owned = @ \ {v}]
  /\ ReleaseBinding(v)
  /\ virtuals' = [virtuals EXCEPT ![v] =
                    Moved(Unbound([@ EXCEPT !.active_attachments = 0]), "Retired")]
  /\ UNCHANGED <<running, epoch, policy, policy_generation, physical, migrations>>
=============================================================================
