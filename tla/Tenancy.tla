------------------------------- MODULE Tenancy -------------------------------
(***************************************************************************)
(* The tenant operations of the runtime: create_tenant, fence_tenant and   *)
(* transfer_ownership (src/src/runtime.cpp, 2562-2759).                    *)
(***************************************************************************)
EXTENDS Model

\* create_tenant.  The policy's tenant maximum is the size of TenantIds.
CreateTenant(t) ==
  /\ running = "up"
  /\ IsNextTenant(t)
  /\ tenants' = [tenants EXCEPT ![t].generation = 1]
  /\ UNCHANGED <<running, epoch, policy, policy_generation, physical, backings,
                 virtuals, leases, assignments, migrations>>

(***************************************************************************)
(* fence_tenant: the tenant's generation moves, every accelerator it owns  *)
(* follows that generation and loses its leases, and the attached ones are *)
(* fenced.  Only the accelerators on the owned list follow.                *)
(***************************************************************************)
FenceTenant(t) ==
  LET owned == tenants[t].owned IN
  /\ running = "up"
  /\ TenantExists(t)
  /\ ~tenants[t].fenced
  /\ \A v \in owned : CanAdvance(v)
  /\ tenants' = [tenants EXCEPT ![t].fenced = TRUE, ![t].generation = @ + 1,
                                ![t].active_attachments = 0]
  /\ leases' = FencedLeases(owned)
  /\ virtuals' =
       [v \in VirtualIds |->
          IF v \in owned
          THEN Downgraded([WithoutAttachments(v) EXCEPT
                             !.owner_generation = tenants[t].generation + 1], "Fenced")
          ELSE virtuals[v]]
  /\ UNCHANGED <<running, epoch, policy, policy_generation, physical, backings,
                 assignments, migrations>>

\* Mutant: the leases of the previous owner stay live.
TransferWithLeases(v, t) ==
  LET source == virtuals[v].owner IN
  /\ RequireOwner(v)
  /\ TenantExists(t)
  /\ ~tenants[t].fenced
  /\ t # source
  /\ CanAdvance(v)
  /\ tenants' = [tenants EXCEPT ![source].owned = @ \ {v}, ![source].active_attachments = 0,
                                ![t].owned = @ \cup {v}]
  /\ virtuals' =
       [virtuals EXCEPT ![v] =
          [Downgraded(@, "Provisioned") EXCEPT
             !.owner = t, !.owner_generation = tenants[t].generation,
             !.active_attachments = 0, !.generation = virtuals[v].generation + 1]]
  /\ UNCHANGED <<running, epoch, policy, policy_generation, physical, backings,
                 leases, assignments, migrations>>

(***************************************************************************)
(* transfer_ownership: only the owner may transfer, in any lifecycle       *)
(* state.  The previous owner's attachment count becomes zero, whatever    *)
(* its other accelerators hold.                                            *)
(***************************************************************************)
TransferOwnership(v, t) ==
  LET source == virtuals[v].owner IN
  /\ RequireOwner(v)
  /\ TenantExists(t)
  /\ ~tenants[t].fenced
  /\ t # source
  /\ CanAdvance(v)
  /\ leases' = FencedLeases({v})
  /\ tenants' = [tenants EXCEPT ![source].owned = @ \ {v},
                                ![source].active_attachments = 0,
                                ![t].owned = @ \cup {v}]
  /\ virtuals' =
       [virtuals EXCEPT ![v].owner = t, ![v].owner_generation = tenants[t].generation,
                        ![v].active_attachments = 0,
                        ![v].state = IF @ \in AttachedStates THEN "Provisioned" ELSE @,
                        ![v].generation = @ + 1]
  /\ UNCHANGED <<running, epoch, policy, policy_generation, physical, backings,
                 assignments, migrations>>
=============================================================================
