------------------------------ MODULE Bindings -------------------------------
(***************************************************************************)
(* Binding an accelerator to a backing: assign_backing and replace_backing *)
(* (do_assign_backing, src/src/runtime.cpp 3326-3522).                     *)
(***************************************************************************)
EXTENDS Model

\* Mutant: the accelerator is rebound at its old generation.
BindQuietly(v, b, a, r, asg, bk) ==
  LET binding == r.backing_generation + 1 IN
  /\ assignments' = [asg EXCEPT ![a] =
                       [virtual |-> v, backing |-> b, backing_generation |-> binding,
                        state |-> "Active", authoritative |-> TRUE]]
  /\ backings' = [bk EXCEPT ![b].assigned_to = v, ![b].active_assignment = a]
  /\ virtuals' = [virtuals EXCEPT ![v] =
                    [r EXCEPT !.assignment = a, !.backing = b,
                              !.backing_generation = binding,
                              !.physical_generation = backings[b].physical_generation,
                              !.state = "Provisioned"]]

\* The binding both operations install: assignment a of backing b to v, made
\* over the assignments asg and backing records bk that remain.
Bind(v, b, a, r, asg, bk) ==
  LET binding == r.backing_generation + 1 IN
  /\ assignments' = [asg EXCEPT ![a] =
                       [virtual |-> v, backing |-> b, backing_generation |-> binding,
                        state |-> "Active", authoritative |-> TRUE]]
  /\ backings' = [bk EXCEPT ![b].assigned_to = v, ![b].active_assignment = a]
  /\ virtuals' = [virtuals EXCEPT ![v] =
                    Moved([r EXCEPT !.assignment = a, !.backing = b,
                                    !.backing_generation = binding,
                                    !.physical_generation = backings[b].physical_generation],
                          "Provisioned")]

\* What either operation asks of the accelerator and of the new backing.
MayBind(v, b, a) ==
  /\ RequireOwner(v)
  /\ RequireMutable(v)
  /\ BackingExists(b)
  /\ b # virtuals[v].backing
  /\ ValidateBackingFor(b, v, virtuals[v].contract, policy, backings, assignments)
  /\ CanAdvance(v)
  /\ IsNextAssignment(a)

AssignBacking(v, b, a) ==
  /\ MayBind(v, b, a)
  /\ virtuals[v].state \in {"Provisioned", "Suspended"}
  /\ ~HoldsAuthority(v)
  /\ Bind(v, b, a, virtuals[v], assignments, backings)
  /\ UNCHANGED <<running, epoch, policy, policy_generation, tenants, physical,
                 leases, migrations>>

\* Mutant: the previous assignment stays authoritative.
SupersededInNameOnly(a) == [assignments EXCEPT ![a].state = "Superseded"]

\* The previous assignment need not be authoritative any more; it is
\* superseded, and the previous backing forgets whoever holds it.
Superseded(a) ==
  [assignments EXCEPT ![a].authoritative = FALSE, ![a].state = "Superseded"]

ReplaceBacking(v, b, a) ==
  /\ MayBind(v, b, a)
  /\ virtuals[v].state \in {"Provisioned", "Suspended"} \cup AttachedStates
  /\ virtuals[v].assignment # 0
  /\ leases' = FencedLeases({v})
  /\ tenants' = TenantsAfterFencing(v)
  /\ Bind(v, b, a, WithoutAttachments(v), Superseded(virtuals[v].assignment),
          ReleasedBackings({virtuals[v].backing}))
  /\ UNCHANGED <<running, epoch, policy, policy_generation, physical, migrations>>
=============================================================================
