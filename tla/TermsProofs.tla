----------------------------- MODULE TermsProofs -----------------------------
(***************************************************************************)
(* The strengthening behind AuthorityIsPermitted, and the operations that  *)
(* change neither a contract nor the policy: the authority they leave was  *)
(* licensed before and stays so.                                           *)
(*                                                                         *)
(* commit_migration validates nothing, so the induction carries what its   *)
(* plan still vouches for (PlansArePermitted): while neither the policy    *)
(* nor the accelerator has moved on, the destination is the permitted one  *)
(* that plan_migration validated.                                          *)
(***************************************************************************)
EXTENDS AuthorityProofs

\* A plan that neither the policy nor its accelerator has overtaken leads to a
\* destination that both permit.
PlansArePermitted ==
  \A m \in MigrationIds : migrations[m].generation # 0 =>
    LET plan == migrations[m]  r == virtuals[migrations[m].virtual] IN
    /\ plan.policy_generation <= policy_generation
    /\ plan.policy_generation = policy_generation /\ plan.virtual_generation = r.generation
         => plan.destination_backing \in policy.permits \cap r.contract.permits

\* set_policy passes over retired accelerators: they have nothing to lose.
RetiredIsUnbound ==
  \A v \in VirtualIds : virtuals[v].state = "Retired" => virtuals[v].assignment = 0

Licensed == AuthorityIsPermitted /\ PlansArePermitted /\ RetiredIsUnbound

-----------------------------------------------------------------------------
(* What the operations that withdraw leave alone. *)

\* k has the contract of r, and was not retired with its binding.
Steady(r, k) ==
  /\ k.contract = r.contract
  /\ k.state = "Retired" => r.state = "Retired" \/ k.assignment = 0

TermsKept == \A v \in VirtualIds : Steady(virtuals[v], virtuals'[v])

\* The policy stands, and every plan goes on naming the one it was made under.
PolicyKept ==
  /\ policy' = policy
  /\ policy_generation' = policy_generation
  /\ \A m \in MigrationIds : migrations'[m].generation # 0 =>
       migrations'[m].policy_generation = migrations[m].policy_generation

\* Moving, downgrading or fencing a record is steady.
LEMMA MovedSteady ==
  ASSUME NEW r \in VirtualAccelerator, NEW k \in VirtualAccelerator, Same(r, k),
         NEW s \in LifecycleStates \ {"Retired"}
  PROVE  Steady(r, k) /\ Steady(r, Moved(k, s)) /\ Steady(r, Downgraded(k, s))
<1>1. k.contract = r.contract /\ k.state = r.state
  BY DEF Same, Observed
<1>2. Moved(k, s).contract = k.contract /\ Moved(k, s).state = s
  BY DEF Moved, VirtualAccelerator
<1> QED
  BY <1>1, <1>2 DEF Steady, Downgraded

\* A plan that was not overtaken before the step was not touched by it either.
LEMMA PlansStayPermitted ==
  ASSUME Inductive, TypeOK', PlansArePermitted, VirtualsFollow,
         policy' = policy, policy_generation' = policy_generation,
         NEW m \in MigrationIds, PlanKept(m), migrations'[m].generation # 0,
         migrations'[m].policy_generation = migrations[m].policy_generation
  PROVE  LET plan == migrations'[m]  r == virtuals'[migrations'[m].virtual] IN
         /\ plan.policy_generation <= policy_generation'
         /\ plan.policy_generation = policy_generation' /\ plan.virtual_generation = r.generation
              => plan.destination_backing \in policy'.permits \cap r.contract.permits
<1> DEFINE v == migrations[m].virtual
           g == migrations[m].virtual_generation
<1>1. /\ migrations[m].generation # 0 /\ migrations'[m].virtual = v
      /\ migrations'[m].virtual_generation = g
      /\ migrations'[m].destination_backing = migrations[m].destination_backing
      /\ migrations'[m].policy_generation = migrations[m].policy_generation
  BY DEF PlanKept
<1>2. v \in VirtualIds /\ g <= virtuals[v].generation
  BY <1>1 DEF Inductive, Anchored, PlansAreOvertaken
<1>3. g \in Nat /\ virtuals[v].generation \in Nat /\ virtuals'[v].generation \in Nat
  <2>1. migrations[m] \in Migration
    BY DEF Inductive, TypeOK
  <2> QED
    BY <1>2, <2>1 DEF Inductive, TypeOK, Migration, VirtualAccelerator
<1>4. Follows(virtuals[v], virtuals'[v])
  BY <1>2 DEF VirtualsFollow
<1>5. ASSUME g = virtuals'[v].generation
      PROVE  g = virtuals[v].generation /\ virtuals'[v].contract = virtuals[v].contract
  <2>1. Same(virtuals[v], virtuals'[v])
    BY <1>2, <1>3, <1>4, <1>5 DEF Follows
  <2> QED
    BY <1>5, <2>1 DEF Same, Observed
<1> HIDE DEF v, g
<1>6. /\ migrations[m].policy_generation <= policy_generation
      /\ migrations[m].policy_generation = policy_generation /\ g = virtuals[v].generation
           => migrations[m].destination_backing \in policy.permits \cap virtuals[v].contract.permits
  BY <1>1 DEF PlansArePermitted, v, g
<1> QED
  BY <1>1, <1>5, <1>6

\* An operation that withdraws, and changes neither contract nor policy, keeps
\* every authority licensed.
LEMMA WithdrawalKeepsLicence ==
  ASSUME Inductive, TypeOK', Licensed, Withdraws, PolicyKept, TermsKept
  PROVE  Licensed'
<1>1. PlansArePermitted'
  BY PlansStayPermitted DEF Licensed, Withdraws, PlansKept, PolicyKept, PlansArePermitted
<1>2. AuthorityIsPermitted'
  <2> SUFFICES ASSUME NEW a \in AssignmentIds, assignments'[a].authoritative
               PROVE  /\ assignments'[a].backing \in policy'.permits
                      /\ assignments'[a].backing \in
                           virtuals'[assignments'[a].virtual].contract.permits
    BY DEF AuthorityIsPermitted
  <2>1. /\ assignments[a].authoritative
        /\ assignments'[a].virtual = assignments[a].virtual
        /\ assignments'[a].backing = assignments[a].backing
    BY DEF Withdraws, NoAuthorityGained
  <2>2. assignments[a].virtual \in VirtualIds
    BY <2>1, CurrentBinding DEF Inductive
  <2> QED
    BY <2>1, <2>2 DEF Licensed, AuthorityIsPermitted, PolicyKept, TermsKept, Steady
<1>3. RetiredIsUnbound'
  BY DEF Licensed, RetiredIsUnbound, TermsKept, Steady, Withdraws, BindingsOnlyEnd, SameBinding
<1> QED
  BY <1>1, <1>2, <1>3 DEF Licensed

-----------------------------------------------------------------------------
(* The operations that change neither a contract nor the policy. *)

\* Tenants.
LEMMA TenancyKeepsTerms ==
  ASSUME TypeOK, TenancyStep
  PROVE  TermsKept /\ PolicyKept
<1>1. PolicyKept
  <2>1. ASSUME NEW t \in TenantIds, CreateTenant(t) PROVE PolicyKept
    BY <2>1 DEF CreateTenant, PolicyKept
  <2>2. ASSUME NEW t \in TenantIds, FenceTenant(t) PROVE PolicyKept
    BY <2>2 DEF FenceTenant, PolicyKept
  <2>3. ASSUME NEW v \in VirtualIds, NEW t \in TenantIds, TransferOwnership(v, t)
        PROVE  PolicyKept
    BY <2>3 DEF TransferOwnership, PolicyKept
  <2> QED
    BY <2>1, <2>2, <2>3 DEF TenancyStep
<1>2. ASSUME NEW v \in VirtualIds PROVE Steady(virtuals[v], virtuals'[v])
  <2>1. virtuals[v] \in VirtualAccelerator
    BY DEF TypeOK
  <2>2. ASSUME virtuals'[v] = virtuals[v] PROVE Steady(virtuals[v], virtuals'[v])
    BY <2>2 DEF Steady
  <2>3. ASSUME NEW t \in TenantIds, FenceTenant(t), v \in tenants[t].owned
        PROVE  Steady(virtuals[v], virtuals'[v])
    <3> DEFINE h == tenants[t].generation + 1
               k == [WithoutAttachments(v) EXCEPT !.owner_generation = h]
    <3>1. virtuals'[v] = Downgraded(k, "Fenced")
      BY <2>3 DEF FenceTenant
    <3>2. h \in Nat
      BY DEF TypeOK, Tenant
    <3> HIDE DEF h
    <3>3. k \in VirtualAccelerator /\ Same(virtuals[v], k)
      BY <3>2, WithoutAttachmentsType, WithoutAttachmentsSame
         DEF VirtualAccelerator, Same, Observed
    <3> HIDE DEF k
    <3> QED
      BY <2>1, <3>1, <3>3, MovedSteady DEF LifecycleStates
  <2>4. ASSUME NEW t \in TenantIds, TransferOwnership(v, t)
        PROVE  Steady(virtuals[v], virtuals'[v])
    <3>1. /\ virtuals'[v].contract = virtuals[v].contract
          /\ virtuals'[v].state = IF virtuals[v].state \in AttachedStates THEN "Provisioned"
                                  ELSE virtuals[v].state
      BY <2>1, <2>4 DEF TypeOK, TransferOwnership, VirtualAccelerator
    <3> QED
      BY <3>1 DEF Steady
  <2>5. ASSUME NEW t \in TenantIds,
               \/ CreateTenant(t)
               \/ FenceTenant(t) /\ v \notin tenants[t].owned
               \/ \E u \in VirtualIds \ {v} : TransferOwnership(u, t)
        PROVE  virtuals'[v] = virtuals[v]
    BY <2>5 DEF CreateTenant, FenceTenant, TransferOwnership, TypeOK
  <2> QED
    BY <2>2, <2>3, <2>4, <2>5 DEF TenancyStep
<1> QED
  BY <1>1, <1>2 DEF TermsKept

\* Devices.
LEMMA DeviceKeepsTerms ==
  ASSUME TypeOK, DeviceStep
  PROVE  TermsKept /\ PolicyKept
<1>1. PolicyKept
  BY DEF DeviceStep, RegisterPhysical, ReplacePhysical, PhysicalLost, PolicyKept
<1>2. ASSUME NEW v \in VirtualIds PROVE Steady(virtuals[v], virtuals'[v])
  <2>1. virtuals[v] \in VirtualAccelerator /\ Same(virtuals[v], virtuals[v])
    BY DEF TypeOK, Same
  <2>2. WithoutAttachments(v) \in VirtualAccelerator /\ Same(virtuals[v], WithoutAttachments(v))
    BY WithoutAttachmentsType, WithoutAttachmentsSame
  <2>3. "RecoveryRequired" \in LifecycleStates \ {"Retired"}
    BY DEF LifecycleStates
  <2>4. \/ virtuals'[v] = virtuals[v]
        \/ virtuals'[v] = Moved(virtuals[v], "RecoveryRequired")
        \/ virtuals'[v] = Downgraded(WithoutAttachments(v), "RecoveryRequired")
    BY DEF DeviceStep, RegisterPhysical, ReplacePhysical, PhysicalLost
  <2> QED
    BY <2>1, <2>2, <2>3, <2>4, MovedSteady
<1> QED
  BY <1>1, <1>2 DEF TermsKept

\* The lifecycle, create_virtual and update_contract aside.
LEMMA LifecycleKeepsTerms ==
  ASSUME TypeOK, NEW u \in VirtualIds,
         \/ Activate(u) \/ Drain(u) \/ ResolveRecovery(u) \/ Resume(u)
         \/ Suspend(u) \/ FenceVirtual(u) \/ RetireVirtual(u)
  PROVE  TermsKept /\ PolicyKept
<1>1. PolicyKept
  BY DEF Activate, Drain, ResolveRecovery, Resume, MoveTo, Suspend, FenceVirtual,
         RetireVirtual, PolicyKept
<1>2. ASSUME NEW v \in VirtualIds
      PROVE  virtuals[v] \in VirtualAccelerator /\ Same(virtuals[v], virtuals[v])
  BY DEF TypeOK, Same
<1>3. ASSUME NEW v \in VirtualIds, virtuals'[v] = virtuals[v]
      PROVE  Steady(virtuals[v], virtuals'[v])
  BY <1>3 DEF Steady
<1>4. ASSUME NEW k, virtuals' = [virtuals EXCEPT ![u] = k], Steady(virtuals[u], k)
      PROVE  TermsKept
  BY <1>3, <1>4 DEF TypeOK, TermsKept
<1>5. ASSUME NEW r \in VirtualAccelerator, Same(virtuals[u], r), NEW s \in LifecycleStates
      PROVE  Steady(virtuals[u], Moved(Unbound(r), s))
  <2>1. /\ Moved(Unbound(r), s).contract = r.contract
        /\ Moved(Unbound(r), s).assignment = 0
    BY DEF Moved, Unbound, VirtualAccelerator
  <2> QED
    BY <1>5, <2>1 DEF Steady, Same, Observed
<1>6. CASE Activate(u) \/ Drain(u) \/ ResolveRecovery(u) \/ Resume(u)
  <2>1. PICK s \in LifecycleStates \ {"Retired"} : MoveTo(u, s)
    BY <1>6 DEF Activate, Drain, ResolveRecovery, Resume, LifecycleStates
  <2>2. virtuals' = [virtuals EXCEPT ![u] = Moved(virtuals[u], s)]
    BY <2>1 DEF MoveTo
  <2> QED
    BY <1>1, <1>2, <1>4, <2>2, MovedSteady
<1>7. CASE Suspend(u)
  <2>1. virtuals' = [virtuals EXCEPT ![u] = Moved(Unbound(virtuals[u]), "Suspended")]
    BY <1>7 DEF Suspend
  <2> QED
    BY <1>1, <1>2, <1>4, <1>5, <2>1 DEF LifecycleStates
<1>8. CASE FenceVirtual(u)
  <2>1. virtuals' = [virtuals EXCEPT ![u] = Moved(WithoutAttachments(u), "Fenced")]
    BY <1>8 DEF FenceVirtual
  <2>2. Steady(virtuals[u], Moved(WithoutAttachments(u), "Fenced"))
    BY <1>2, WithoutAttachmentsType, WithoutAttachmentsSame, MovedSteady DEF LifecycleStates
  <2> QED
    BY <1>1, <1>4, <2>1, <2>2
<1>9. CASE RetireVirtual(u)
  <2> DEFINE r == [virtuals[u] EXCEPT !.active_attachments = 0]
  <2>1. r \in VirtualAccelerator /\ Same(virtuals[u], r)
    BY <1>2 DEF VirtualAccelerator, Same, Observed
  <2>2. virtuals' = [virtuals EXCEPT ![u] = Moved(Unbound(r), "Retired")]
    BY <1>9 DEF RetireVirtual
  <2> HIDE DEF r
  <2> QED
    BY <1>1, <1>4, <1>5, <2>1, <2>2 DEF LifecycleStates
<1> QED
  BY <1>6, <1>7, <1>8, <1>9

\* Leases and allocations.
LEMMA AttachmentKeepsTerms ==
  ASSUME TypeOK, AttachmentStep
  PROVE  TermsKept /\ PolicyKept
<1>1. PolicyKept
  <2>1. policy' = policy /\ policy_generation' = policy_generation /\ migrations' = migrations
    BY DEF AttachmentStep, Attach, RenewLease, Detach, ReserveAllocation, ReleaseAllocation
  <2> QED
    BY <2>1 DEF PolicyKept
<1>2. ASSUME NEW v \in VirtualIds, NEW n \in Nat
      PROVE  /\ virtuals[v] \in VirtualAccelerator
             /\ [virtuals[v] EXCEPT !.active_attachments = n] \in VirtualAccelerator
             /\ Same(virtuals[v], [virtuals[v] EXCEPT !.active_attachments = n])
  BY DEF TypeOK, VirtualAccelerator, Same, Observed
<1>3. ASSUME NEW u, NEW k, virtuals' = [virtuals EXCEPT ![u] = k],
             u \in VirtualIds => Steady(virtuals[u], k)
      PROVE  TermsKept
  BY <1>3 DEF TypeOK, TermsKept, Steady
<1>4. ASSUME NEW u, NEW n, virtuals' = [virtuals EXCEPT ![u].allocated_bytes = n]
      PROVE  TermsKept
  <2>1. u \in VirtualIds => Steady(virtuals[u], [virtuals[u] EXCEPT !.allocated_bytes = n])
    BY DEF TypeOK, VirtualAccelerator, Steady
  <2> QED
    BY <1>3, <1>4, <2>1
<1>5. ASSUME NEW u \in VirtualIds, NEW n \in Nat, NEW s \in LifecycleStates \ {"Retired"},
             \/ virtuals' = [virtuals EXCEPT ![u] = [virtuals[u] EXCEPT !.active_attachments = n]]
             \/ virtuals' = [virtuals EXCEPT ![u] =
                               Moved([virtuals[u] EXCEPT !.active_attachments = n], s)]
      PROVE  TermsKept
  <2> DEFINE k == [virtuals[u] EXCEPT !.active_attachments = n]
  <2>1. Steady(virtuals[u], k) /\ Steady(virtuals[u], Moved(k, s))
    BY <1>2, MovedSteady
  <2> QED
    BY <1>3, <1>5, <2>1
<1>6. ASSUME NEW u \in VirtualIds, NEW l \in LeaseIds, Attach(u, l) PROVE TermsKept
  <2> DEFINE n == virtuals[u].active_attachments + 1
  <2>1. virtuals' = [virtuals EXCEPT ![u] =
                       Moved([virtuals[u] EXCEPT !.active_attachments = n], "Attached")]
    BY <1>6 DEF Attach
  <2>2. n \in Nat /\ "Attached" \in LifecycleStates \ {"Retired"}
    BY DEF TypeOK, VirtualAccelerator, LifecycleStates
  <2> HIDE DEF n
  <2> QED
    BY <1>5, <2>1, <2>2
<1>7. ASSUME NEW l \in LeaseIds, RenewLease(l) PROVE TermsKept
  BY <1>7 DEF RenewLease, TermsKept, Steady
<1>8. ASSUME NEW l \in LeaseIds, Detach(l) PROVE TermsKept
  <2> DEFINE u == leases[l].virtual
             n == Minus(virtuals[u].active_attachments, 1)
  <2>1. u \in VirtualIds
    BY <1>8 DEF Detach, RequireOwner, VirtualExists
  <2>2. n \in Nat /\ "Provisioned" \in LifecycleStates \ {"Retired"}
    BY <1>2, <2>1, MinusType DEF VirtualAccelerator, LifecycleStates
  <2>3. \/ virtuals' = [virtuals EXCEPT ![u] = [virtuals[u] EXCEPT !.active_attachments = n]]
        \/ virtuals' = [virtuals EXCEPT ![u] =
                          Moved([virtuals[u] EXCEPT !.active_attachments = n], "Provisioned")]
    BY <1>8 DEF Detach
  <2> HIDE DEF u, n
  <2> QED
    BY <1>5, <2>1, <2>2, <2>3
<1>9. ASSUME NEW l \in LeaseIds, NEW bytes \in AllocationSizes, ReserveAllocation(l, bytes)
      PROVE  TermsKept
  BY <1>4, <1>9 DEF ReserveAllocation
<1>10. ASSUME NEW u \in VirtualIds, NEW bytes \in AllocationSizes, ReleaseAllocation(u, bytes)
       PROVE  TermsKept
  BY <1>4, <1>10 DEF ReleaseAllocation
<1> QED
  BY <1>1, <1>6, <1>7, <1>8, <1>9, <1>10 DEF AttachmentStep

\* Crash, shutdown and the two commits of start().
LEMMA ProcessKeepsTerms ==
  ASSUME TypeOK, ProcessStep
  PROVE  TermsKept /\ PolicyKept
<1>1. PolicyKept
  <2>1. ASSUME NEW m \in MigrationIds
        PROVE  migrations'[m].policy_generation = migrations[m].policy_generation
    <3>1. migrations[m] \in Migration
      BY DEF TypeOK
    <3>2. \/ migrations'[m] = migrations[m]
          \/ migrations'[m] = [migrations[m] EXCEPT !.state = "Aborted"]
          \/ migrations'[m] = [migrations[m] EXCEPT !.state = "Completed"]
      BY DEF ProcessStep, Crash, RefuseStart, Shutdown, Start, ClassifyRecoveredMigrations
    <3> QED
      BY <3>1, <3>2 DEF Migration
  <2>2. policy' = policy /\ policy_generation' = policy_generation
    BY DEF ProcessStep, Crash, RefuseStart, Shutdown, Start, ClassifyRecoveredMigrations
  <2> QED
    BY <2>1, <2>2 DEF PolicyKept
<1>2. ASSUME NEW v \in VirtualIds PROVE Steady(virtuals[v], virtuals'[v])
  <2> DEFINE e == [virtuals[v] EXCEPT !.active_attachments = 0]
  <2>1. /\ virtuals[v] \in VirtualAccelerator /\ Same(virtuals[v], virtuals[v])
        /\ e \in VirtualAccelerator /\ Same(virtuals[v], e)
        /\ "Provisioned" \in LifecycleStates \ {"Retired"}
    BY DEF TypeOK, VirtualAccelerator, Same, Observed, LifecycleStates
  <2>2. \/ virtuals'[v] = virtuals[v]
        \/ virtuals'[v] = Downgraded(e, "Provisioned")
        \/ virtuals'[v] = Moved(virtuals[v], "Provisioned")
    BY DEF ProcessStep, Crash, RefuseStart, Shutdown, Start, ClassifyRecoveredMigrations,
           ReleaseAttachments
  <2> HIDE DEF e
  <2> QED
    BY <2>1, <2>2, MovedSteady
<1> QED
  BY <1>1, <1>2 DEF TermsKept

\* complete_migration and abort_migration.
LEMMA EndOfMigrationKeepsTerms ==
  ASSUME TypeOK, NEW m \in MigrationIds, CompleteMigration(m) \/ AbortMigration(m)
  PROVE  TermsKept /\ PolicyKept
<1>1. PolicyKept
  <2>1. \A k \in MigrationIds : migrations[k] \in Migration
    BY DEF TypeOK
  <2>2. PICK s : migrations' = [migrations EXCEPT ![m].state = s]
    BY DEF CompleteMigration, AbortMigration
  <2>3. \A k \in MigrationIds : migrations'[k].policy_generation = migrations[k].policy_generation
    BY <2>1, <2>2 DEF TypeOK, Migration
  <2> QED
    BY <2>3 DEF CompleteMigration, AbortMigration, PolicyKept
<1>2. ASSUME NEW v \in VirtualIds PROVE Steady(virtuals[v], virtuals'[v])
  <2>1. virtuals[v] \in VirtualAccelerator /\ Same(virtuals[v], virtuals[v])
    BY DEF TypeOK, Same
  <2>2. virtuals'[v] = virtuals[v] \/ virtuals'[v] = Moved(virtuals[v], "Provisioned")
    BY DEF CompleteMigration, AbortMigration, TypeOK
  <2> QED
    BY <2>1, <2>2, MovedSteady DEF LifecycleStates
<1> QED
  BY <1>1, <1>2 DEF TermsKept
=============================================================================
