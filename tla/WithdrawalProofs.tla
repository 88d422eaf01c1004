-------------------------- MODULE WithdrawalProofs ---------------------------
(***************************************************************************)
(* The inductive invariant behind the theorems of AuthorityProofs, and the *)
(* operations that create no authority.                                    *)
(*                                                                         *)
(* Authority is created in three operations only (assign_backing,          *)
(* replace_backing, commit_migration); every other one can only withdraw   *)
(* it (Withdraws).  commit_migration trusts what the plan recorded long    *)
(* before, so the induction carries what the plan still means: its two     *)
(* assignments belong to its accelerator (Bound), and a prepared plan that *)
(* is still fresh finds the accelerator in Migrating, because every change *)
(* since would have moved the generation (PlansAreOvertaken).              *)
(***************************************************************************)
EXTENDS TypeProofs

\* An accelerator names an assignment of its own, and a migration two
\* assignments of its accelerator, the second one on the destination backing.
Bound ==
  /\ \A v \in VirtualIds : virtuals[v].assignment # 0 =>
       assignments[virtuals[v].assignment].virtual = v
  /\ \A m \in MigrationIds : migrations[m].generation # 0 =>
       LET plan == migrations[m] IN
       /\ plan.source_assignment # 0
       /\ assignments[plan.source_assignment].virtual = plan.virtual
       /\ plan.destination_assignment # 0 =>
            /\ assignments[plan.destination_assignment].virtual = plan.virtual
            /\ assignments[plan.destination_assignment].backing = plan.destination_backing

\* A plan never runs ahead of its accelerator, and a prepared one that has not
\* been overtaken finds it in Migrating.
PlansAreOvertaken ==
  \A m \in MigrationIds : migrations[m].generation # 0 =>
    LET plan == migrations[m]  r == virtuals[migrations[m].virtual] IN
    /\ plan.virtual_generation <= r.generation
    /\ plan.state = "CommitReady" /\ plan.virtual_generation = r.generation
         => r.state = "Migrating"

\* The inductive invariant.
Inductive ==
  TypeOK /\ Anchored /\ Bound /\ PlansAreOvertaken /\ AuthoritativeIsCurrent

-----------------------------------------------------------------------------
(* What one step does to one accelerator record. *)

SameBinding(r, k) ==
  /\ k.assignment = r.assignment
  /\ k.backing = r.backing
  /\ k.backing_generation = r.backing_generation

\* To an observer, k is still r.
Same(r, k) == k.generation = r.generation /\ Observed(k) = Observed(r)

\* k is r, or a successor of r at a later generation.
Follows(r, k) ==
  \/ Same(r, k)
  \/ /\ k.generation > r.generation
     /\ k.owner \in TenantIds
     /\ k.state = r.state \/ IsLegalTransition(r.state, k.state)

\* The edges of the lifecycle table that operations take without asking for
\* them (lifecycle.cpp 35-69).
LEMMA TableEdges ==
  ASSUME NEW s \in LifecycleStates
  PROVE  /\ s \in AttachedStates =>
              /\ IsLegalTransition(s, "Provisioned")
              /\ IsLegalTransition(s, "Fenced")
         /\ s \in {"Created", "Suspended", "Migrating"} => IsLegalTransition(s, "Provisioned")
         /\ s \in {"Provisioned", "Draining"} => IsLegalTransition(s, "Suspended")
         /\ s \notin {"Retired", "RecoveryRequired"} => IsLegalTransition(s, "RecoveryRequired")
         /\ s # "Retired" => IsLegalTransition(s, "Retired")
         /\ s \in {"Provisioned", "Suspended"} => IsLegalTransition(s, "Attached")
BY DEF LifecycleStates, AttachedStates, IsLegalTransition, AllowedMask

\* What Moved keeps and what it changes.
LEMMA MovedFields ==
  ASSUME NEW r \in VirtualAccelerator, NEW s \in LifecycleStates
  PROVE  /\ SameBinding(r, Moved(r, s))
         /\ Moved(r, s).generation = r.generation + 1
         /\ Moved(r, s).state = s
         /\ Moved(r, s).owner = r.owner
BY DEF Moved, SameBinding, VirtualAccelerator

\* A record that only lost attachments, or whose other fields moved, is the
\* same to an observer; what follows it follows the original.
LEMMA SameFollows ==
  ASSUME NEW r \in VirtualAccelerator, NEW k \in VirtualAccelerator,
         NEW j \in VirtualAccelerator, Same(r, k), Follows(k, j)
  PROVE  Follows(r, j) /\ SameBinding(r, k)
BY DEF Same, Follows, Observed, SameBinding

\* A move along the table, of an accelerator with an owner, follows.
LEMMA MovedFollows ==
  ASSUME NEW r \in VirtualAccelerator, NEW s \in LifecycleStates, r.owner \in TenantIds,
         r.state = s \/ IsLegalTransition(r.state, s)
  PROVE  Follows(r, Moved(r, s)) /\ SameBinding(r, Moved(r, s))
<1>1. r.generation + 1 > r.generation
  BY DEF VirtualAccelerator
<1> QED
  BY <1>1, MovedFields DEF Follows

\* A withdrawal of service follows.
LEMMA DowngradedFollows ==
  ASSUME NEW r \in VirtualAccelerator, NEW s \in {"Provisioned", "Fenced", "RecoveryRequired"},
         r.state \in AttachedStates => r.owner \in TenantIds
  PROVE  Follows(r, Downgraded(r, s)) /\ SameBinding(r, Downgraded(r, s))
<1>1. CASE r.state \in AttachedStates
  <2>1. r.state \in LifecycleStates /\ s \in LifecycleStates
    BY DEF VirtualAccelerator, LifecycleStates
  <2>2. IsLegalTransition(r.state, s)
    BY <1>1, <2>1, TableEdges DEF AttachedStates
  <2> QED
    BY <1>1, <2>1, <2>2, MovedFollows DEF Downgraded
<1>2. CASE r.state \notin AttachedStates
  BY <1>2 DEF Downgraded, Follows, Same, SameBinding
<1> QED
  BY <1>1, <1>2

\* An attached accelerator, and one that was ever assigned, has an owner.
LEMMA AttachedHasOwner ==
  ASSUME TypeOK, Anchored, NEW v \in VirtualIds,
         \/ virtuals[v].state # "Created"
         \/ virtuals[v].assignment # 0
  PROVE  virtuals[v].owner \in TenantIds
BY DEF Anchored

\* fence_leases changes nothing an observer acts upon.
LEMMA WithoutAttachmentsSame ==
  ASSUME TypeOK, NEW v \in VirtualIds
  PROVE  Same(virtuals[v], WithoutAttachments(v))
BY DEF TypeOK, WithoutAttachments, VirtualAccelerator, Same, Observed

-----------------------------------------------------------------------------
(* What one step does to the whole state. *)

\* No assignment gains authority or changes what it binds.
NoAuthorityGained ==
  \A a \in AssignmentIds :
    /\ assignments'[a].virtual = assignments[a].virtual
    /\ assignments'[a].backing = assignments[a].backing
    /\ assignments'[a].backing_generation = assignments[a].backing_generation
    /\ assignments'[a].authoritative => assignments[a].authoritative

\* An accelerator keeps its binding, or loses it with its authority.
BindingsOnlyEnd ==
  \A v \in VirtualIds :
    \/ SameBinding(virtuals[v], virtuals'[v])
    \/ /\ virtuals'[v].assignment = 0
       /\ \A a \in AssignmentIds : assignments'[a].authoritative => assignments[a].virtual # v

VirtualsFollow == \A v \in VirtualIds : Follows(virtuals[v], virtuals'[v])

\* A plan that is in the map was there before, with the same records; it has
\* not been prepared by this step.
PlanKept(m) ==
  migrations'[m].generation # 0 =>
    /\ migrations[m].generation # 0
    /\ migrations'[m].virtual = migrations[m].virtual
    /\ migrations'[m].virtual_generation = migrations[m].virtual_generation
    /\ migrations'[m].destination_backing = migrations[m].destination_backing
    /\ migrations'[m].source_assignment = migrations[m].source_assignment
    /\ migrations'[m].destination_assignment = migrations[m].destination_assignment
    /\ migrations'[m].state = "CommitReady" => migrations[m].state = "CommitReady"

PlansKept == \A m \in MigrationIds : PlanKept(m)

\* An assignment that was ever made goes on binding the same accelerator.
AssignmentsKept ==
  \A a \in AssignmentIds : assignments[a].virtual # 0 =>
    /\ assignments'[a].virtual = assignments[a].virtual
    /\ assignments'[a].backing = assignments[a].backing

Withdraws == NoAuthorityGained /\ BindingsOnlyEnd /\ VirtualsFollow /\ PlansKept

\* What the induction shows of every step, type correctness aside.
Preserved == Anchored' /\ Bound' /\ PlansAreOvertaken' /\ AuthoritativeIsCurrent'

\* Accelerators that follow their predecessors stay anchored.
LEMMA FollowersAreAnchored ==
  ASSUME TypeOK, TypeOK', Anchored, VirtualsFollow,
         NEW v \in VirtualIds
  PROVE  IF virtuals'[v].generation = 0
         THEN virtuals'[v].state = "Created" /\ virtuals'[v].assignment = 0
         ELSE virtuals'[v].owner \in TenantIds
<1>1. Follows(virtuals[v], virtuals'[v])
  BY DEF VirtualsFollow
<1>2. virtuals[v].generation \in Nat /\ virtuals'[v].generation \in Nat
  BY DEF TypeOK, VirtualAccelerator
<1>3. CASE Same(virtuals[v], virtuals'[v])
  BY <1>3 DEF Same, Observed, Anchored
<1>4. CASE ~Same(virtuals[v], virtuals'[v])
  BY <1>1, <1>2, <1>4 DEF Follows
<1> QED
  BY <1>3, <1>4

\* An open plan is overtaken by whatever changes its accelerator.
LEMMA FollowersOvertake ==
  ASSUME TypeOK, TypeOK', VirtualsFollow, NEW v \in VirtualIds, NEW g \in Nat,
         g <= virtuals[v].generation
  PROVE  /\ g <= virtuals'[v].generation
         /\ g = virtuals'[v].generation =>
              g = virtuals[v].generation /\ virtuals'[v].state = virtuals[v].state
<1>1. Follows(virtuals[v], virtuals'[v])
  BY DEF VirtualsFollow
<1>2. virtuals[v].generation \in Nat /\ virtuals'[v].generation \in Nat
  BY DEF TypeOK, VirtualAccelerator
<1> QED
  BY <1>1, <1>2 DEF Follows, Same, Observed

\* A plan the step keeps goes on meaning what it meant: it is anchored, its
\* assignments are its accelerator's, and it is overtaken or still fresh.
LEMMA KeptPlan ==
  ASSUME TypeOK, TypeOK', Anchored, Bound, PlansAreOvertaken, VirtualsFollow, AssignmentsKept,
         NEW m \in MigrationIds, PlanKept(m), migrations'[m].generation # 0
  PROVE  LET plan == migrations'[m]  r == virtuals'[migrations'[m].virtual] IN
         /\ plan.virtual \in VirtualIds
         /\ plan.destination_backing \in Backings
         /\ plan.source_assignment # 0
         /\ assignments'[plan.source_assignment].virtual = plan.virtual
         /\ plan.destination_assignment # 0 =>
              /\ assignments'[plan.destination_assignment].virtual = plan.virtual
              /\ assignments'[plan.destination_assignment].backing = plan.destination_backing
         /\ plan.virtual_generation <= r.generation
         /\ plan.state = "CommitReady" /\ plan.virtual_generation = r.generation
              => r.state = "Migrating"
<1> DEFINE v == migrations[m].virtual
           g == migrations[m].virtual_generation
           source == migrations[m].source_assignment
           destination == migrations[m].destination_assignment
<1>1. /\ migrations'[m].virtual = v /\ migrations'[m].virtual_generation = g
      /\ migrations'[m].source_assignment = source
      /\ migrations'[m].destination_assignment = destination
      /\ migrations'[m].destination_backing = migrations[m].destination_backing
      /\ migrations'[m].state = "CommitReady" => migrations[m].state = "CommitReady"
  BY DEF PlanKept
<1>2. v \in VirtualIds /\ migrations[m].destination_backing \in Backings
  BY DEF PlanKept, Anchored
<1>3. /\ source \in AssignmentIds /\ assignments[source].virtual = v
      /\ destination # 0 =>
           /\ destination \in AssignmentIds
           /\ assignments[destination].virtual = v
           /\ assignments[destination].backing = migrations[m].destination_backing
  BY DEF PlanKept, Bound, TypeOK, Migration
<1>4. v # 0
  BY <1>2 DEF VirtualIds
<1>5. /\ g \in Nat /\ g <= virtuals[v].generation
      /\ migrations[m].state = "CommitReady" /\ g = virtuals[v].generation
           => virtuals[v].state = "Migrating"
  BY DEF PlanKept, PlansAreOvertaken, TypeOK, Migration
<1>6. source # 0
  BY <1>3 DEF AssignmentIds
<1> HIDE DEF v, g, source, destination
<1>7. /\ assignments'[source].virtual = v
      /\ destination # 0 =>
           /\ assignments'[destination].virtual = v
           /\ assignments'[destination].backing = migrations[m].destination_backing
  BY <1>3, <1>4 DEF AssignmentsKept
<1>8. /\ g <= virtuals'[v].generation
      /\ migrations[m].state = "CommitReady" /\ g = virtuals'[v].generation
           => virtuals'[v].state = "Migrating"
  BY <1>2, <1>5, FollowersOvertake
<1> QED
  BY <1>1, <1>2, <1>6, <1>7, <1>8

\* An accelerator that keeps its assignment keeps one of its own.
LEMMA KeptAssignment ==
  ASSUME TypeOK, Bound, AssignmentsKept, NEW v \in VirtualIds,
         virtuals'[v].assignment = virtuals[v].assignment, virtuals[v].assignment # 0
  PROVE  assignments'[virtuals'[v].assignment].virtual = v
<1>1. virtuals[v].assignment \in AssignmentIds /\ v # 0
  BY DEF TypeOK, VirtualAccelerator, VirtualIds
<1> QED
  BY <1>1 DEF Bound, AssignmentsKept

\* What an authoritative assignment says of the accelerator it binds.
LEMMA CurrentBinding ==
  ASSUME AuthoritativeIsCurrent, NEW a \in AssignmentIds, assignments[a].authoritative
  PROVE  LET r == virtuals[assignments[a].virtual] IN
         /\ assignments[a].virtual \in VirtualIds
         /\ r.assignment = a /\ r.backing = assignments[a].backing
         /\ r.backing_generation = assignments[a].backing_generation
BY DEF AuthoritativeIsCurrent

\* A step that only withdraws authority preserves everything.
LEMMA Withdrawal ==
  ASSUME TypeOK, TypeOK', Anchored, Bound, PlansAreOvertaken, AuthoritativeIsCurrent,
         Withdraws
  PROVE  Preserved
<1> USE DEF Withdraws
<1>1. AssignmentsKept
  BY DEF NoAuthorityGained, AssignmentsKept
<1>2. Anchored'
  BY <1>1, FollowersAreAnchored, KeptPlan DEF Anchored, PlansKept
<1>3. Bound'
  <2>1. ASSUME NEW v \in VirtualIds, virtuals'[v].assignment # 0
        PROVE  assignments'[virtuals'[v].assignment].virtual = v
    <3>1. virtuals'[v].assignment = virtuals[v].assignment
      BY <2>1 DEF BindingsOnlyEnd, SameBinding
    <3> QED
      BY <1>1, <2>1, <3>1, KeptAssignment
  <2> QED
    BY <1>1, <2>1, KeptPlan DEF Bound, PlansKept
<1>4. PlansAreOvertaken'
  BY <1>1, KeptPlan DEF PlansAreOvertaken, PlansKept
<1>5. AuthoritativeIsCurrent'
  <2> SUFFICES ASSUME NEW a \in AssignmentIds, assignments'[a].authoritative
               PROVE  /\ assignments'[a].virtual \in VirtualIds
                      /\ virtuals'[assignments'[a].virtual].assignment = a
                      /\ virtuals'[assignments'[a].virtual].backing = assignments'[a].backing
                      /\ virtuals'[assignments'[a].virtual].backing_generation
                           = assignments'[a].backing_generation
    BY DEF AuthoritativeIsCurrent
  <2> DEFINE v == assignments[a].virtual
  <2>1. /\ v \in VirtualIds
        /\ virtuals[v].assignment = a
        /\ virtuals[v].backing = assignments[a].backing
        /\ virtuals[v].backing_generation = assignments[a].backing_generation
    BY DEF NoAuthorityGained, AuthoritativeIsCurrent
  <2>2. SameBinding(virtuals[v], virtuals'[v])
    BY <2>1 DEF BindingsOnlyEnd
  <2> QED
    BY <2>1, <2>2 DEF NoAuthorityGained, SameBinding
<1> QED
  BY <1>2, <1>3, <1>4, <1>5 DEF Preserved

\* Ending assignments gives nobody authority and takes it from all it names.
LEMMA EndedEffect ==
  ASSUME TypeOK, NEW A, NEW s, assignments' = EndedAssignments(A, s)
  PROVE  /\ NoAuthorityGained
         /\ \A a \in AssignmentIds : assignments'[a].authoritative => a \notin A
BY DEF TypeOK, EndedAssignments, Assignment, NoAuthorityGained

\* Failing destinations gives nobody authority.
LEMMA FailedEffect ==
  ASSUME TypeOK, NEW M, assignments' = FailedDestinations(M)
  PROVE  NoAuthorityGained
BY DEF TypeOK, FailedDestinations, Assignment, NoAuthorityGained

\* Leaving the assignments, or the migrations, alone.
LEMMA UnchangedEffect ==
  /\ assignments' = assignments => NoAuthorityGained
  /\ migrations' = migrations => PlansKept
BY DEF NoAuthorityGained, PlansKept, PlanKept

\* An accelerator whose own assignment has ended has no authoritative one left.
LEMMA EndedBinding ==
  ASSUME TypeOK, AuthoritativeIsCurrent, NEW v \in VirtualIds, NEW A, NEW s,
         assignments' = EndedAssignments(A, s), virtuals[v].assignment \in A
  PROVE  \A a \in AssignmentIds : assignments'[a].authoritative => assignments[a].virtual # v
BY EndedEffect DEF NoAuthorityGained, AuthoritativeIsCurrent

-----------------------------------------------------------------------------
(* The operations that only withdraw authority, by group. *)

\* create_tenant, fence_tenant and transfer_ownership.
LEMMA TenancyWithdraws ==
  ASSUME TypeOK, Anchored, TenancyStep
  PROVE  Withdraws
<1>1. NoAuthorityGained /\ PlansKept
  <2>1. assignments' = assignments /\ migrations' = migrations
    <3>1. ASSUME NEW t \in TenantIds, CreateTenant(t)
          PROVE  assignments' = assignments /\ migrations' = migrations
      BY <3>1 DEF CreateTenant
    <3>2. ASSUME NEW t \in TenantIds, FenceTenant(t)
          PROVE  assignments' = assignments /\ migrations' = migrations
      BY <3>2 DEF FenceTenant
    <3>3. ASSUME NEW v \in VirtualIds, NEW t \in TenantIds, TransferOwnership(v, t)
          PROVE  assignments' = assignments /\ migrations' = migrations
      BY <3>3 DEF TransferOwnership
    <3> QED
      BY <3>1, <3>2, <3>3 DEF TenancyStep
  <2> QED
    BY <2>1, UnchangedEffect
<1>2. ASSUME NEW v \in VirtualIds
      PROVE  Follows(virtuals[v], virtuals'[v]) /\ SameBinding(virtuals[v], virtuals'[v])
  <2>1. virtuals[v] \in VirtualAccelerator
    BY DEF TypeOK
  <2>2. ASSUME virtuals'[v] = virtuals[v]
        PROVE  Follows(virtuals[v], virtuals'[v]) /\ SameBinding(virtuals[v], virtuals'[v])
    BY <2>2 DEF Follows, Same, SameBinding
  <2>3. ASSUME NEW t \in TenantIds, CreateTenant(t) PROVE virtuals'[v] = virtuals[v]
    BY <2>3 DEF CreateTenant
  <2>4. ASSUME NEW t \in TenantIds, FenceTenant(t), v \in tenants[t].owned
        PROVE  Follows(virtuals[v], virtuals'[v]) /\ SameBinding(virtuals[v], virtuals'[v])
    <3> DEFINE h == tenants[t].generation + 1
               k == [WithoutAttachments(v) EXCEPT !.owner_generation = h]
    <3>1. virtuals'[v] = Downgraded(k, "Fenced")
      BY <2>4 DEF FenceTenant
    <3>2. h \in Nat
      BY DEF TypeOK, Tenant
    <3> HIDE DEF h
    <3>3. k \in VirtualAccelerator /\ Same(virtuals[v], k)
      BY <3>2, WithoutAttachmentsType, WithoutAttachmentsSame
         DEF VirtualAccelerator, Same, Observed
    <3> HIDE DEF k
    <3>4. k.state \in AttachedStates => k.owner \in TenantIds
      BY <3>3, AttachedHasOwner DEF Same, Observed, AttachedStates
    <3>5. Follows(k, virtuals'[v]) /\ SameBinding(k, virtuals'[v])
      BY <3>1, <3>3, <3>4, DowngradedFollows
    <3>6. virtuals'[v] \in VirtualAccelerator
      BY <3>1, <3>3, DowngradedType DEF LifecycleStates
    <3> QED
      BY <2>1, <3>3, <3>5, <3>6, SameFollows DEF SameBinding
  <2>5. ASSUME NEW t \in TenantIds, FenceTenant(t), v \notin tenants[t].owned
        PROVE  virtuals'[v] = virtuals[v]
    BY <2>5 DEF FenceTenant
  <2>6. ASSUME NEW t \in TenantIds, TransferOwnership(v, t)
        PROVE  Follows(virtuals[v], virtuals'[v]) /\ SameBinding(virtuals[v], virtuals'[v])
    <3>1. /\ SameBinding(virtuals[v], virtuals'[v])
          /\ virtuals'[v].owner = t
          /\ virtuals'[v].generation = virtuals[v].generation + 1
          /\ virtuals'[v].state = IF virtuals[v].state \in AttachedStates THEN "Provisioned"
                                  ELSE virtuals[v].state
      BY <2>1, <2>6 DEF TypeOK, TransferOwnership, SameBinding, VirtualAccelerator
    <3>2. virtuals[v].generation \in Nat /\ virtuals[v].state \in LifecycleStates
      BY <2>1 DEF VirtualAccelerator
    <3> QED
      BY <3>1, <3>2, TableEdges DEF Follows
  <2>7. ASSUME NEW u \in VirtualIds, NEW t \in TenantIds, TransferOwnership(u, t), u # v
        PROVE  virtuals'[v] = virtuals[v]
    BY <2>7 DEF TransferOwnership, TypeOK
  <2> QED
    BY <2>2, <2>3, <2>4, <2>5, <2>6, <2>7 DEF TenancyStep
<1> QED
  BY <1>1, <1>2 DEF Withdraws, VirtualsFollow, BindingsOnlyEnd

\* register_physical, for the same device and for another one, and physical_lost.
LEMMA DeviceWithdraws ==
  ASSUME TypeOK, Anchored, AuthoritativeIsCurrent, DeviceStep
  PROVE  Withdraws
<1>1. PlansKept
  BY UnchangedEffect DEF DeviceStep, RegisterPhysical, ReplacePhysical, PhysicalLost
<1>2. NoAuthorityGained
  BY UnchangedEffect, EndedEffect
     DEF DeviceStep, RegisterPhysical, ReplacePhysical, PhysicalLost, RevokedAssignments
<1>3. ASSUME NEW v \in VirtualIds
      PROVE  Follows(virtuals[v], virtuals'[v]) /\ SameBinding(virtuals[v], virtuals'[v])
  <2>1. virtuals[v] \in VirtualAccelerator /\ virtuals[v].state \in LifecycleStates
    BY DEF TypeOK, VirtualAccelerator
  <2>2. ASSUME virtuals'[v] = virtuals[v]
        PROVE  Follows(virtuals[v], virtuals'[v]) /\ SameBinding(virtuals[v], virtuals'[v])
    BY <2>2 DEF Follows, Same, SameBinding
  <2>3. ASSUME NEW d \in Devices, NEW listed \in SUBSET Backings, RegisterPhysical(d, listed)
        PROVE  virtuals'[v] = virtuals[v]
    BY <2>3 DEF RegisterPhysical
  <2>4. ASSUME NEW d \in Devices, NEW listed \in SUBSET Backings, ReplacePhysical(d, listed)
        PROVE  Follows(virtuals[v], virtuals'[v]) /\ SameBinding(virtuals[v], virtuals'[v])
    <3> DEFINE displaced == DisplacedAssignments(d)
               holders == {assignments[a].virtual : a \in displaced}
    <3>1. virtuals'[v] = IF v \in holders /\ virtuals[v].state # "Retired"
                         THEN Moved(virtuals[v], "RecoveryRequired") ELSE virtuals[v]
      BY <2>4 DEF ReplacePhysical
    <3>2. CASE ~(v \in holders /\ virtuals[v].state # "Retired")
      BY <2>2, <3>1, <3>2
    <3>3. CASE v \in holders /\ virtuals[v].state # "Retired"
      <4>1. PICK a \in AssignmentIds : assignments[a].authoritative /\ assignments[a].virtual = v
        BY <3>3 DEF DisplacedAssignments
      <4>2. virtuals[v].assignment # 0
        BY <4>1 DEF AuthoritativeIsCurrent, AssignmentIds
      <4>3. virtuals[v].owner \in TenantIds
        BY <4>2, AttachedHasOwner
      <4>4. \/ virtuals[v].state = "RecoveryRequired"
            \/ IsLegalTransition(virtuals[v].state, "RecoveryRequired")
        BY <2>1, <3>3, TableEdges
      <4>5. virtuals'[v] = Moved(virtuals[v], "RecoveryRequired")
        BY <3>1, <3>3
      <4> QED
        BY <2>1, <4>3, <4>4, <4>5, MovedFollows DEF LifecycleStates
    <3> QED
      BY <3>2, <3>3
  <2>5. ASSUME NEW d \in Devices, PhysicalLost(d)
        PROVE  Follows(virtuals[v], virtuals'[v]) /\ SameBinding(virtuals[v], virtuals'[v])
    <3> DEFINE k == WithoutAttachments(v)
    <3>1. \/ virtuals'[v] = virtuals[v]
          \/ virtuals'[v] = Downgraded(k, "RecoveryRequired")
      BY <2>5 DEF PhysicalLost
    <3>2. k \in VirtualAccelerator /\ Same(virtuals[v], k)
      BY WithoutAttachmentsType, WithoutAttachmentsSame
    <3> HIDE DEF k
    <3>3. k.state \in AttachedStates => k.owner \in TenantIds
      BY <3>2, AttachedHasOwner DEF Same, Observed, AttachedStates
    <3>4. /\ Follows(k, Downgraded(k, "RecoveryRequired"))
          /\ SameBinding(k, Downgraded(k, "RecoveryRequired"))
      BY <3>2, <3>3, DowngradedFollows
    <3>5. Downgraded(k, "RecoveryRequired") \in VirtualAccelerator
      BY <3>2, DowngradedType DEF LifecycleStates
    <3> QED
      BY <2>1, <2>2, <3>1, <3>2, <3>4, <3>5, SameFollows DEF SameBinding
  <2> QED
    BY <2>2, <2>3, <2>4, <2>5 DEF DeviceStep
<1> QED
  BY <1>1, <1>2, <1>3 DEF Withdraws, VirtualsFollow, BindingsOnlyEnd

\* The operations of the lifecycle.
LEMMA LifecycleWithdraws ==
  ASSUME TypeOK, Anchored, AuthoritativeIsCurrent, LifecycleStep
  PROVE  Withdraws
<1> DEFINE Kept(v) == Follows(virtuals[v], virtuals'[v]) /\ SameBinding(virtuals[v], virtuals'[v])
           Others(v) == \A u \in VirtualIds \ {v} : virtuals'[u] = virtuals[u]
           Frame == NoAuthorityGained /\ PlansKept
<1>1. ASSUME NEW v \in VirtualIds
      PROVE  virtuals[v] \in VirtualAccelerator /\ virtuals[v].state \in LifecycleStates
  BY DEF TypeOK, VirtualAccelerator
<1>2. ASSUME NEW v \in VirtualIds, RequireOwner(v) PROVE virtuals[v].owner \in TenantIds
  BY <1>2 DEF RequireOwner, VirtualExists, Anchored
<1>3. ASSUME NEW v \in VirtualIds, Others(v), Frame, Kept(v) PROVE Withdraws
  <2>1. \A u \in VirtualIds : Kept(u)
    BY <1>3 DEF Follows, Same, SameBinding
  <2> HIDE DEF Kept
  <2>2. \A u \in VirtualIds :
          Follows(virtuals[u], virtuals'[u]) /\ SameBinding(virtuals[u], virtuals'[u])
    BY <2>1 DEF Kept
  <2> QED
    BY <1>3, <2>2 DEF Withdraws, VirtualsFollow, BindingsOnlyEnd
<1>4. ASSUME NEW v \in VirtualIds, Others(v), Frame, Follows(virtuals[v], virtuals'[v]),
             virtuals'[v].assignment = 0,
             \A a \in AssignmentIds : assignments'[a].authoritative => assignments[a].virtual # v
      PROVE  Withdraws
  <2>1. \A u \in VirtualIds \ {v} :
          Follows(virtuals[u], virtuals'[u]) /\ SameBinding(virtuals[u], virtuals'[u])
    BY <1>4 DEF Follows, Same, SameBinding
  <2> QED
    BY <1>4, <2>1 DEF Withdraws, VirtualsFollow, BindingsOnlyEnd
<1>5. ASSUME NEW v \in VirtualIds, NEW s \in LifecycleStates, RequireOwner(v), MoveTo(v, s)
      PROVE  Withdraws
  <2>1. virtuals'[v] = Moved(virtuals[v], s) /\ Others(v)
    BY <1>5 DEF MoveTo, TypeOK
  <2>2. Frame
    BY <1>5, UnchangedEffect DEF MoveTo
  <2>3. IsLegalTransition(virtuals[v].state, s)
    BY <1>5 DEF MoveTo
  <2>4. Kept(v)
    BY <1>1, <1>2, <1>5, <2>1, <2>3, MovedFollows
  <2> HIDE DEF Frame, Others, Kept
  <2> QED
    BY <1>3, <2>1, <2>2, <2>4
<1>6. ASSUME NEW v \in VirtualIds, NEW t \in TenantIds, NEW c \in Contracts,
             CreateVirtual(v, t, c)
      PROVE  Withdraws
  <2> DEFINE r == [NoVirtual EXCEPT !.generation = 1, !.state = "Provisioned", !.owner = t,
                                    !.owner_generation = tenants[t].generation,
                                    !.contract = c]
  <2>1. virtuals'[v] = r /\ Others(v)
    BY <1>6 DEF CreateVirtual, TypeOK
  <2>2. Frame
    BY <1>6, UnchangedEffect DEF CreateVirtual
  <2>3. /\ r.generation = 1 /\ r.state = "Provisioned"
        /\ r.owner = t /\ r.assignment = 0
    BY DEF NoVirtual
  <2>4. virtuals[v].generation = 0
    BY <1>6 DEF CreateVirtual, IsNextVirtual
  <2>5. virtuals[v].state = "Created" /\ virtuals[v].assignment = 0
    BY <2>4 DEF Anchored
  <2>6. Follows(virtuals[v], virtuals'[v])
    BY <1>1, <2>1, <2>3, <2>4, <2>5, TableEdges DEF Follows
  <2>7. \A a \in AssignmentIds : assignments'[a].authoritative => assignments[a].virtual # v
    BY <2>2, <2>5 DEF NoAuthorityGained, AuthoritativeIsCurrent, AssignmentIds
  <2> HIDE DEF Frame, Others
  <2> QED
    BY <1>4, <2>1, <2>2, <2>3, <2>6, <2>7
<1>7. ASSUME NEW v \in VirtualIds, NEW c \in Contracts, UpdateContract(v, c) PROVE Withdraws
  <2>1. /\ Others(v)
        /\ SameBinding(virtuals[v], virtuals'[v])
        /\ virtuals'[v].generation = virtuals[v].generation + 1
        /\ virtuals'[v].state = virtuals[v].state
        /\ virtuals'[v].owner = virtuals[v].owner
    BY <1>1, <1>7 DEF UpdateContract, TypeOK, SameBinding, VirtualAccelerator
  <2>2. Frame
    BY <1>7, UnchangedEffect DEF UpdateContract
  <2>3. virtuals[v].owner \in TenantIds /\ virtuals[v].generation \in Nat
    BY <1>1, <1>2, <1>7 DEF UpdateContract, VirtualAccelerator
  <2>4. Kept(v)
    BY <2>1, <2>3 DEF Follows
  <2> HIDE DEF Frame, Others, Kept
  <2> QED
    BY <1>3, <2>1, <2>2, <2>4
<1>8. ASSUME NEW v \in VirtualIds, Activate(v) \/ Drain(v) \/ ResolveRecovery(v) \/ Resume(v)
      PROVE  Withdraws
  BY <1>5, <1>8 DEF Activate, Drain, ResolveRecovery, Resume, LifecycleStates
<1>9. ASSUME NEW r \in VirtualAccelerator, NEW s \in LifecycleStates
      PROVE  /\ Moved(Unbound(r), s).generation = r.generation + 1
             /\ Moved(Unbound(r), s).state = s
             /\ Moved(Unbound(r), s).owner = r.owner
             /\ Moved(Unbound(r), s).assignment = 0
  BY DEF Moved, Unbound, VirtualAccelerator
<1>10. ASSUME NEW v \in VirtualIds, NEW s \in LifecycleStates, NEW r \in VirtualAccelerator,
              RequireOwner(v), Same(virtuals[v], r), IsLegalTransition(virtuals[v].state, s),
              ReleaseBinding(v), migrations' = migrations,
              virtuals' = [virtuals EXCEPT ![v] = Moved(Unbound(r), s)]
       PROVE  Withdraws
  <2>1. virtuals'[v] = Moved(Unbound(r), s) /\ Others(v)
    BY <1>10 DEF TypeOK
  <2>2. assignments' = EndedAssignments({virtuals[v].assignment}, "Revoked")
    BY <1>10 DEF ReleaseBinding, RevokedAssignments
  <2>3. Frame
    BY <1>10, <2>2, EndedEffect, UnchangedEffect
  <2>4. \A a \in AssignmentIds : assignments'[a].authoritative => assignments[a].virtual # v
    BY <2>2, EndedBinding
  <2>5. virtuals[v].owner \in TenantIds /\ virtuals[v].generation \in Nat
    BY <1>1, <1>2, <1>10 DEF VirtualAccelerator
  <2>6. r.owner = virtuals[v].owner /\ r.generation = virtuals[v].generation
    BY <1>10 DEF Same, Observed
  <2>7. Follows(virtuals[v], virtuals'[v]) /\ virtuals'[v].assignment = 0
    BY <1>9, <1>10, <2>1, <2>5, <2>6 DEF Follows
  <2> HIDE DEF Frame, Others
  <2> QED
    BY <1>4, <2>1, <2>3, <2>4, <2>7
<1>11. ASSUME NEW v \in VirtualIds, Suspend(v) PROVE Withdraws
  <2>1. Same(virtuals[v], virtuals[v]) /\ "Suspended" \in LifecycleStates
    BY DEF Same, LifecycleStates
  <2>2. IsLegalTransition(virtuals[v].state, "Suspended")
    BY <1>1, <1>11, TableEdges DEF Suspend
  <2> QED
    BY <1>1, <1>10, <1>11, <2>1, <2>2 DEF Suspend
<1>12. ASSUME NEW v \in VirtualIds, FenceVirtual(v) PROVE Withdraws
  <2> DEFINE k == WithoutAttachments(v)
  <2>1. virtuals'[v] = Moved(k, "Fenced") /\ Others(v)
    BY <1>12 DEF FenceVirtual, TypeOK
  <2>2. Frame
    BY <1>12, UnchangedEffect DEF FenceVirtual
  <2>3. k \in VirtualAccelerator /\ Same(virtuals[v], k) /\ "Fenced" \in LifecycleStates
    BY WithoutAttachmentsType, WithoutAttachmentsSame DEF LifecycleStates
  <2>4. IsLegalTransition(k.state, "Fenced") /\ k.owner \in TenantIds
    BY <1>2, <1>12, <2>3 DEF FenceVirtual, Same, Observed
  <2> HIDE DEF k
  <2>5. Follows(k, Moved(k, "Fenced")) /\ SameBinding(k, Moved(k, "Fenced"))
    BY <2>3, <2>4, MovedFollows
  <2>6. Moved(k, "Fenced") \in VirtualAccelerator
    BY <2>3, MovedType
  <2>7. Kept(v)
    BY <1>1, <2>1, <2>3, <2>5, <2>6, SameFollows DEF SameBinding
  <2> HIDE DEF Frame, Others, Kept
  <2> QED
    BY <1>3, <2>1, <2>2, <2>7
<1>13. ASSUME NEW v \in VirtualIds, RetireVirtual(v) PROVE Withdraws
  <2> DEFINE r == [virtuals[v] EXCEPT !.active_attachments = 0]
  <2>1. r \in VirtualAccelerator /\ Same(virtuals[v], r)
    BY <1>1 DEF VirtualAccelerator, Same, Observed
  <2>2. virtuals' = [virtuals EXCEPT ![v] = Moved(Unbound(r), "Retired")]
    BY <1>13 DEF RetireVirtual
  <2>3. IsLegalTransition(virtuals[v].state, "Retired") /\ "Retired" \in LifecycleStates
    BY <1>1, <1>13, TableEdges DEF RetireVirtual, LifecycleStates
  <2>4. RequireOwner(v) /\ ReleaseBinding(v) /\ migrations' = migrations
    BY <1>13 DEF RetireVirtual
  <2> HIDE DEF r
  <2> QED
    BY <1>10, <2>1, <2>2, <2>3, <2>4
<1> QED
  BY <1>6, <1>7, <1>8, <1>11, <1>12, <1>13 DEF LifecycleStep

\* attach, renew_lease, detach and the allocations.
LEMMA AttachmentWithdraws ==
  ASSUME TypeOK, Anchored, AttachmentStep
  PROVE  Withdraws
<1> DEFINE Kept(v) == Follows(virtuals[v], virtuals'[v]) /\ SameBinding(virtuals[v], virtuals'[v])
<1>1. NoAuthorityGained /\ PlansKept
  <2>1. assignments' = assignments /\ migrations' = migrations
    BY DEF AttachmentStep, Attach, RenewLease, Detach, ReserveAllocation, ReleaseAllocation
  <2> QED
    BY <2>1, UnchangedEffect
<1>2. ASSUME NEW v \in VirtualIds
      PROVE  virtuals[v] \in VirtualAccelerator /\ virtuals[v].state \in LifecycleStates
  BY DEF TypeOK, VirtualAccelerator
<1>3. ASSUME NEW v \in VirtualIds, virtuals'[v] = virtuals[v] PROVE Kept(v)
  BY <1>3 DEF Follows, Same, SameBinding
<1>4. ASSUME NEW v \in VirtualIds, NEW k \in VirtualAccelerator, Same(virtuals[v], k),
             NEW s \in LifecycleStates, IsLegalTransition(k.state, s), RequireOwner(v),
             virtuals'[v] = Moved(k, s)
      PROVE  Kept(v)
  <2>1. k.owner \in TenantIds
    BY <1>4 DEF RequireOwner, VirtualExists, Anchored, Same, Observed
  <2>2. Follows(k, Moved(k, s)) /\ SameBinding(k, Moved(k, s))
    BY <1>4, <2>1, MovedFollows
  <2>3. Moved(k, s) \in VirtualAccelerator
    BY MovedType
  <2> QED
    BY <1>2, <1>4, <2>2, <2>3, SameFollows DEF SameBinding
<1>5. ASSUME NEW v \in VirtualIds, NEW n \in Nat
      PROVE  /\ [virtuals[v] EXCEPT !.active_attachments = n] \in VirtualAccelerator
             /\ Same(virtuals[v], [virtuals[v] EXCEPT !.active_attachments = n])
  BY <1>2 DEF VirtualAccelerator, Same, Observed
<1>6. ASSUME NEW u \in VirtualIds, NEW l \in LeaseIds, Attach(u, l), NEW v \in VirtualIds
      PROVE  Kept(v)
  <2> DEFINE n == virtuals[u].active_attachments + 1
             k == [virtuals[u] EXCEPT !.active_attachments = n]
  <2>1. virtuals' = [virtuals EXCEPT ![u] = Moved(k, "Attached")]
    BY <1>6 DEF Attach
  <2>2. n \in Nat
    BY <1>2 DEF VirtualAccelerator
  <2>3. k \in VirtualAccelerator /\ Same(virtuals[u], k)
    BY <1>5, <2>2
  <2> HIDE DEF n, k
  <2>4. IsLegalTransition(k.state, "Attached") /\ "Attached" \in LifecycleStates
    BY <1>2, <1>6, <2>3, TableEdges DEF Attach, Same, Observed, LifecycleStates
  <2>5. CASE v = u
    <3>1. virtuals'[u] = Moved(k, "Attached") /\ RequireOwner(u)
      BY <1>6, <2>1 DEF TypeOK, Attach
    <3> QED
      BY <1>4, <2>3, <2>4, <2>5, <3>1
  <2>6. CASE v # u
    BY <1>3, <2>1, <2>6 DEF TypeOK
  <2> QED
    BY <2>5, <2>6
<1>7. ASSUME NEW l \in LeaseIds, RenewLease(l), NEW v \in VirtualIds PROVE Kept(v)
  BY <1>3, <1>7 DEF RenewLease
<1>8. ASSUME NEW l \in LeaseIds, Detach(l), NEW v \in VirtualIds PROVE Kept(v)
  <2> DEFINE u == leases[l].virtual
             n == Minus(virtuals[u].active_attachments, 1)
             k == [virtuals[u] EXCEPT !.active_attachments = n]
  <2>1. u \in VirtualIds /\ RequireOwner(u)
    BY <1>8 DEF Detach, RequireOwner, VirtualExists
  <2>2. n \in Nat
    BY <1>2, <2>1, MinusType DEF VirtualAccelerator
  <2>3. k \in VirtualAccelerator /\ Same(virtuals[u], k)
    BY <1>5, <2>1, <2>2
  <2>4. \/ virtuals' = [virtuals EXCEPT ![u] = k]
        \/ /\ virtuals' = [virtuals EXCEPT ![u] = Moved(k, "Provisioned")]
           /\ IsLegalTransition(k.state, "Provisioned")
    BY <1>8 DEF Detach
  <2> HIDE DEF u, n, k
  <2>5. CASE v # u
    BY <1>3, <2>1, <2>4, <2>5 DEF TypeOK
  <2>6. CASE v = u /\ virtuals'[v] = k
    BY <2>3, <2>6 DEF Same, Observed, Follows, SameBinding
  <2>7. CASE v = u /\ virtuals'[v] = Moved(k, "Provisioned")
                   /\ IsLegalTransition(k.state, "Provisioned")
    BY <1>4, <2>1, <2>3, <2>7 DEF LifecycleStates
  <2> QED
    BY <2>1, <2>4, <2>5, <2>6, <2>7 DEF TypeOK
<1>9. ASSUME NEW u \in VirtualIds, NEW n, NEW v \in VirtualIds,
             virtuals' = [virtuals EXCEPT ![u].allocated_bytes = n]
      PROVE  Kept(v)
  BY <1>2, <1>9 DEF TypeOK, VirtualAccelerator, Same, Observed, Follows, SameBinding
<1>10. ASSUME NEW l \in LeaseIds, NEW bytes \in AllocationSizes, ReserveAllocation(l, bytes),
              NEW v \in VirtualIds
       PROVE  Kept(v)
  <2> DEFINE u == leases[l].virtual
             n == virtuals[u].allocated_bytes + bytes
  <2>1. u \in VirtualIds
    BY <1>10 DEF ReserveAllocation, RequireOwner, VirtualExists
  <2>2. virtuals' = [virtuals EXCEPT ![u].allocated_bytes = n]
    BY <1>10 DEF ReserveAllocation
  <2> HIDE DEF u, n, Kept
  <2> QED
    BY <1>9, <2>1, <2>2
<1>11. ASSUME NEW u \in VirtualIds, NEW bytes \in AllocationSizes, ReleaseAllocation(u, bytes),
              NEW v \in VirtualIds
       PROVE  Kept(v)
  <2> DEFINE n == virtuals[u].allocated_bytes - bytes
  <2>1. virtuals' = [virtuals EXCEPT ![u].allocated_bytes = n]
    BY <1>11 DEF ReleaseAllocation
  <2> HIDE DEF n, Kept
  <2> QED
    BY <1>9, <2>1
<1>12. \A v \in VirtualIds : Kept(v)
  BY <1>6, <1>7, <1>8, <1>10, <1>11 DEF AttachmentStep
<1> QED
  BY <1>1, <1>12 DEF Withdraws, VirtualsFollow, BindingsOnlyEnd

\* set_policy.
LEMMA PolicyWithdraws ==
  ASSUME TypeOK, Anchored, AuthoritativeIsCurrent, PolicyStep
  PROVE  Withdraws
<1>1. PICK p \in Policies : SetPolicy(p)
  BY DEF PolicyStep
<1>2. PICK V \in SUBSET VirtualIds :
        /\ Invalidated(V, p)
        /\ assignments' = AssignmentsWithout(V)
        /\ virtuals' = [v \in VirtualIds |->
                          IF v \in Governed THEN Regoverned(v, v \in V) ELSE virtuals[v]]
  BY <1>1 DEF SetPolicy
<1>3. assignments' = EndedAssignments({virtuals[v].assignment : v \in V}, "Revoked")
  BY <1>2 DEF AssignmentsWithout, RevokedAssignments
<1>4. PlansKept /\ NoAuthorityGained
  BY <1>1, <1>3, UnchangedEffect, EndedEffect DEF SetPolicy
<1>5. V \subseteq Governed
  BY <1>2 DEF Invalidated
<1>6. ASSUME NEW v \in VirtualIds
      PROVE  /\ Follows(virtuals[v], virtuals'[v])
             /\ \/ SameBinding(virtuals[v], virtuals'[v])
                \/ v \in V /\ virtuals'[v].assignment = 0
  <2> DEFINE e == [virtuals[v] EXCEPT !.active_attachments = 0]
             r == Downgraded(e, "Provisioned")
             k == [r EXCEPT !.assignment = 0]
  <2>1. e \in VirtualAccelerator /\ Same(virtuals[v], e)
    BY DEF TypeOK, VirtualAccelerator, Same, Observed
  <2>2. virtuals[v] \in VirtualAccelerator
    BY DEF TypeOK
  <2>3. CASE v \notin Governed
    BY <1>2, <2>3 DEF Follows, Same, SameBinding
  <2>4. CASE v \in Governed
    <3>1. virtuals'[v] = IF v \in V THEN Moved(k, "RecoveryRequired") ELSE r
      BY <1>2, <2>4 DEF Regoverned
    <3>2. virtuals[v].owner \in TenantIds /\ virtuals[v].state # "Retired"
      BY <2>4 DEF Governed, VirtualExists, Anchored
    <3> HIDE DEF e
    <3>3. e.owner = virtuals[v].owner
      BY <2>1 DEF Same, Observed
    <3>4. r \in VirtualAccelerator
      BY <2>1, DowngradedType DEF LifecycleStates
    <3>5. Follows(e, r) /\ SameBinding(e, r)
      BY <2>1, <3>2, <3>3, DowngradedFollows
    <3>6. r.owner = e.owner
      BY <2>1, MovedFields DEF Downgraded, LifecycleStates
    <3> HIDE DEF r
    <3>7. Follows(virtuals[v], r) /\ SameBinding(virtuals[v], r)
      BY <2>1, <2>2, <3>4, <3>5, SameFollows DEF SameBinding
    <3>8. r.generation >= virtuals[v].generation
      <4>1. r.generation \in Nat /\ virtuals[v].generation \in Nat
        BY <2>2, <3>4 DEF VirtualAccelerator
      <4> QED
        BY <3>7, <4>1 DEF Follows, Same
    <3>9. k \in VirtualAccelerator /\ k.assignment = 0 /\ k.owner = r.owner
                                  /\ k.generation = r.generation
      BY <3>4 DEF VirtualAccelerator
    <3> HIDE DEF k
    <3>10. CASE v \notin V
      BY <3>1, <3>7, <3>10
    <3>11. CASE v \in V
      <4>1. virtuals'[v] = Moved(k, "RecoveryRequired")
        BY <3>1, <3>11
      <4>2. /\ virtuals'[v].generation = k.generation + 1
            /\ virtuals'[v].state = "RecoveryRequired"
            /\ virtuals'[v].owner = k.owner
            /\ virtuals'[v].assignment = 0
        BY <3>9, <4>1, MovedFields DEF SameBinding, LifecycleStates
      <4>3. virtuals[v].state = "RecoveryRequired"
            \/ IsLegalTransition(virtuals[v].state, "RecoveryRequired")
        BY <2>2, <3>2, TableEdges DEF VirtualAccelerator
      <4>4. virtuals'[v].generation > virtuals[v].generation
        BY <2>2, <3>4, <3>8, <3>9, <4>2 DEF VirtualAccelerator
      <4>5. Follows(virtuals[v], virtuals'[v])
        BY <3>2, <3>3, <3>6, <3>9, <4>2, <4>3, <4>4 DEF Follows
      <4> QED
        BY <3>11, <4>2, <4>5
    <3> QED
      BY <3>10, <3>11
  <2> QED
    BY <2>3, <2>4
<1>7. ASSUME NEW v \in V
      PROVE  \A a \in AssignmentIds : assignments'[a].authoritative => assignments[a].virtual # v
  BY <1>3, EndedBinding
<1> QED
  BY <1>4, <1>6, <1>7 DEF Withdraws, VirtualsFollow, BindingsOnlyEnd

\* Crash, shutdown and the two commits of start().
LEMMA ProcessWithdraws ==
  ASSUME TypeOK, Anchored, ProcessStep
  PROVE  Withdraws
<1> DEFINE Kept(v) == Follows(virtuals[v], virtuals'[v]) /\ SameBinding(virtuals[v], virtuals'[v])
<1>1. ASSUME NEW v \in VirtualIds
      PROVE  virtuals[v] \in VirtualAccelerator /\ virtuals[v].state \in LifecycleStates
  BY DEF TypeOK, VirtualAccelerator
<1>2. ASSUME NEW v \in VirtualIds, virtuals'[v] = virtuals[v] PROVE Kept(v)
  BY <1>2 DEF Follows, Same, SameBinding
<1>3. ASSUME NEW s, ReleaseAttachments(s), NEW v \in VirtualIds PROVE Kept(v)
  <2> DEFINE e == [virtuals[v] EXCEPT !.active_attachments = 0]
  <2>1. e \in VirtualAccelerator /\ Same(virtuals[v], e)
    BY <1>1 DEF VirtualAccelerator, Same, Observed
  <2>2. virtuals'[v] = Downgraded(e, "Provisioned")
    BY <1>3 DEF ReleaseAttachments
  <2> HIDE DEF e
  <2>3. e.state \in AttachedStates => e.owner \in TenantIds
    BY <2>1, AttachedHasOwner DEF Same, Observed, AttachedStates
  <2>4. /\ Follows(e, Downgraded(e, "Provisioned"))
        /\ SameBinding(e, Downgraded(e, "Provisioned"))
    BY <2>1, <2>3, DowngradedFollows
  <2>5. Downgraded(e, "Provisioned") \in VirtualAccelerator
    BY <2>1, DowngradedType DEF LifecycleStates
  <2> QED
    <3>1. Follows(virtuals[v], virtuals'[v]) /\ SameBinding(virtuals[v], e)
      BY <1>1, <2>1, <2>2, <2>4, <2>5, SameFollows
    <3>2. SameBinding(e, virtuals'[v])
      BY <2>2, <2>4
    <3> QED
      BY <3>1, <3>2 DEF SameBinding
<1>4. ASSUME Crash \/ RefuseStart \/ Shutdown \/ Start PROVE Withdraws
  <2>1. assignments' = assignments /\ migrations' = migrations
    BY <1>4 DEF Crash, RefuseStart, Shutdown, Start
  <2>2. NoAuthorityGained /\ PlansKept
    BY <2>1, UnchangedEffect
  <2>3. \/ virtuals' = virtuals
        \/ ReleaseAttachments("Fenced")
        \/ ReleaseAttachments("Expired")
    BY <1>4 DEF Crash, RefuseStart, Shutdown, Start
  <2>4. \A v \in VirtualIds : Kept(v)
    BY <1>2, <1>3, <2>3
  <2> QED
    BY <2>2, <2>4 DEF Withdraws, VirtualsFollow, BindingsOnlyEnd
<1>5. ASSUME ClassifyRecoveredMigrations PROVE Withdraws
  <2>1. NoAuthorityGained
    BY <1>5, FailedEffect DEF ClassifyRecoveredMigrations
  <2>2. ASSUME NEW m \in MigrationIds PROVE PlanKept(m)
    <3>1. \/ migrations'[m] = migrations[m]
          \/ migrations'[m] = [migrations[m] EXCEPT !.state = "Aborted"]
          \/ migrations'[m] = [migrations[m] EXCEPT !.state = "Completed"]
      BY <1>5 DEF ClassifyRecoveredMigrations
    <3>2. migrations[m] \in Migration
      BY DEF TypeOK
    <3> QED
      BY <3>1, <3>2 DEF PlanKept, Migration
  <2>3. ASSUME NEW v \in VirtualIds PROVE Kept(v)
    <3>1. CASE v \in Stranded
      <4>1. virtuals'[v] = Moved(virtuals[v], "Provisioned")
        BY <1>5, <3>1 DEF ClassifyRecoveredMigrations
      <4>2. virtuals[v].state = "Migrating"
        BY <3>1 DEF Stranded
      <4>3. virtuals[v].owner \in TenantIds
        BY <4>2, AttachedHasOwner
      <4>4. IsLegalTransition(virtuals[v].state, "Provisioned")
        BY <1>1, <4>2, TableEdges
      <4> QED
        BY <1>1, <4>1, <4>3, <4>4, MovedFollows DEF LifecycleStates
    <3>2. CASE v \notin Stranded
      BY <1>2, <1>5, <3>2 DEF ClassifyRecoveredMigrations
    <3> QED
      BY <3>1, <3>2
  <2> QED
    BY <2>1, <2>2, <2>3 DEF Withdraws, VirtualsFollow, BindingsOnlyEnd, PlansKept
<1> QED
  BY <1>4, <1>5 DEF ProcessStep

\* complete_migration and abort_migration.
LEMMA EndOfMigrationWithdraws ==
  ASSUME TypeOK, Anchored, NEW m \in MigrationIds, CompleteMigration(m) \/ AbortMigration(m)
  PROVE  Withdraws
<1> DEFINE Kept(v) == Follows(virtuals[v], virtuals'[v]) /\ SameBinding(virtuals[v], virtuals'[v])
<1>1. ASSUME NEW v \in VirtualIds, virtuals'[v] = virtuals[v] PROVE Kept(v)
  BY <1>1 DEF Follows, Same, SameBinding
<1>2. ASSUME NEW s \in {"Completed", "Aborted"},
             migrations' = [migrations EXCEPT ![m].state = s]
      PROVE  PlansKept
  <2>1. \A k \in MigrationIds : migrations[k] \in Migration
    BY DEF TypeOK
  <2> QED
    BY <1>2, <2>1 DEF PlansKept, PlanKept, Migration, TypeOK
<1>3. CASE CompleteMigration(m)
  <2>1. PlansKept
    BY <1>2, <1>3 DEF CompleteMigration
  <2>2. NoAuthorityGained
    BY <1>3, UnchangedEffect DEF CompleteMigration
  <2>3. \A v \in VirtualIds : Kept(v)
    BY <1>1, <1>3 DEF CompleteMigration
  <2> QED
    BY <2>1, <2>2, <2>3 DEF Withdraws, VirtualsFollow, BindingsOnlyEnd
<1>4. CASE AbortMigration(m)
  <2>1. PlansKept
    BY <1>2, <1>4 DEF AbortMigration
  <2>2. NoAuthorityGained
    BY <1>4, FailedEffect DEF AbortMigration
  <2>3. ASSUME NEW v \in VirtualIds PROVE Kept(v)
    <3>1. \/ virtuals'[v] = virtuals[v]
          \/ /\ virtuals'[v] = Moved(virtuals[v], "Provisioned")
             /\ virtuals[v].state = "Migrating"
      BY <1>4 DEF AbortMigration, TypeOK
    <3>2. ASSUME virtuals[v].state = "Migrating", virtuals'[v] = Moved(virtuals[v], "Provisioned")
          PROVE  Kept(v)
      <4>1. virtuals[v] \in VirtualAccelerator /\ virtuals[v].state \in LifecycleStates
        BY DEF TypeOK, VirtualAccelerator
      <4>2. virtuals[v].owner \in TenantIds
        BY <3>2, AttachedHasOwner
      <4>3. IsLegalTransition(virtuals[v].state, "Provisioned")
        BY <3>2, <4>1, TableEdges
      <4> QED
        BY <3>2, <4>1, <4>2, <4>3, MovedFollows DEF LifecycleStates
    <3> QED
      BY <1>1, <3>1, <3>2
  <2> QED
    BY <2>1, <2>2, <2>3 DEF Withdraws, VirtualsFollow, BindingsOnlyEnd
<1> QED
  BY <1>3, <1>4
=============================================================================
