----------------------------- MODULE TypeProofs ------------------------------
(***************************************************************************)
(* Every step of the runtime keeps the durable state well formed.          *)
(*                                                                         *)
(* TypeOK is not inductive alone.  attach reads the generation of the      *)
(* owner, and commit_migration reads the records of the destination, so    *)
(* the state must also say that an accelerator in the map has an owner and *)
(* that a migration in the map names a backing (Anchored).                 *)
(***************************************************************************)
EXTENDS Properties, TLAPS, FiniteSetTheorems

\* An entry of the accelerator map has an owner, a missing one is blank; an
\* entry of the migration map names an accelerator and a destination.
Anchored ==
  /\ \A v \in VirtualIds :
       IF virtuals[v].generation = 0
       THEN virtuals[v].state = "Created" /\ virtuals[v].assignment = 0
       ELSE virtuals[v].owner \in TenantIds
  /\ \A m \in MigrationIds : migrations[m].generation # 0 =>
       migrations[m].virtual \in VirtualIds /\ migrations[m].destination_backing \in Backings

-----------------------------------------------------------------------------
(* The helpers of Model are typed. *)

\* Moved returns an accelerator record (transition, runtime.cpp 1448).
LEMMA MovedType ==
  ASSUME NEW r \in VirtualAccelerator, NEW s \in LifecycleStates
  PROVE  Moved(r, s) \in VirtualAccelerator
<1> DEFINE g == r.generation + 1
<1>1. g \in Nat
  BY DEF VirtualAccelerator
<1>2. Moved(r, s) = [r EXCEPT !.state = s, !.generation = g]
  BY DEF Moved
<1> HIDE DEF g
<1> QED
  BY <1>1, <1>2 DEF VirtualAccelerator

\* Downgraded returns an accelerator record.
LEMMA DowngradedType ==
  ASSUME NEW r \in VirtualAccelerator, NEW s \in LifecycleStates
  PROVE  Downgraded(r, s) \in VirtualAccelerator
BY MovedType DEF Downgraded

\* Minus saturates at zero, so a counter stays a natural number.
LEMMA MinusType ==
  ASSUME NEW n \in Nat, NEW k \in Nat
  PROVE  Minus(n, k) \in Nat
BY DEF Minus

\* fence_leases clears the attachment count of the record and nothing else.
LEMMA WithoutAttachmentsType ==
  ASSUME TypeOK, NEW v \in VirtualIds
  PROVE  WithoutAttachments(v) \in VirtualAccelerator
BY DEF TypeOK, WithoutAttachments, VirtualAccelerator

\* The leases of an accelerator can be counted.
LEMMA LiveLeasesCount ==
  ASSUME NEW v
  PROVE  Cardinality(LiveLeases(v)) \in Nat
<1>1. IsFiniteSet(LeaseIds)
  BY FS_Interval, SizesAssumption DEF LeaseIds
<1>2. LiveLeases(v) \subseteq LeaseIds
  BY DEF LiveLeases
<1> QED
  BY <1>1, <1>2, FS_Subset, FS_CardinalityType

\* Ending leases keeps the lease map well formed.
LEMMA EndedLeasesType ==
  ASSUME TypeOK, NEW V, NEW s \in LeaseStates
  PROVE  EndedLeases(V, s) \in [LeaseIds -> Lease]
BY DEF TypeOK, EndedLeases, Lease

\* fence_leases keeps the tenant map well formed.
LEMMA TenantsAfterFencingType ==
  ASSUME TypeOK, NEW v
  PROVE  TenantsAfterFencing(v) \in [TenantIds -> Tenant]
<1> DEFINE k == Cardinality(LiveLeases(v))
<1>1. k \in Nat
  BY LiveLeasesCount
<1> HIDE DEF k
<1>2. \A t \in TenantIds : Minus(tenants[t].active_attachments, k) \in Nat
  BY <1>1, MinusType DEF TypeOK, Tenant
<1>3. TenantsAfterFencing(v) =
        [tenants EXCEPT ![virtuals[v].owner].active_attachments = Minus(@, k)]
  BY DEF TenantsAfterFencing, k
<1> DEFINE o == virtuals[v].owner
<1>4. CASE o \notin TenantIds
  <2>1. TenantsAfterFencing(v) = tenants
    BY <1>3, <1>4 DEF TypeOK
  <2> QED
    BY <2>1 DEF TypeOK
<1>5. CASE o \in TenantIds
  BY <1>2, <1>3, <1>5 DEF TypeOK, Tenant
<1> QED
  BY <1>4, <1>5

\* Carrying leases to a new generation keeps the lease map well formed.
LEMMA CarriedLeasesType ==
  ASSUME TypeOK, NEW v \in VirtualIds, NEW s
  PROVE  CarriedLeases(v, s) \in [LeaseIds -> Lease]
<1>1. virtuals[v].generation + 1 \in Nat
  BY DEF TypeOK, VirtualAccelerator
<1> QED
  BY <1>1 DEF TypeOK, CarriedLeases, Lease

\* Ending assignments keeps the assignment map well formed.
LEMMA EndedAssignmentsType ==
  ASSUME TypeOK, NEW A, NEW s \in AssignmentStates
  PROVE  EndedAssignments(A, s) \in [AssignmentIds -> Assignment]
BY DEF TypeOK, EndedAssignments, Assignment

\* Releasing backings keeps the backing map well formed.
LEMMA ReleasedBackingsType ==
  ASSUME TypeOK, NEW B
  PROVE  ReleasedBackings(B) \in [Backings -> Backing]
BY DEF TypeOK, ReleasedBackings, Backing

\* Failing destinations keeps the assignment map well formed.
LEMMA FailedDestinationsType ==
  ASSUME TypeOK, NEW M
  PROVE  FailedDestinations(M) \in [AssignmentIds -> Assignment]
<1>1. assignments \in [AssignmentIds -> Assignment]
  BY DEF TypeOK
<1>2. ASSUME NEW a \in AssignmentIds
      PROVE  [assignments[a] EXCEPT !.state = "Failed", !.authoritative = FALSE] \in Assignment
  BY <1>1 DEF Assignment, AssignmentStates
<1> QED
  BY <1>1, <1>2 DEF FailedDestinations

\* The cutover keeps the assignment map well formed.
LEMMA CutOverType ==
  ASSUME TypeOK, NEW source, NEW destination \in AssignmentIds
  PROVE  CutOver(source, destination) \in [AssignmentIds -> Assignment]
<1> DEFINE A == [assignments EXCEPT ![source].authoritative = FALSE,
                                    ![source].state = "Revoked"]
<1>1. A \in [AssignmentIds -> Assignment]
  <2>1. assignments \in [AssignmentIds -> Assignment]
    BY DEF TypeOK
  <2>2. CASE source \in AssignmentIds
    <3>1. [assignments[source] EXCEPT !.authoritative = FALSE, !.state = "Revoked"] \in Assignment
      BY <2>1, <2>2 DEF Assignment, AssignmentStates
    <3>2. A = [assignments EXCEPT ![source] =
                 [assignments[source] EXCEPT !.authoritative = FALSE, !.state = "Revoked"]]
      BY <2>1, <2>2
    <3> QED
      BY <2>1, <3>1, <3>2
  <2>3. CASE source \notin AssignmentIds
    BY <2>1, <2>3
  <2> QED
    BY <2>2, <2>3
<1>2. CutOver(source, destination) =
        [A EXCEPT ![destination].authoritative = TRUE, ![destination].state = "Active"]
  BY DEF CutOver
<1> HIDE DEF A
<1>3. [A[destination] EXCEPT !.authoritative = TRUE, !.state = "Active"] \in Assignment
  BY <1>1 DEF Assignment, AssignmentStates
<1>4. CutOver(source, destination) =
        [A EXCEPT ![destination] =
           [A[destination] EXCEPT !.authoritative = TRUE, !.state = "Active"]]
  BY <1>1, <1>2
<1> QED
  BY <1>1, <1>3, <1>4

\* A migration may be written back in any state and at any generation.
LEMMA MigrationUpdateType ==
  ASSUME TypeOK, NEW m \in MigrationIds, NEW s \in MigrationStates, NEW g \in Nat
  PROVE  /\ [migrations[m] EXCEPT !.state = s] \in Migration
         /\ [migrations[m] EXCEPT !.state = s, !.virtual_generation = g] \in Migration
<1>1. migrations[m] \in Migration
  BY DEF TypeOK
<1> QED
  BY <1>1 DEF Migration

\* The attachments of finitely many accelerators can be counted.
LEMMA TotalAttachmentsType ==
  ASSUME NEW V \in SUBSET VirtualIds, NEW record \in [VirtualIds -> VirtualAccelerator]
  PROVE  TotalAttachments(V, record) \in Nat
<1> DEFINE Of(v) == {v} \X (1..record[v].active_attachments)
           f == [v \in V |-> Of(v)]
           S == {Of(v) : v \in V}
<1>1. IsFiniteSet(V)
  <2>1. IsFiniteSet(VirtualIds)
    BY FS_Interval, SizesAssumption DEF VirtualIds
  <2> QED
    BY <2>1, FS_Subset
<1>2. f \in Surjection(V, S)
  <2>1. f \in [V -> S]
    OBVIOUS
  <2>2. \A t \in S : \E s \in V : f[s] = t
    OBVIOUS
  <2> QED
    BY <2>1, <2>2 DEF Surjection
<1>3. IsFiniteSet(S)
  BY <1>1, <1>2, FS_Surjection
<1>4. ASSUME NEW v \in V PROVE IsFiniteSet(Of(v))
  <2>1. record[v].active_attachments \in Int
    BY DEF VirtualAccelerator
  <2>2. IsFiniteSet(1..record[v].active_attachments)
    BY <2>1, FS_Interval
  <2>3. IsFiniteSet({v})
    BY FS_Singleton
  <2> QED
    BY <2>2, <2>3, FS_Product
<1>5. IsFiniteSet(UNION S)
  BY <1>3, <1>4, FS_UNION
<1> QED
  BY <1>5, FS_CardinalityType DEF TotalAttachments

-----------------------------------------------------------------------------
(* One lemma per group of operations. *)

\* create_tenant, fence_tenant and transfer_ownership.
LEMMA TenancyTypes ==
  ASSUME TypeOK, TenancyStep
  PROVE  TypeOK'
<1>1. ASSUME NEW t \in TenantIds, CreateTenant(t) PROVE TypeOK'
  <2>1. tenants' \in [TenantIds -> Tenant]
    BY <1>1 DEF TypeOK, CreateTenant, Tenant
  <2> QED
    BY <1>1, <2>1 DEF TypeOK, CreateTenant
<1>2. ASSUME NEW t \in TenantIds, FenceTenant(t) PROVE TypeOK'
  <2>1. tenants[t].generation + 1 \in Nat
    BY DEF TypeOK, Tenant
  <2>2. tenants' \in [TenantIds -> Tenant]
    BY <1>2, <2>1 DEF TypeOK, FenceTenant, Tenant
  <2>3. leases' \in [LeaseIds -> Lease]
    BY <1>2, EndedLeasesType DEF FenceTenant, FencedLeases, LeaseStates
  <2>4. ASSUME NEW v \in VirtualIds
        PROVE  [WithoutAttachments(v) EXCEPT !.owner_generation = tenants[t].generation + 1]
                 \in VirtualAccelerator
    BY <2>1, WithoutAttachmentsType DEF VirtualAccelerator
  <2>5. virtuals' \in [VirtualIds -> VirtualAccelerator]
    <3>1. ASSUME NEW v \in VirtualIds
          PROVE  Downgraded([WithoutAttachments(v) EXCEPT
                               !.owner_generation = tenants[t].generation + 1], "Fenced")
                   \in VirtualAccelerator
      BY <2>4, DowngradedType DEF LifecycleStates
    <3> QED
      BY <1>2, <3>1 DEF TypeOK, FenceTenant
  <2> QED
    BY <1>2, <2>2, <2>3, <2>5 DEF TypeOK, FenceTenant
<1>3. ASSUME NEW v \in VirtualIds, NEW t \in TenantIds, TransferOwnership(v, t) PROVE TypeOK'
  <2>1. leases' \in [LeaseIds -> Lease]
    BY <1>3, EndedLeasesType DEF TransferOwnership, FencedLeases, LeaseStates
  <2>2. tenants' \in [TenantIds -> Tenant]
    <3> DEFINE source == virtuals[v].owner
               T == [tenants EXCEPT ![source].owned = @ \ {v}, ![source].active_attachments = 0]
    <3>1. tenants' = [T EXCEPT ![t].owned = @ \cup {v}]
      BY <1>3 DEF TransferOwnership
    <3>2. tenants \in [TenantIds -> Tenant]
      BY DEF TypeOK
    <3> HIDE DEF source
    <3>3. T \in [TenantIds -> Tenant]
      <4>1. CASE source \in TenantIds
        BY <3>2, <4>1 DEF Tenant
      <4>2. CASE source \notin TenantIds
        BY <3>2, <4>2
      <4> QED
        BY <4>1, <4>2
    <3> HIDE DEF T
    <3> QED
      BY <3>1, <3>3 DEF Tenant
  <2>3. virtuals' \in [VirtualIds -> VirtualAccelerator]
    <3> DEFINE s == IF virtuals[v].state \in AttachedStates THEN "Provisioned"
                    ELSE virtuals[v].state
               g == virtuals[v].generation + 1
               h == tenants[t].generation
    <3>1. h \in Nat /\ g \in Nat
      BY DEF TypeOK, Tenant, VirtualAccelerator
    <3>2. s \in LifecycleStates
      BY DEF TypeOK, VirtualAccelerator, LifecycleStates
    <3>3. virtuals' = [virtuals EXCEPT ![v].owner = t, ![v].owner_generation = h,
                                       ![v].active_attachments = 0, ![v].state = s,
                                       ![v].generation = g]
      BY <1>3 DEF TransferOwnership
    <3> HIDE DEF s, g, h
    <3> DEFINE r == [virtuals[v] EXCEPT !.owner = t, !.owner_generation = h,
                                        !.active_attachments = 0, !.state = s,
                                        !.generation = g]
    <3>4. r \in VirtualAccelerator
      <4>1. virtuals[v] \in VirtualAccelerator
        BY DEF TypeOK
      <4> QED
        BY <3>1, <3>2, <4>1 DEF VirtualAccelerator
    <3>5. virtuals' = [virtuals EXCEPT ![v] = r]
      BY <3>3 DEF TypeOK
    <3> HIDE DEF r
    <3> QED
      BY <3>4, <3>5 DEF TypeOK
  <2> QED
    BY <1>3, <2>1, <2>2, <2>3 DEF TypeOK, TransferOwnership
<1> QED
  BY <1>1, <1>2, <1>3 DEF TenancyStep

\* register_physical, for the same device and for another one, and physical_lost.
LEMMA DeviceTypes ==
  ASSUME TypeOK, DeviceStep
  PROVE  TypeOK'
<1>1. ASSUME NEW b \in Backings, NEW g \in Nat PROVE RefreshedBacking(b, g) \in Backing
  <2>1. backings[b] \in Backing /\ backings[b].generation + 1 \in Nat
    BY DEF TypeOK, Backing
  <2> QED
    BY <2>1 DEF RefreshedBacking, Backing
<1>2. ASSUME NEW d \in Devices, NEW listed \in SUBSET Backings, RegisterPhysical(d, listed)
      PROVE  TypeOK'
  <2> DEFINE g == IF physical[d].generation = 0 THEN 1 ELSE physical[d].generation
  <2>1. g \in Nat
    BY DEF TypeOK, Physical
  <2>2. /\ physical' = [physical EXCEPT ![d] = [generation |-> g, present |-> TRUE]]
        /\ backings' = [b \in Backings |->
                          IF b \in listed THEN RefreshedBacking(b, g)
                          ELSE IF b \in KnownBackings(d)
                               THEN [backings[b] EXCEPT !.available = TRUE]
                               ELSE backings[b]]
    BY <1>2 DEF RegisterPhysical
  <2> HIDE DEF g
  <2>3. physical' \in [Devices -> Physical]
    BY <2>1, <2>2 DEF TypeOK, Physical
  <2>4. \A b \in Backings : /\ backings[b] \in Backing
                            /\ [backings[b] EXCEPT !.available = TRUE] \in Backing
    BY DEF TypeOK, Backing
  <2>5. backings' \in [Backings -> Backing]
    BY <1>1, <2>1, <2>2, <2>4
  <2> QED
    BY <1>2, <2>3, <2>5 DEF TypeOK, RegisterPhysical
<1>3. ASSUME NEW d \in Devices, NEW listed \in SUBSET Backings, ReplacePhysical(d, listed)
      PROVE  TypeOK'
  <2> DEFINE g == physical[d].generation + 1
             displaced == DisplacedAssignments(d)
             holders == {assignments[a].virtual : a \in displaced}
  <2>1. g \in Nat
    BY DEF TypeOK, Physical
  <2>2. /\ physical' = [physical EXCEPT ![d] = [generation |-> g, present |-> TRUE]]
        /\ backings' = [b \in Backings |->
                          IF b \in listed
                          THEN [RefreshedBacking(b, g) EXCEPT !.assigned_to = 0,
                                                              !.active_assignment = 0]
                          ELSE ReleasedBackings(KnownBackings(d))[b]]
    BY <1>3 DEF ReplacePhysical
  <2>3. virtuals' = [v \in VirtualIds |->
                       IF v \in holders /\ virtuals[v].state # "Retired"
                       THEN Moved(virtuals[v], "RecoveryRequired") ELSE virtuals[v]]
    BY <1>3 DEF ReplacePhysical
  <2> HIDE DEF g, displaced, holders
  <2>4. physical' \in [Devices -> Physical]
    BY <2>1, <2>2 DEF TypeOK, Physical
  <2>5. ASSUME NEW b \in Backings
        PROVE  [RefreshedBacking(b, g) EXCEPT !.assigned_to = 0, !.active_assignment = 0]
                 \in Backing
    <3>1. RefreshedBacking(b, g) \in Backing
      BY <1>1, <2>1
    <3> QED
      BY <3>1 DEF Backing
  <2>6. backings' \in [Backings -> Backing]
    BY <2>2, <2>5, ReleasedBackingsType
  <2>7. ASSUME NEW v \in VirtualIds
        PROVE  Moved(virtuals[v], "RecoveryRequired") \in VirtualAccelerator
    <3>1. virtuals[v] \in VirtualAccelerator
      BY DEF TypeOK
    <3>2. "RecoveryRequired" \in LifecycleStates
      BY DEF LifecycleStates
    <3> QED
      BY <3>1, <3>2, MovedType
  <2>8. virtuals' \in [VirtualIds -> VirtualAccelerator]
    BY <2>3, <2>7 DEF TypeOK
  <2>9. assignments' \in [AssignmentIds -> Assignment]
    BY <1>3, EndedAssignmentsType DEF ReplacePhysical, RevokedAssignments, AssignmentStates
  <2> QED
    BY <1>3, <2>4, <2>6, <2>8, <2>9 DEF TypeOK, ReplacePhysical
<1>4. ASSUME NEW d \in Devices, PhysicalLost(d) PROVE TypeOK'
  <2>1. physical' \in [Devices -> Physical]
    BY <1>4 DEF TypeOK, PhysicalLost, Physical
  <2>2. backings' \in [Backings -> Backing]
    BY <1>4 DEF TypeOK, PhysicalLost, Backing
  <2>3. leases' \in [LeaseIds -> Lease]
    BY <1>4, EndedLeasesType DEF PhysicalLost, FencedLeases, LeaseStates
  <2>4. assignments' \in [AssignmentIds -> Assignment]
    BY <1>4, EndedAssignmentsType DEF PhysicalLost, RevokedAssignments, AssignmentStates
  <2>5. \A v \in VirtualIds :
          Downgraded(WithoutAttachments(v), "RecoveryRequired") \in VirtualAccelerator
    BY WithoutAttachmentsType, DowngradedType DEF LifecycleStates
  <2>6. virtuals' \in [VirtualIds -> VirtualAccelerator]
    BY <1>4, <2>5 DEF TypeOK, PhysicalLost
  <2>7. \A t \in TenantIds : TotalAttachments(tenants[t].owned, virtuals') \in Nat
    BY <2>6, TotalAttachmentsType DEF TypeOK, Tenant
  <2>8. tenants' = [t \in TenantIds |->
                      [tenants[t] EXCEPT !.active_attachments =
                         TotalAttachments(tenants[t].owned, virtuals')]]
    BY <1>4 DEF PhysicalLost
  <2>9. tenants' \in [TenantIds -> Tenant]
    BY <2>7, <2>8 DEF TypeOK, Tenant
  <2> QED
    BY <1>4, <2>1, <2>2, <2>3, <2>4, <2>6, <2>9 DEF TypeOK, PhysicalLost
<1> QED
  BY <1>2, <1>3, <1>4 DEF DeviceStep

\* create_virtual, update_contract and the moves of the lifecycle.
LEMMA LifecycleTypes ==
  ASSUME TypeOK, LifecycleStep
  PROVE  TypeOK'
<1>1. ASSUME NEW v \in VirtualIds PROVE virtuals[v] \in VirtualAccelerator
  BY DEF TypeOK
<1>2. ASSUME NEW v \in VirtualIds, NEW s \in LifecycleStates, MoveTo(v, s) PROVE TypeOK'
  <2>1. Moved(virtuals[v], s) \in VirtualAccelerator
    BY <1>1, MovedType
  <2>2. virtuals' \in [VirtualIds -> VirtualAccelerator]
    BY <1>2, <2>1 DEF TypeOK, MoveTo
  <2>3. leases' \in [LeaseIds -> Lease]
    BY <1>2, CarriedLeasesType DEF MoveTo
  <2> QED
    BY <1>2, <2>2, <2>3 DEF TypeOK, MoveTo
<1>3. ASSUME NEW v \in VirtualIds, NEW t \in TenantIds, NEW c \in Contracts,
             CreateVirtual(v, t, c)
      PROVE  TypeOK'
  <2>1. c \in Contract
    BY InputsAssumption
  <2>2. NoVirtual \in VirtualAccelerator
    <3>1. (CHOOSE k \in Contracts : TRUE) \in Contract
      BY InputsAssumption
    <3> QED
      BY <3>1 DEF NoVirtual, VirtualAccelerator, LifecycleStates
  <2> DEFINE r == [NoVirtual EXCEPT !.generation = 1, !.state = "Provisioned", !.owner = t,
                                    !.owner_generation = tenants[t].generation,
                                    !.contract = c]
  <2>3. tenants[t].generation \in Nat /\ "Provisioned" \in LifecycleStates
    BY DEF TypeOK, Tenant, LifecycleStates
  <2>4. r \in VirtualAccelerator
    BY <2>1, <2>2, <2>3 DEF VirtualAccelerator
  <2>5. virtuals' \in [VirtualIds -> VirtualAccelerator]
    BY <1>3, <2>4 DEF TypeOK, CreateVirtual
  <2>6. tenants' \in [TenantIds -> Tenant]
    BY <1>3 DEF TypeOK, CreateVirtual, Tenant
  <2> QED
    BY <1>3, <2>5, <2>6 DEF TypeOK, CreateVirtual
<1>4. ASSUME NEW v \in VirtualIds, NEW c \in Contracts, UpdateContract(v, c) PROVE TypeOK'
  <2>1. c \in Contract /\ virtuals[v].generation + 1 \in Nat
    BY <1>1, InputsAssumption DEF VirtualAccelerator
  <2>2. virtuals' \in [VirtualIds -> VirtualAccelerator]
    BY <1>4, <2>1 DEF TypeOK, UpdateContract, VirtualAccelerator
  <2> QED
    BY <1>4, <2>2 DEF TypeOK, UpdateContract
<1>5. ASSUME NEW v \in VirtualIds, Activate(v) \/ Drain(v) \/ ResolveRecovery(v) \/ Resume(v)
      PROVE  TypeOK'
  BY <1>2, <1>5 DEF Activate, Drain, ResolveRecovery, Resume, LifecycleStates
<1>6. ASSUME NEW r \in VirtualAccelerator PROVE Unbound(r) \in VirtualAccelerator
  BY DEF Unbound, VirtualAccelerator
<1>7. ASSUME NEW v \in VirtualIds, ReleaseBinding(v)
      PROVE  /\ assignments' \in [AssignmentIds -> Assignment]
             /\ backings' \in [Backings -> Backing]
  BY <1>7, EndedAssignmentsType, ReleasedBackingsType
     DEF ReleaseBinding, RevokedAssignments, AssignmentStates
<1>8. ASSUME NEW v \in VirtualIds, Suspend(v) PROVE TypeOK'
  <2>1. Moved(Unbound(virtuals[v]), "Suspended") \in VirtualAccelerator
    BY <1>1, <1>6, MovedType DEF LifecycleStates
  <2>2. virtuals' \in [VirtualIds -> VirtualAccelerator]
    BY <1>8, <2>1 DEF TypeOK, Suspend
  <2>3. ReleaseBinding(v)
    BY <1>8 DEF Suspend
  <2> QED
    BY <1>7, <1>8, <2>2, <2>3 DEF TypeOK, Suspend
<1>9. ASSUME NEW v \in VirtualIds, FenceVirtual(v) PROVE TypeOK'
  <2>1. Moved(WithoutAttachments(v), "Fenced") \in VirtualAccelerator
    BY WithoutAttachmentsType, MovedType DEF LifecycleStates
  <2>2. virtuals' \in [VirtualIds -> VirtualAccelerator]
    BY <1>9, <2>1 DEF TypeOK, FenceVirtual
  <2>3. leases' \in [LeaseIds -> Lease]
    BY <1>9, EndedLeasesType DEF FenceVirtual, FencedLeases, LeaseStates
  <2>4. tenants' \in [TenantIds -> Tenant]
    BY <1>9, TenantsAfterFencingType DEF FenceVirtual
  <2> QED
    BY <1>9, <2>2, <2>3, <2>4 DEF TypeOK, FenceVirtual
<1>10. ASSUME NEW v \in VirtualIds, RetireVirtual(v) PROVE TypeOK'
  <2> DEFINE r == [virtuals[v] EXCEPT !.active_attachments = 0]
  <2>1. r \in VirtualAccelerator
    BY <1>1 DEF VirtualAccelerator
  <2>2. virtuals' = [virtuals EXCEPT ![v] = Moved(Unbound(r), "Retired")]
    BY <1>10 DEF RetireVirtual
  <2> HIDE DEF r
  <2>3. Moved(Unbound(r), "Retired") \in VirtualAccelerator
    BY <1>6, <2>1, MovedType DEF LifecycleStates
  <2>4. virtuals' \in [VirtualIds -> VirtualAccelerator]
    BY <2>2, <2>3 DEF TypeOK
  <2>5. leases' \in [LeaseIds -> Lease]
    BY <1>10, EndedLeasesType DEF RetireVirtual, FencedLeases, LeaseStates
  <2>6. tenants' \in [TenantIds -> Tenant]
    <3> DEFINE T == TenantsAfterFencing(v)
               o == virtuals[v].owner
    <3>1. T \in [TenantIds -> Tenant]
      BY TenantsAfterFencingType
    <3>2. tenants' = [T EXCEPT ![o].owned = @ \ {v}]
      BY <1>10 DEF RetireVirtual
    <3> HIDE DEF T, o
    <3>3. ASSUME o \in TenantIds PROVE T[o].owned \ {v} \in SUBSET VirtualIds
      BY <3>1, <3>3 DEF Tenant
    <3> QED
      BY <3>1, <3>2, <3>3 DEF Tenant
  <2>7. ReleaseBinding(v)
    BY <1>10 DEF RetireVirtual
  <2> QED
    BY <1>7, <1>10, <2>4, <2>5, <2>6, <2>7 DEF TypeOK, RetireVirtual
<1> QED
  BY <1>3, <1>4, <1>5, <1>8, <1>9, <1>10 DEF LifecycleStep

\* assign_backing and replace_backing.
LEMMA BindingTypes ==
  ASSUME TypeOK, BindingStep
  PROVE  TypeOK'
<1>1. ASSUME NEW v \in VirtualIds, NEW b \in Backings, NEW a \in AssignmentIds,
             NEW r \in VirtualAccelerator, NEW asg \in [AssignmentIds -> Assignment],
             NEW bk \in [Backings -> Backing], Bind(v, b, a, r, asg, bk)
      PROVE  /\ assignments' \in [AssignmentIds -> Assignment]
             /\ backings' \in [Backings -> Backing]
             /\ virtuals' \in [VirtualIds -> VirtualAccelerator]
  <2> DEFINE n == r.backing_generation + 1
             g == backings[b].physical_generation
             k == [r EXCEPT !.assignment = a, !.backing = b, !.backing_generation = n,
                            !.physical_generation = g]
             h == [virtual |-> v, backing |-> b, backing_generation |-> n,
                   state |-> "Active", authoritative |-> TRUE]
  <2>1. n \in Nat /\ g \in Nat
    BY DEF TypeOK, VirtualAccelerator, Backing
  <2>2. /\ assignments' = [asg EXCEPT ![a] = h]
        /\ backings' = [bk EXCEPT ![b].assigned_to = v, ![b].active_assignment = a]
        /\ virtuals' = [virtuals EXCEPT ![v] = Moved(k, "Provisioned")]
    BY <1>1 DEF Bind
  <2> HIDE DEF n, g
  <2>3. k \in VirtualAccelerator
    BY <2>1 DEF VirtualAccelerator
  <2>4. h \in Assignment
    BY <2>1 DEF Assignment, AssignmentStates
  <2> HIDE DEF k, h
  <2>5. Moved(k, "Provisioned") \in VirtualAccelerator
    BY <2>3, MovedType DEF LifecycleStates
  <2>6. backings' \in [Backings -> Backing]
    BY <2>2 DEF Backing
  <2> QED
    BY <2>2, <2>4, <2>5, <2>6 DEF TypeOK
<1>2. ASSUME NEW v \in VirtualIds, NEW b \in Backings, NEW a \in AssignmentIds,
             AssignBacking(v, b, a)
      PROVE  TypeOK'
  <2>1. Bind(v, b, a, virtuals[v], assignments, backings)
    BY <1>2 DEF AssignBacking
  <2>2. /\ virtuals[v] \in VirtualAccelerator
        /\ assignments \in [AssignmentIds -> Assignment]
        /\ backings \in [Backings -> Backing]
    BY DEF TypeOK
  <2>3. /\ assignments' \in [AssignmentIds -> Assignment]
        /\ backings' \in [Backings -> Backing]
        /\ virtuals' \in [VirtualIds -> VirtualAccelerator]
    BY <1>1, <2>1, <2>2
  <2> QED
    BY <1>2, <2>3 DEF TypeOK, AssignBacking
<1>3. ASSUME NEW v \in VirtualIds, NEW b \in Backings, NEW a \in AssignmentIds,
             ReplaceBacking(v, b, a)
      PROVE  TypeOK'
  <2> DEFINE asg == Superseded(virtuals[v].assignment)
             bk == ReleasedBackings({virtuals[v].backing})
  <2>1. Bind(v, b, a, WithoutAttachments(v), asg, bk)
    BY <1>3 DEF ReplaceBacking
  <2>2. asg \in [AssignmentIds -> Assignment]
    BY DEF TypeOK, Superseded, Assignment, AssignmentStates
  <2>3. bk \in [Backings -> Backing] /\ WithoutAttachments(v) \in VirtualAccelerator
    BY ReleasedBackingsType, WithoutAttachmentsType
  <2> HIDE DEF asg, bk
  <2>4. /\ assignments' \in [AssignmentIds -> Assignment]
        /\ backings' \in [Backings -> Backing]
        /\ virtuals' \in [VirtualIds -> VirtualAccelerator]
    BY <1>1, <2>1, <2>2, <2>3
  <2>5. leases' \in [LeaseIds -> Lease]
    BY <1>3, EndedLeasesType DEF ReplaceBacking, FencedLeases, LeaseStates
  <2>6. tenants' \in [TenantIds -> Tenant]
    BY <1>3, TenantsAfterFencingType DEF ReplaceBacking
  <2> QED
    BY <1>3, <2>4, <2>5, <2>6 DEF TypeOK, ReplaceBacking
<1> QED
  BY <1>2, <1>3 DEF BindingStep

\* attach, renew_lease, detach and the allocations.
LEMMA AttachmentTypes ==
  ASSUME TypeOK, Anchored, AttachmentStep
  PROVE  TypeOK'
<1>1. ASSUME NEW v \in VirtualIds PROVE virtuals[v] \in VirtualAccelerator
  BY DEF TypeOK
<1>2. ASSUME NEW v \in VirtualIds, NEW l \in LeaseIds, Attach(v, l) PROVE TypeOK'
  <2> DEFINE r == virtuals[v]
             n == r.active_attachments + 1
             k == [r EXCEPT !.active_attachments = n]
             o == r.owner
             h == [generation |-> 1, state |-> "Active",
                   virtual |-> v, virtual_generation |-> r.generation + 1,
                   tenant |-> o, tenant_generation |-> tenants[o].generation,
                   backing_generation |-> r.backing_generation,
                   physical_generation |-> r.physical_generation,
                   policy_generation |-> policy_generation, epoch |-> epoch]
  <2>1. o \in TenantIds
    BY <1>2 DEF Anchored, Attach, RequireOwner, VirtualExists
  <2>2. /\ virtuals' = [virtuals EXCEPT ![v] = Moved(k, "Attached")]
        /\ tenants' = [tenants EXCEPT ![o].active_attachments = @ + 1]
        /\ leases' = [leases EXCEPT ![l] = h]
    BY <1>2 DEF Attach
  <2>3. n \in Nat
    BY <1>1 DEF VirtualAccelerator
  <2>4. /\ r.generation + 1 \in Nat /\ r.backing_generation \in Nat
        /\ r.physical_generation \in Nat /\ tenants[o].generation \in Nat
    BY <1>1, <2>1 DEF TypeOK, VirtualAccelerator, Tenant
  <2>5. h \in Lease
    BY <2>1, <2>4 DEF TypeOK, Lease, LeaseStates
  <2> HIDE DEF n, h
  <2>6. k \in VirtualAccelerator
    BY <1>1, <2>3 DEF VirtualAccelerator
  <2> HIDE DEF k, o
  <2>7. Moved(k, "Attached") \in VirtualAccelerator
    BY <2>6, MovedType DEF LifecycleStates
  <2>8. virtuals' \in [VirtualIds -> VirtualAccelerator]
    BY <2>2, <2>7 DEF TypeOK
  <2>9. tenants' \in [TenantIds -> Tenant]
    BY <2>1, <2>2 DEF TypeOK, Tenant
  <2>10. leases' \in [LeaseIds -> Lease]
    BY <2>2, <2>5 DEF TypeOK
  <2> QED
    BY <1>2, <2>8, <2>9, <2>10 DEF TypeOK, Attach
<1>3. ASSUME NEW l \in LeaseIds, RenewLease(l) PROVE TypeOK'
  <2>1. leases' \in [LeaseIds -> Lease]
    BY <1>3 DEF TypeOK, RenewLease, Lease
  <2> QED
    BY <1>3, <2>1 DEF TypeOK, RenewLease
<1>4. ASSUME NEW l \in LeaseIds, Detach(l) PROVE TypeOK'
  <2> DEFINE v == leases[l].virtual
             n == Minus(virtuals[v].active_attachments, 1)
             k == [virtuals[v] EXCEPT !.active_attachments = n]
             o == leases[l].tenant
             leaves == k.active_attachments = 0 /\ IsLegalTransition(k.state, "Provisioned")
  <2>1. v \in VirtualIds
    BY <1>4 DEF Detach, RequireOwner, VirtualExists
  <2>2. /\ leases' = [leases EXCEPT ![l].state = "Revoked"]
        /\ tenants' = [tenants EXCEPT ![o].active_attachments = Minus(@, 1)]
        /\ virtuals' = [virtuals EXCEPT ![v] =
                          IF leaves THEN Moved(k, "Provisioned") ELSE k]
    BY <1>4 DEF Detach
  <2>3. n \in Nat
    BY <1>1, <2>1, MinusType DEF VirtualAccelerator
  <2>4. \A t \in TenantIds : Minus(tenants[t].active_attachments, 1) \in Nat
    BY MinusType DEF TypeOK, Tenant
  <2> HIDE DEF n
  <2>5. k \in VirtualAccelerator
    BY <1>1, <2>1, <2>3 DEF VirtualAccelerator
  <2> HIDE DEF k, leaves, o
  <2>6. Moved(k, "Provisioned") \in VirtualAccelerator
    BY <2>5, MovedType DEF LifecycleStates
  <2>7. virtuals' \in [VirtualIds -> VirtualAccelerator]
    BY <2>1, <2>2, <2>5, <2>6 DEF TypeOK
  <2>8. tenants' \in [TenantIds -> Tenant]
    <3>1. CASE o \notin TenantIds
      BY <2>2, <3>1 DEF TypeOK
    <3>2. CASE o \in TenantIds
      BY <2>2, <2>4, <3>2 DEF TypeOK, Tenant
    <3> QED
      BY <3>1, <3>2
  <2>9. leases' \in [LeaseIds -> Lease]
    BY <2>2 DEF TypeOK, Lease, LeaseStates
  <2> QED
    BY <1>4, <2>7, <2>8, <2>9 DEF TypeOK, Detach
<1>5. ASSUME NEW v \in VirtualIds, NEW n \in Nat,
             virtuals' = [virtuals EXCEPT ![v].allocated_bytes = n]
      PROVE  virtuals' \in [VirtualIds -> VirtualAccelerator]
  BY <1>5 DEF TypeOK, VirtualAccelerator
<1>6. ASSUME NEW l \in LeaseIds, NEW bytes \in AllocationSizes, ReserveAllocation(l, bytes)
      PROVE  TypeOK'
  <2> DEFINE v == leases[l].virtual
             n == virtuals[v].allocated_bytes + bytes
  <2>1. v \in VirtualIds
    BY <1>6 DEF ReserveAllocation, RequireOwner, VirtualExists
  <2>2. n \in Nat
    BY <1>1, <2>1, InputsAssumption DEF VirtualAccelerator
  <2>3. virtuals' = [virtuals EXCEPT ![v].allocated_bytes = n]
    BY <1>6 DEF ReserveAllocation
  <2>4. virtuals' \in [VirtualIds -> VirtualAccelerator]
    BY <1>5, <2>1, <2>2, <2>3
  <2> QED
    BY <1>6, <2>4 DEF TypeOK, ReserveAllocation
<1>7. ASSUME NEW v \in VirtualIds, NEW bytes \in AllocationSizes, ReleaseAllocation(v, bytes)
      PROVE  TypeOK'
  <2> DEFINE n == virtuals[v].allocated_bytes - bytes
  <2>1. n \in Nat
    BY <1>1, <1>7, InputsAssumption DEF ReleaseAllocation, VirtualAccelerator
  <2>2. virtuals' = [virtuals EXCEPT ![v].allocated_bytes = n]
    BY <1>7 DEF ReleaseAllocation
  <2>3. virtuals' \in [VirtualIds -> VirtualAccelerator]
    BY <1>5, <2>1, <2>2
  <2> QED
    BY <1>7, <2>3 DEF TypeOK, ReleaseAllocation
<1> QED
  BY <1>2, <1>3, <1>4, <1>6, <1>7 DEF AttachmentStep

\* plan, prepare, commit, complete and abort_migration.
LEMMA MigrationTypes ==
  ASSUME TypeOK, Anchored, MigrationStep
  PROVE  TypeOK'
<1>1. ASSUME NEW v \in VirtualIds PROVE virtuals[v] \in VirtualAccelerator
  BY DEF TypeOK
<1>2. ASSUME NEW m \in MigrationIds, MigrationPrologue(m)
      PROVE  migrations[m].virtual \in VirtualIds /\ migrations[m].destination_backing \in Backings
  BY <1>2 DEF MigrationPrologue, MigrationExists, Anchored
<1>3. ASSUME NEW v \in VirtualIds, NEW b \in Backings, NEW m \in MigrationIds,
             PlanMigration(v, b, m)
      PROVE  TypeOK'
  <2> DEFINE r == virtuals[v]
             h == [generation |-> 1, state |-> "Planned",
                   virtual |-> v, virtual_generation |-> r.generation,
                   source_backing |-> r.backing,
                   source_backing_generation |-> backings[r.backing].generation,
                   destination_backing |-> b,
                   destination_backing_generation |-> backings[b].generation,
                   tenant |-> r.owner, tenant_generation |-> r.owner_generation,
                   policy_generation |-> policy_generation, epoch |-> epoch,
                   source_assignment |-> r.assignment, destination_assignment |-> 0]
  <2>1. /\ migrations' = [migrations EXCEPT ![m] = h]
        /\ virtuals' = [virtuals EXCEPT ![v].migration = m]
    BY <1>3 DEF PlanMigration
  <2>2. r.backing \in Backings
    BY <1>1, <1>3 DEF PlanMigration, VirtualAccelerator
  <2>3. backings[r.backing].generation \in Nat /\ backings[b].generation \in Nat
    BY <2>2 DEF TypeOK, Backing
  <2>4. h \in Migration
    BY <1>1, <2>2, <2>3 DEF TypeOK, Migration, MigrationStates, VirtualAccelerator
  <2> HIDE DEF h
  <2>5. migrations' \in [MigrationIds -> Migration]
    BY <2>1, <2>4 DEF TypeOK
  <2>6. virtuals' \in [VirtualIds -> VirtualAccelerator]
    BY <2>1 DEF TypeOK, VirtualAccelerator
  <2> QED
    BY <1>3, <2>5, <2>6 DEF TypeOK, PlanMigration
<1>4. ASSUME NEW m \in MigrationIds, NEW a \in AssignmentIds, PrepareMigration(m, a)
      PROVE  TypeOK'
  <2> DEFINE v == migrations[m].virtual
             b == migrations[m].destination_backing
             n == virtuals[v].backing_generation + 1
             g == virtuals[v].generation + 1
             p == migrations[m].generation + 1
             h == [virtual |-> v, backing |-> b, backing_generation |-> n,
                   state |-> "Prepared", authoritative |-> FALSE]
  <2>1. v \in VirtualIds /\ b \in Backings
    BY <1>2, <1>4 DEF PrepareMigration
  <2>2. n \in Nat /\ g \in Nat /\ p \in Nat
    BY <1>1, <2>1 DEF TypeOK, VirtualAccelerator, Migration
  <2>3. /\ virtuals' = [virtuals EXCEPT ![v] = Moved(WithoutAttachments(v), "Migrating")]
        /\ assignments' = [assignments EXCEPT ![a] = h]
        /\ migrations' = [migrations EXCEPT ![m].state = "CommitReady", ![m].generation = p,
                                            ![m].virtual_generation = g,
                                            ![m].destination_assignment = a]
    BY <1>4 DEF PrepareMigration
  <2> HIDE DEF v, b, n, g, p
  <2>4. h \in Assignment
    BY <2>1, <2>2 DEF Assignment, AssignmentStates
  <2>5. Moved(WithoutAttachments(v), "Migrating") \in VirtualAccelerator
    BY <2>1, WithoutAttachmentsType, MovedType DEF LifecycleStates
  <2>6. virtuals' \in [VirtualIds -> VirtualAccelerator]
    BY <2>3, <2>5 DEF TypeOK
  <2>7. assignments' \in [AssignmentIds -> Assignment]
    BY <2>3, <2>4 DEF TypeOK
  <2>8. migrations' \in [MigrationIds -> Migration]
    <3> DEFINE k == [migrations[m] EXCEPT !.state = "CommitReady", !.generation = p,
                                          !.virtual_generation = g,
                                          !.destination_assignment = a]
    <3>1. k \in Migration
      <4>1. migrations[m] \in Migration /\ "CommitReady" \in MigrationStates
        BY DEF TypeOK, MigrationStates
      <4> QED
        BY <2>2, <4>1 DEF Migration
    <3>2. migrations' = [migrations EXCEPT ![m] = k]
      BY <2>3 DEF TypeOK
    <3> HIDE DEF k
    <3> QED
      BY <3>1, <3>2 DEF TypeOK
  <2>9. leases' \in [LeaseIds -> Lease]
    BY <1>4, EndedLeasesType DEF PrepareMigration, FencedLeases, LeaseStates
  <2>10. tenants' \in [TenantIds -> Tenant]
    BY <1>4, TenantsAfterFencingType DEF PrepareMigration
  <2> QED
    BY <1>4, <2>6, <2>7, <2>8, <2>9, <2>10 DEF TypeOK, PrepareMigration
<1>5. ASSUME NEW m \in MigrationIds, CommitMigration(m) PROVE TypeOK'
  <2> DEFINE v == migrations[m].virtual
             b == migrations[m].destination_backing
             source == migrations[m].source_assignment
             destination == migrations[m].destination_assignment
             n == assignments[destination].backing_generation
             p == backings[b].physical_generation
             g == virtuals[v].generation + 1
             k == [virtuals[v] EXCEPT !.backing = b, !.backing_generation = n,
                                      !.physical_generation = p, !.assignment = destination]
             bk == ReleasedBackings({migrations[m].source_backing})
  <2>1. v \in VirtualIds /\ b \in Backings
    BY <1>2, <1>5 DEF CommitMigration
  <2>2. destination \in AssignmentIds
    BY <1>5 DEF CommitMigration, TypeOK, Migration
  <2>3. n \in Nat /\ p \in Nat /\ g \in Nat
    BY <1>1, <2>1, <2>2 DEF TypeOK, Assignment, Backing, VirtualAccelerator
  <2>4. /\ virtuals' = [virtuals EXCEPT ![v] = Moved(k, "Provisioned")]
        /\ assignments' = CutOver(source, destination)
        /\ backings' = [bk EXCEPT ![b].assigned_to = v, ![b].active_assignment = destination]
        /\ migrations' = [migrations EXCEPT ![m].state = "Committed",
                                            ![m].virtual_generation = g]
    BY <1>5 DEF CommitMigration
  <2>5. bk \in [Backings -> Backing]
    BY ReleasedBackingsType
  <2> HIDE DEF n, p, g, bk, source
  <2>6. k \in VirtualAccelerator
    BY <1>1, <2>1, <2>2, <2>3 DEF VirtualAccelerator
  <2> HIDE DEF k, v, b, destination
  <2>7. Moved(k, "Provisioned") \in VirtualAccelerator
    BY <2>6, MovedType DEF LifecycleStates
  <2>8. virtuals' \in [VirtualIds -> VirtualAccelerator]
    BY <2>4, <2>7 DEF TypeOK
  <2>9. assignments' \in [AssignmentIds -> Assignment]
    BY <2>2, <2>4, CutOverType
  <2>10. backings' \in [Backings -> Backing]
    BY <2>1, <2>2, <2>4, <2>5 DEF Backing
  <2>11. migrations' \in [MigrationIds -> Migration]
    <3> DEFINE k2 == [migrations[m] EXCEPT !.state = "Committed", !.virtual_generation = g]
    <3>1. migrations' = [migrations EXCEPT ![m] = k2]
      BY <2>4 DEF TypeOK
    <3>2. k2 \in Migration
      BY <2>3, MigrationUpdateType DEF MigrationStates
    <3> HIDE DEF k2
    <3> QED
      BY <3>1, <3>2 DEF TypeOK
  <2> QED
    BY <1>5, <2>8, <2>9, <2>10, <2>11 DEF TypeOK, CommitMigration
<1>6. ASSUME NEW m \in MigrationIds, CompleteMigration(m) PROVE TypeOK'
  <2>1. migrations' \in [MigrationIds -> Migration]
    BY <1>6 DEF CompleteMigration, TypeOK, Migration, MigrationStates
  <2> QED
    BY <1>6, <2>1 DEF TypeOK, CompleteMigration
<1>7. ASSUME NEW m \in MigrationIds, AbortMigration(m) PROVE TypeOK'
  <2> DEFINE v == migrations[m].virtual
  <2>1. v \in VirtualIds
    BY <1>2, <1>7 DEF AbortMigration
  <2>2. assignments' \in [AssignmentIds -> Assignment]
    BY <1>7, FailedDestinationsType DEF AbortMigration
  <2>3. migrations' \in [MigrationIds -> Migration]
    <3>1. [migrations[m] EXCEPT !.state = "Aborted"] \in Migration
      BY MigrationUpdateType DEF MigrationStates
    <3>2. migrations' = [migrations EXCEPT ![m] = [migrations[m] EXCEPT !.state = "Aborted"]]
      BY <1>7 DEF AbortMigration, TypeOK
    <3> QED
      BY <3>1, <3>2 DEF TypeOK
  <2>4. Moved(virtuals[v], "Provisioned") \in VirtualAccelerator
    BY <1>1, <2>1, MovedType DEF LifecycleStates
  <2>5. virtuals' \in [VirtualIds -> VirtualAccelerator]
    BY <1>7, <2>1, <2>4 DEF TypeOK, AbortMigration
  <2> QED
    BY <1>7, <2>2, <2>3, <2>5 DEF TypeOK, AbortMigration
<1> QED
  BY <1>3, <1>4, <1>5, <1>6, <1>7 DEF MigrationStep

\* set_policy.
LEMMA PolicyTypes ==
  ASSUME TypeOK, PolicyStep
  PROVE  TypeOK'
<1>1. PICK p \in Policies : SetPolicy(p)
  BY DEF PolicyStep
<1>2. policy' \in Policy /\ policy_generation' \in Nat
  BY <1>1, InputsAssumption DEF SetPolicy, TypeOK
<1>3. leases' \in [LeaseIds -> Lease]
  BY <1>1, EndedLeasesType DEF SetPolicy, LeaseStates
<1>4. tenants' \in [TenantIds -> Tenant]
  BY <1>1 DEF SetPolicy, TypeOK, Tenant
<1>5. PICK V \in SUBSET VirtualIds :
        /\ assignments' = AssignmentsWithout(V)
        /\ backings' = BackingsWithout(V)
        /\ virtuals' = [v \in VirtualIds |->
                          IF v \in Governed THEN Regoverned(v, v \in V) ELSE virtuals[v]]
  BY <1>1 DEF SetPolicy
<1>6. assignments' \in [AssignmentIds -> Assignment]
  BY <1>5, EndedAssignmentsType DEF AssignmentsWithout, RevokedAssignments, AssignmentStates
<1>7. backings' \in [Backings -> Backing]
  BY <1>5, ReleasedBackingsType DEF BackingsWithout
<1>8. ASSUME NEW v \in VirtualIds PROVE Regoverned(v, v \in V) \in VirtualAccelerator
  <2> DEFINE r == Downgraded([virtuals[v] EXCEPT !.active_attachments = 0], "Provisioned")
             k == [r EXCEPT !.assignment = 0]
  <2>1. [virtuals[v] EXCEPT !.active_attachments = 0] \in VirtualAccelerator
    BY DEF TypeOK, VirtualAccelerator
  <2>2. r \in VirtualAccelerator
    BY <2>1, DowngradedType DEF LifecycleStates
  <2>3. Regoverned(v, v \in V) = IF v \in V THEN Moved(k, "RecoveryRequired") ELSE r
    BY DEF Regoverned
  <2> HIDE DEF r
  <2>4. k \in VirtualAccelerator
    BY <2>2 DEF VirtualAccelerator
  <2> HIDE DEF k
  <2>5. Moved(k, "RecoveryRequired") \in VirtualAccelerator
    BY <2>4, MovedType DEF LifecycleStates
  <2> QED
    BY <2>2, <2>3, <2>5
<1>9. virtuals' \in [VirtualIds -> VirtualAccelerator]
  BY <1>5, <1>8 DEF TypeOK
<1> QED
  BY <1>1, <1>2, <1>3, <1>4, <1>6, <1>7, <1>9 DEF TypeOK, SetPolicy

\* Crash, shutdown and the two commits of start().
LEMMA ProcessTypes ==
  ASSUME TypeOK, ProcessStep
  PROVE  TypeOK'
<1>1. ASSUME NEW s \in LeaseStates, ReleaseAttachments(s)
      PROVE  /\ leases' \in [LeaseIds -> Lease]
             /\ virtuals' \in [VirtualIds -> VirtualAccelerator]
             /\ tenants' \in [TenantIds -> Tenant]
  <2>1. leases' \in [LeaseIds -> Lease]
    BY <1>1, EndedLeasesType DEF ReleaseAttachments
  <2>2. tenants' \in [TenantIds -> Tenant]
    BY <1>1 DEF ReleaseAttachments, TypeOK, Tenant
  <2>3. ASSUME NEW v \in VirtualIds
        PROVE  Downgraded([virtuals[v] EXCEPT !.active_attachments = 0], "Provisioned")
                 \in VirtualAccelerator
    <3>1. [virtuals[v] EXCEPT !.active_attachments = 0] \in VirtualAccelerator
      BY DEF TypeOK, VirtualAccelerator
    <3> QED
      BY <3>1, DowngradedType DEF LifecycleStates
  <2> QED
    BY <1>1, <2>1, <2>2, <2>3 DEF ReleaseAttachments
<1>2. ASSUME Crash \/ RefuseStart PROVE TypeOK'
  BY <1>2 DEF TypeOK, Crash, RefuseStart
<1>3. ASSUME Shutdown PROVE TypeOK'
  <2>1. ReleaseAttachments("Fenced") /\ "Fenced" \in LeaseStates
    BY <1>3 DEF Shutdown, LeaseStates
  <2> QED
    BY <1>1, <1>3, <2>1 DEF TypeOK, Shutdown
<1>4. ASSUME Start PROVE TypeOK'
  <2>1. ReleaseAttachments("Expired") /\ "Expired" \in LeaseStates
    BY <1>4 DEF Start, LeaseStates
  <2>2. backings' \in [Backings -> Backing]
    BY <1>4 DEF Start, TypeOK, Backing
  <2>3. physical' \in [Devices -> Physical]
    BY <1>4 DEF Start, TypeOK, Physical
  <2> QED
    BY <1>1, <1>4, <2>1, <2>2, <2>3 DEF TypeOK, Start
<1>5. ASSUME ClassifyRecoveredMigrations PROVE TypeOK'
  <2>1. assignments' \in [AssignmentIds -> Assignment]
    BY <1>5, FailedDestinationsType DEF ClassifyRecoveredMigrations
  <2>2. ASSUME NEW m \in MigrationIds
        PROVE  /\ migrations[m] \in Migration
               /\ [migrations[m] EXCEPT !.state = "Aborted"] \in Migration
               /\ [migrations[m] EXCEPT !.state = "Completed"] \in Migration
    BY MigrationUpdateType DEF TypeOK, MigrationStates
  <2>3. migrations' \in [MigrationIds -> Migration]
    BY <1>5, <2>2 DEF ClassifyRecoveredMigrations
  <2>4. ASSUME NEW v \in VirtualIds
        PROVE  /\ virtuals[v] \in VirtualAccelerator
               /\ Moved(virtuals[v], "Provisioned") \in VirtualAccelerator
    BY MovedType DEF TypeOK, LifecycleStates
  <2>5. virtuals' \in [VirtualIds -> VirtualAccelerator]
    BY <1>5, <2>4 DEF ClassifyRecoveredMigrations
  <2> QED
    BY <1>5, <2>1, <2>3, <2>5 DEF TypeOK, ClassifyRecoveredMigrations
<1> QED
  BY <1>2, <1>3, <1>4, <1>5 DEF ProcessStep

-----------------------------------------------------------------------------
\* start() on an empty store leaves a well formed state.
LEMMA InitTypes == Init => TypeOK /\ Anchored
<1> SUFFICES ASSUME Init PROVE TypeOK /\ Anchored
  OBVIOUS
<1>1. tenants \in [TenantIds -> Tenant] /\ physical \in [Devices -> Physical]
  BY DEF Init, NoTenant, Tenant, NoPhysical, Physical
<1>2. backings \in [Backings -> Backing]
  BY DEF Init, FreshBacking, Backing
<1>3. NoVirtual \in VirtualAccelerator
  <2>1. (CHOOSE k \in Contracts : TRUE) \in Contract
    BY InputsAssumption
  <2> QED
    BY <2>1 DEF NoVirtual, VirtualAccelerator, LifecycleStates
<1>4. virtuals \in [VirtualIds -> VirtualAccelerator]
  BY <1>3 DEF Init
<1>5. leases \in [LeaseIds -> Lease]
  BY DEF Init, NoLease, Lease, LeaseStates
<1>6. assignments \in [AssignmentIds -> Assignment]
  BY DEF Init, NoAssignment, Assignment, AssignmentStates
<1>7. migrations \in [MigrationIds -> Migration]
  BY DEF Init, NoMigration, Migration, MigrationStates
<1>8. TypeOK
  BY <1>1, <1>2, <1>4, <1>5, <1>6, <1>7, InputsAssumption DEF Init, TypeOK
<1>9. Anchored
  BY DEF Init, Anchored, NoVirtual, NoMigration
<1> QED
  BY <1>8, <1>9

\* Every step of the runtime, and every stutter, keeps TypeOK.
LEMMA TypeStep ==
  ASSUME TypeOK, Anchored, [Next]_vars
  PROVE  TypeOK'
<1>1. CASE UNCHANGED vars
  BY <1>1 DEF vars, TypeOK
<1> QED
  BY <1>1, TenancyTypes, DeviceTypes, LifecycleTypes, BindingTypes, AttachmentTypes,
     MigrationTypes, PolicyTypes, ProcessTypes DEF Next
=============================================================================
