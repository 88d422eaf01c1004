---------------------------- MODULE PermitProofs -----------------------------
(***************************************************************************)
(* Authority is only over what is permitted, for every fleet: the theorem  *)
(* behind AuthorityIsPermitted.                                            *)
(*                                                                         *)
(* assign_backing, replace_backing and update_contract validate what they  *)
(* bind, set_policy validates every accelerator that is not retired, and a *)
(* plan of plan_migration stays good for as long as commit_migration finds *)
(* it fresh.                                                               *)
(***************************************************************************)
EXTENDS TermsProofs

(* The operations that change a contract, the policy or a binding. *)

\* create_virtual and update_contract: the one gives a contract to a new
\* accelerator, the other validates the backing against the new contract.
LEMMA ContractKeepsLicence ==
  ASSUME Inductive, Inductive', Licensed, Withdraws, NEW v \in VirtualIds, NEW c \in Contracts,
         UpdateContract(v, c) \/ \E t \in TenantIds : CreateVirtual(v, t, c)
  PROVE  Licensed'
<1>1. /\ policy' = policy /\ policy_generation' = policy_generation
      /\ migrations' = migrations /\ assignments' = assignments
      /\ \A u \in VirtualIds \ {v} : virtuals'[u] = virtuals[u]
  BY DEF UpdateContract, CreateVirtual, Inductive, TypeOK
<1>2. PlansArePermitted'
  <2>1. PolicyKept
    BY <1>1 DEF PolicyKept
  <2> QED
    BY <2>1, PlansStayPermitted
       DEF Inductive, Licensed, Withdraws, PlansKept, PolicyKept, PlansArePermitted
<1>3. virtuals'[v].state = "Retired" => virtuals'[v].assignment = 0
  <2>1. CASE UpdateContract(v, c)
    BY <2>1 DEF UpdateContract, Inductive, TypeOK, VirtualAccelerator, Licensed, RetiredIsUnbound
  <2>2. ASSUME NEW t \in TenantIds, CreateVirtual(v, t, c)
        PROVE  virtuals'[v].assignment = 0
    <3> DEFINE r == [NoVirtual EXCEPT !.generation = 1, !.state = "Provisioned", !.owner = t,
                                      !.owner_generation = tenants[t].generation,
                                      !.contract = c]
    <3>1. virtuals'[v] = r
      BY <2>2 DEF CreateVirtual, Inductive, TypeOK
    <3>2. r.assignment = 0
      BY DEF NoVirtual
    <3> QED
      BY <3>1, <3>2
  <2> QED
    BY <2>1, <2>2
<1>4. RetiredIsUnbound'
  BY <1>1, <1>3 DEF Licensed, RetiredIsUnbound
<1>5. ASSUME NEW a \in AssignmentIds, assignments[a].authoritative
      PROVE  /\ assignments[a].backing \in policy.permits
             /\ assignments[a].backing \in virtuals'[assignments[a].virtual].contract.permits
  <2>1. /\ assignments[a].virtual \in VirtualIds
        /\ virtuals[assignments[a].virtual].assignment = a
        /\ virtuals[assignments[a].virtual].backing = assignments[a].backing
    BY <1>5, CurrentBinding DEF Inductive
  <2>2. /\ assignments[a].backing \in policy.permits
        /\ assignments[a].backing \in virtuals[assignments[a].virtual].contract.permits
    BY <1>5 DEF Licensed, AuthorityIsPermitted
  <2>3. CASE assignments[a].virtual # v
    BY <1>1, <2>1, <2>2, <2>3
  <2>4. CASE assignments[a].virtual = v /\ UpdateContract(v, c)
    <3>1. virtuals'[v].contract = c
      BY <2>4 DEF UpdateContract, Inductive, TypeOK, VirtualAccelerator
    <3>2. virtuals[v].backing # NoBacking
      <4>1. policy.permits \subseteq Backings
        BY DEF Inductive, TypeOK, Policy
      <4> QED
        BY <2>1, <2>2, <2>4, <4>1, BackingsAssumption
    <3>3. virtuals[v].backing \in c.permits
      BY <2>4, <3>2 DEF UpdateContract, ValidateBackingFor
    <3> QED
      BY <2>1, <2>2, <2>4, <3>1, <3>3
  <2>5. CASE assignments[a].virtual = v /\ \E t \in TenantIds : CreateVirtual(v, t, c)
    <3>1. virtuals[v].generation = 0
      BY <2>5 DEF CreateVirtual, IsNextVirtual
    <3> QED
      BY <2>1, <2>5, <3>1 DEF Inductive, Anchored, AssignmentIds
  <2> QED
    BY <2>3, <2>4, <2>5
<1>6. AuthorityIsPermitted'
  BY <1>1, <1>5 DEF AuthorityIsPermitted
<1> QED
  BY <1>2, <1>4, <1>6 DEF Licensed

\* set_policy: whatever the new policy does not permit has lost its authority,
\* and every plan is overtaken.
LEMMA PolicyKeepsLicence ==
  ASSUME Inductive, Inductive', Licensed, Withdraws, PolicyStep
  PROVE  Licensed'
<1>1. PICK p \in Policies : SetPolicy(p)
  BY DEF PolicyStep
<1>2. PICK V \in SUBSET VirtualIds :
        /\ Invalidated(V, p)
        /\ assignments' = AssignmentsWithout(V)
        /\ virtuals' = [v \in VirtualIds |->
                          IF v \in Governed THEN Regoverned(v, v \in V) ELSE virtuals[v]]
  BY <1>1 DEF SetPolicy
<1>3. policy' = p /\ policy_generation' = policy_generation + 1 /\ migrations' = migrations
  BY <1>1 DEF SetPolicy
<1>4. PlansArePermitted'
  <2>1. policy_generation \in Nat /\ \A m \in MigrationIds : migrations[m].policy_generation \in Nat
    <3>1. \A m \in MigrationIds : migrations[m] \in Migration
      BY DEF Inductive, TypeOK
    <3> QED
      BY <3>1 DEF Inductive, TypeOK, Migration
  <2>2. \A m \in MigrationIds : migrations[m].generation # 0 =>
          migrations[m].policy_generation <= policy_generation
    BY DEF Licensed, PlansArePermitted
  <2>3. \A m \in MigrationIds : migrations'[m].generation # 0 =>
          /\ migrations'[m].policy_generation <= policy_generation'
          /\ migrations'[m].policy_generation # policy_generation'
    BY <1>3, <2>1, <2>2
  <2> QED
    BY <2>3 DEF PlansArePermitted
<1>5. ASSUME NEW v \in VirtualIds
      PROVE  /\ virtuals'[v].contract = virtuals[v].contract
             /\ virtuals'[v].state = "Retired" => virtuals'[v].assignment = 0
  <2> DEFINE e == [virtuals[v] EXCEPT !.active_attachments = 0]
             r == Downgraded(e, "Provisioned")
             k == [r EXCEPT !.assignment = 0]
  <2>1. e \in VirtualAccelerator /\ Same(virtuals[v], e) /\ virtuals[v] \in VirtualAccelerator
    BY DEF Inductive, TypeOK, VirtualAccelerator, Same, Observed
  <2>2. CASE v \notin Governed
    BY <1>2, <2>2 DEF Licensed, RetiredIsUnbound
  <2>3. CASE v \in Governed
    <3>1. virtuals'[v] = IF v \in V THEN Moved(k, "RecoveryRequired") ELSE r
      BY <1>2, <2>3 DEF Regoverned
    <3> HIDE DEF e
    <3>2. r \in VirtualAccelerator /\ Steady(virtuals[v], r)
      BY <2>1, DowngradedType, MovedSteady DEF LifecycleStates
    <3>3. virtuals[v].state # "Retired"
      BY <2>3 DEF Governed
    <3> HIDE DEF r
    <3>4. k \in VirtualAccelerator /\ k.contract = r.contract
      BY <3>2 DEF VirtualAccelerator
    <3> HIDE DEF k
    <3>5. Moved(k, "RecoveryRequired").contract = k.contract
          /\ Moved(k, "RecoveryRequired").state = "RecoveryRequired"
      BY <3>4 DEF Moved, VirtualAccelerator
    <3> QED
      BY <3>1, <3>2, <3>3, <3>4, <3>5 DEF Steady
  <2> QED
    BY <2>2, <2>3
<1>6. RetiredIsUnbound'
  BY <1>5 DEF RetiredIsUnbound
<1>7. ASSUME NEW a \in AssignmentIds, assignments'[a].authoritative
      PROVE  /\ assignments[a].backing \in p.permits
             /\ assignments[a].virtual \in VirtualIds
             /\ assignments[a].backing \in virtuals[assignments[a].virtual].contract.permits
  <2> DEFINE v == assignments[a].virtual
  <2>1. assignments[a].authoritative
    BY <1>7 DEF Withdraws, NoAuthorityGained
  <2>2. /\ v \in VirtualIds /\ virtuals[v].assignment = a
        /\ virtuals[v].backing = assignments[a].backing
    BY <2>1, CurrentBinding DEF Inductive
  <2>3. /\ assignments[a].backing \in policy.permits
        /\ assignments[a].backing \in virtuals[v].contract.permits
    BY <2>1 DEF Licensed, AuthorityIsPermitted
  <2>4. virtuals[v].backing # NoBacking
    <3>1. policy.permits \subseteq Backings
      BY DEF Inductive, TypeOK, Policy
    <3> QED
      BY <2>2, <2>3, <3>1, BackingsAssumption
  <2>5. v \in Governed
    <3>1. virtuals[v].assignment # 0
      BY <2>2 DEF AssignmentIds
    <3>2. virtuals[v].generation # 0
      BY <2>2, <3>1 DEF Inductive, Anchored
    <3>3. virtuals[v].state # "Retired"
      BY <2>2, <3>1 DEF Licensed, RetiredIsUnbound
    <3> QED
      BY <2>2, <3>2, <3>3 DEF Governed, VirtualExists
  <2>6. v \notin V
    <3>1. assignments' = EndedAssignments({virtuals[u].assignment : u \in V}, "Revoked")
      BY <1>2 DEF AssignmentsWithout, RevokedAssignments
    <3>2. a \notin {virtuals[u].assignment : u \in V}
      BY <1>7, <3>1, EndedEffect DEF Inductive
    <3> QED
      BY <2>2, <3>2
  <2>7. virtuals[v].backing \in p.permits
    BY <1>2, <2>2, <2>4, <2>5, <2>6 DEF Invalidated, ValidateBackingFor
  <2> QED
    BY <2>2, <2>3, <2>7
<1>8. AuthorityIsPermitted'
  BY <1>3, <1>5, <1>7 DEF AuthorityIsPermitted, Withdraws, NoAuthorityGained
<1> QED
  BY <1>4, <1>6, <1>8 DEF Licensed

\* assign_backing and replace_backing bind what they have just validated.
LEMMA BindingKeepsLicence ==
  ASSUME Inductive, Inductive', Licensed, VirtualsFollow, BindingStep
  PROVE  Licensed'
<1>1. PICK v \in VirtualIds, b \in Backings, a \in AssignmentIds :
        AssignBacking(v, b, a) \/ ReplaceBacking(v, b, a)
  BY DEF BindingStep
<1>2. /\ policy' = policy /\ policy_generation' = policy_generation /\ migrations' = migrations
      /\ b \in policy.permits /\ b \in virtuals[v].contract.permits
  BY <1>1 DEF AssignBacking, ReplaceBacking, MayBind, ValidateBackingFor
<1>3. PlansArePermitted'
  <2>1. PolicyKept /\ PlansKept
    BY <1>2, UnchangedEffect DEF PolicyKept
  <2> QED
    BY <2>1, PlansStayPermitted DEF Inductive, Licensed, PlansKept, PolicyKept, PlansArePermitted
<1>4. PICK r \in VirtualAccelerator, asg \in [AssignmentIds -> Assignment],
           bk \in [Backings -> Backing] :
        /\ Same(virtuals[v], r)
        /\ \A c \in AssignmentIds :
             /\ asg[c].virtual = assignments[c].virtual
             /\ asg[c].backing = assignments[c].backing
             /\ asg[c].authoritative => assignments[c].authoritative
        /\ Bind(v, b, a, r, asg, bk)
  <2>1. CASE AssignBacking(v, b, a)
    <3>1. /\ virtuals[v] \in VirtualAccelerator /\ Same(virtuals[v], virtuals[v])
          /\ assignments \in [AssignmentIds -> Assignment]
          /\ backings \in [Backings -> Backing]
      BY DEF Inductive, TypeOK, Same
    <3>2. Bind(v, b, a, virtuals[v], assignments, backings)
      BY <2>1 DEF AssignBacking
    <3> QED
      BY <3>1, <3>2
  <2>2. CASE ReplaceBacking(v, b, a)
    <3>1. WithoutAttachments(v) \in VirtualAccelerator /\ Same(virtuals[v], WithoutAttachments(v))
      BY WithoutAttachmentsType, WithoutAttachmentsSame DEF Inductive
    <3>2. Bind(v, b, a, WithoutAttachments(v), Superseded(virtuals[v].assignment),
               ReleasedBackings({virtuals[v].backing}))
      BY <2>2 DEF ReplaceBacking
    <3> QED
      BY <3>1, <3>2, SupersededEffect, ReleasedBackingsType DEF Inductive
  <2> QED
    BY <1>1, <2>1, <2>2
<1>5. /\ virtuals'[v].contract = virtuals[v].contract
      /\ virtuals'[v].state = "Provisioned"
      /\ \A u \in VirtualIds \ {v} : virtuals'[u] = virtuals[u]
  <2> DEFINE n == r.backing_generation + 1
             g == backings[b].physical_generation
             k == [r EXCEPT !.assignment = a, !.backing = b, !.backing_generation = n,
                            !.physical_generation = g]
  <2>1. virtuals' = [virtuals EXCEPT ![v] = Moved(k, "Provisioned")]
    BY <1>4 DEF Bind
  <2> HIDE DEF n, g
  <2>2. /\ Moved(k, "Provisioned").contract = r.contract
        /\ Moved(k, "Provisioned").state = "Provisioned"
    BY DEF Moved, VirtualAccelerator
  <2> HIDE DEF k
  <2>3. r.contract = virtuals[v].contract
    BY <1>4 DEF Same, Observed
  <2> QED
    BY <2>1, <2>2, <2>3 DEF Inductive, TypeOK
<1>6. RetiredIsUnbound'
  BY <1>5 DEF Licensed, RetiredIsUnbound
<1>7. ASSUME NEW c \in AssignmentIds, assignments'[c].authoritative
      PROVE  /\ assignments'[c].backing \in policy.permits
             /\ assignments'[c].backing \in virtuals'[assignments'[c].virtual].contract.permits
  <2> DEFINE h == [virtual |-> v, backing |-> b, backing_generation |-> r.backing_generation + 1,
                   state |-> "Active", authoritative |-> TRUE]
  <2>1. assignments' = [asg EXCEPT ![a] = h]
    BY <1>4 DEF Bind
  <2>2. h.virtual = v /\ h.backing = b
    OBVIOUS
  <2> HIDE DEF h
  <2>3. CASE c = a
    BY <1>2, <1>5, <2>1, <2>2, <2>3
  <2>4. CASE c # a
    <3>1. /\ assignments[c].authoritative
          /\ assignments'[c].virtual = assignments[c].virtual
          /\ assignments'[c].backing = assignments[c].backing
      BY <1>4, <1>7, <2>1, <2>4
    <3>2. assignments[c].virtual \in VirtualIds
      BY <3>1, CurrentBinding DEF Inductive
    <3>3. virtuals'[assignments[c].virtual].contract = virtuals[assignments[c].virtual].contract
      BY <1>5, <3>2
    <3> QED
      BY <3>1, <3>3 DEF Licensed, AuthorityIsPermitted
  <2> QED
    BY <2>3, <2>4
<1>8. AuthorityIsPermitted'
  BY <1>2, <1>7 DEF AuthorityIsPermitted
<1> QED
  BY <1>3, <1>6, <1>8 DEF Licensed

\* plan_migration and prepare_migration: the plan is made to a validated
\* destination, and prepared only while it is fresh.
LEMMA PlanningKeepsLicence ==
  ASSUME Inductive, Inductive', Licensed, VirtualsFollow, NEW m \in MigrationIds,
         \/ \E v \in VirtualIds, b \in Backings : PlanMigration(v, b, m)
         \/ \E a \in AssignmentIds : PrepareMigration(m, a)
  PROVE  Licensed'
<1> DEFINE Destined(k) ==
             LET plan == migrations'[k]  r == virtuals'[migrations'[k].virtual] IN
             /\ plan.policy_generation <= policy_generation'
             /\ plan.policy_generation = policy_generation' /\ plan.virtual_generation = r.generation
                  => plan.destination_backing \in policy'.permits \cap r.contract.permits
           Gained == \A a \in AssignmentIds : assignments'[a].authoritative =>
                       /\ assignments[a].authoritative
                       /\ assignments'[a].virtual = assignments[a].virtual
                       /\ assignments'[a].backing = assignments[a].backing
<1>1. /\ policy' = policy /\ policy_generation' = policy_generation
      /\ \A k \in MigrationIds \ {m} : migrations'[k] = migrations[k]
  BY DEF PlanMigration, PrepareMigration, Inductive, TypeOK
<1>2. ASSUME NEW v \in VirtualIds, NEW b \in Backings, PlanMigration(v, b, m)
      PROVE  Destined(m) /\ TermsKept /\ Gained
  <2>1. /\ migrations'[m].virtual = v /\ migrations'[m].destination_backing = b
        /\ migrations'[m].policy_generation = policy_generation
    BY <1>2 DEF PlanMigration, Inductive, TypeOK
  <2>2. b \in policy.permits /\ b \in virtuals[v].contract.permits
    BY <1>2 DEF PlanMigration, ValidateBackingFor
  <2>3. TermsKept
    BY <1>2 DEF PlanMigration, Inductive, TypeOK, VirtualAccelerator, TermsKept, Steady
  <2>4. Gained
    BY <1>2 DEF PlanMigration
  <2>5. policy_generation \in Nat
    BY DEF Inductive, TypeOK
  <2> QED
    BY <1>1, <2>1, <2>2, <2>3, <2>4, <2>5 DEF TermsKept, Steady
<1>3. ASSUME NEW a \in AssignmentIds, PrepareMigration(m, a)
      PROVE  Destined(m) /\ TermsKept /\ Gained
  <2> DEFINE v == migrations[m].virtual
  <2>1. migrations[m] \in Migration
    BY DEF Inductive, TypeOK
  <2>2. /\ migrations'[m].virtual = v
        /\ migrations'[m].destination_backing = migrations[m].destination_backing
        /\ migrations'[m].policy_generation = migrations[m].policy_generation
    BY <1>3, <2>1 DEF PrepareMigration, Inductive, TypeOK, Migration
  <2>3. /\ migrations[m].generation # 0
        /\ migrations[m].policy_generation = policy_generation
        /\ migrations[m].virtual_generation = virtuals[v].generation
    BY <1>3 DEF PrepareMigration, MigrationPrologue, MigrationExists, PlanIsFresh
  <2>4. migrations[m].destination_backing \in policy.permits \cap virtuals[v].contract.permits
    BY <2>3 DEF Licensed, PlansArePermitted
  <2>5. v \in VirtualIds
    BY <2>3 DEF Inductive, Anchored
  <2>6. virtuals' = [virtuals EXCEPT ![v] = Moved(WithoutAttachments(v), "Migrating")]
    BY <1>3 DEF PrepareMigration
  <2>7. TermsKept
    <3>1. virtuals[v] \in VirtualAccelerator /\ "Migrating" \in LifecycleStates \ {"Retired"}
      BY <2>5 DEF Inductive, TypeOK, LifecycleStates
    <3>2. Steady(virtuals[v], Moved(WithoutAttachments(v), "Migrating"))
      BY <2>5, <3>1, WithoutAttachmentsType, WithoutAttachmentsSame, MovedSteady DEF Inductive
    <3> HIDE DEF v
    <3>3. \A u \in VirtualIds \ {v} : virtuals'[u] = virtuals[u]
      BY <2>6 DEF Inductive, TypeOK
    <3>4. virtuals'[v] = Moved(WithoutAttachments(v), "Migrating")
      BY <2>5, <2>6 DEF Inductive, TypeOK
    <3> QED
      BY <3>2, <3>3, <3>4 DEF TermsKept, Steady
  <2>8. Gained
    <3> DEFINE h == [virtual |-> v, backing |-> migrations[m].destination_backing,
                     backing_generation |-> virtuals[v].backing_generation + 1,
                     state |-> "Prepared", authoritative |-> FALSE]
    <3>1. assignments' = [assignments EXCEPT ![a] = h]
      BY <1>3 DEF PrepareMigration
    <3>2. h.authoritative = FALSE
      OBVIOUS
    <3> HIDE DEF h
    <3> QED
      BY <3>1, <3>2 DEF Inductive, TypeOK
  <2>9. policy_generation \in Nat /\ virtuals'[v].contract = virtuals[v].contract
    BY <2>5, <2>7 DEF Inductive, TypeOK, TermsKept, Steady
  <2> HIDE DEF v, Gained
  <2> QED
    BY <1>1, <2>2, <2>3, <2>4, <2>7, <2>8, <2>9
<1>4. Destined(m) /\ TermsKept /\ Gained
  BY <1>2, <1>3
<1>5. PlansArePermitted'
  <2>1. ASSUME NEW k \in MigrationIds \ {m}, migrations'[k].generation # 0 PROVE Destined(k)
    <3>1. migrations'[k] = migrations[k] /\ PlanKept(k)
      BY <1>1 DEF PlanKept
    <3> QED
      BY <1>1, <2>1, <3>1, PlansStayPermitted DEF Inductive, Licensed
  <2> QED
    BY <1>4, <2>1 DEF PlansArePermitted
<1>6. AuthorityIsPermitted'
  <2> SUFFICES ASSUME NEW a \in AssignmentIds, assignments'[a].authoritative
               PROVE  /\ assignments'[a].backing \in policy'.permits
                      /\ assignments'[a].backing \in
                           virtuals'[assignments'[a].virtual].contract.permits
    BY DEF AuthorityIsPermitted
  <2>1. /\ assignments[a].authoritative
        /\ assignments'[a].virtual = assignments[a].virtual
        /\ assignments'[a].backing = assignments[a].backing
    BY <1>4
  <2>2. assignments[a].virtual \in VirtualIds
    BY <2>1, CurrentBinding DEF Inductive
  <2> QED
    BY <1>1, <1>4, <2>1, <2>2 DEF Licensed, AuthorityIsPermitted, TermsKept, Steady
<1>7. RetiredIsUnbound'
  <2>1. \A v \in VirtualIds :
          virtuals'[v].assignment = virtuals[v].assignment \/ virtuals'[v].state # "Retired"
    <3>1. ASSUME NEW u \in VirtualIds, NEW b \in Backings, PlanMigration(u, b, m),
                 NEW v \in VirtualIds
          PROVE  virtuals'[v].assignment = virtuals[v].assignment
      BY <3>1 DEF PlanMigration, Inductive, TypeOK, VirtualAccelerator
    <3>2. ASSUME NEW a \in AssignmentIds, PrepareMigration(m, a), NEW v \in VirtualIds
          PROVE  virtuals'[v] = virtuals[v] \/ virtuals'[v].state = "Migrating"
      <4>1. \/ virtuals'[v] = virtuals[v]
            \/ virtuals'[v] = Moved(WithoutAttachments(v), "Migrating")
        BY <3>2 DEF PrepareMigration, Inductive, TypeOK
      <4>2. Moved(WithoutAttachments(v), "Migrating").state = "Migrating"
        BY WithoutAttachmentsType DEF Inductive, Moved, VirtualAccelerator
      <4> QED
        BY <4>1, <4>2
    <3> QED
      BY <3>1, <3>2
  <2> QED
    BY <1>4, <2>1 DEF Licensed, RetiredIsUnbound, TermsKept, Steady
<1> QED
  BY <1>5, <1>6, <1>7 DEF Licensed

\* commit_migration validates nothing: its plan is fresh, so its destination is
\* still permitted.
LEMMA CommitKeepsLicence ==
  ASSUME Inductive, Inductive', Licensed, VirtualsFollow, NEW m \in MigrationIds,
         CommitMigration(m)
  PROVE  Licensed'
<1> DEFINE v == migrations[m].virtual
           b == migrations[m].destination_backing
           source == migrations[m].source_assignment
           destination == migrations[m].destination_assignment
<1>1. /\ policy' = policy /\ policy_generation' = policy_generation
      /\ assignments' = CutOver(source, destination)
      /\ migrations[m].generation # 0 /\ destination # 0
      /\ migrations[m].policy_generation = policy_generation
      /\ migrations[m].virtual_generation = virtuals[v].generation
  BY DEF CommitMigration, MigrationPrologue, MigrationExists, PlanIsFresh
<1>2. v \in VirtualIds /\ source \in AssignmentIds /\ destination \in AssignmentIds
  <2>1. migrations[m] \in Migration
    BY DEF Inductive, TypeOK
  <2> QED
    BY <1>1, <2>1 DEF Inductive, Anchored, Bound, Migration
<1>3. assignments[destination].virtual = v /\ assignments[destination].backing = b
  BY <1>1 DEF Inductive, Bound
<1>4. b \in policy.permits \cap virtuals[v].contract.permits
  BY <1>1 DEF Licensed, PlansArePermitted
<1>5. /\ virtuals'[v].contract = virtuals[v].contract
      /\ virtuals'[v].state = "Provisioned"
      /\ \A u \in VirtualIds \ {v} : virtuals'[u] = virtuals[u]
  <2> DEFINE n == assignments[destination].backing_generation
             g == backings[b].physical_generation
             k == [virtuals[v] EXCEPT !.backing = b, !.backing_generation = n,
                                      !.physical_generation = g, !.assignment = destination]
  <2>1. virtuals' = [virtuals EXCEPT ![v] = Moved(k, "Provisioned")]
    BY DEF CommitMigration
  <2>2. virtuals[v] \in VirtualAccelerator
    BY <1>2 DEF Inductive, TypeOK
  <2> HIDE DEF n, g, v, b, destination
  <2>3. Moved(k, "Provisioned").contract = virtuals[v].contract
        /\ Moved(k, "Provisioned").state = "Provisioned"
    BY <2>2 DEF Moved, VirtualAccelerator
  <2> HIDE DEF k
  <2> QED
    BY <1>2, <2>1, <2>3 DEF Inductive, TypeOK
<1>6. /\ \A k \in MigrationIds \ {m} : migrations'[k] = migrations[k]
      /\ migrations'[m].virtual = v /\ migrations'[m].destination_backing = b
      /\ migrations'[m].policy_generation = policy_generation
  <2>1. migrations[m] \in Migration
    BY DEF Inductive, TypeOK
  <2> QED
    BY <1>1, <2>1 DEF CommitMigration, Inductive, TypeOK, Migration
<1> HIDE DEF v, b, source, destination
<1>7. RetiredIsUnbound'
  BY <1>5 DEF Licensed, RetiredIsUnbound
<1>8. PlansArePermitted'
  <2> DEFINE Destined(k) ==
               LET plan == migrations'[k]  r == virtuals'[migrations'[k].virtual] IN
               /\ plan.policy_generation <= policy_generation'
               /\ plan.policy_generation = policy_generation'
                  /\ plan.virtual_generation = r.generation
                    => plan.destination_backing \in policy'.permits \cap r.contract.permits
  <2>1. ASSUME NEW k \in MigrationIds \ {m}, migrations'[k].generation # 0 PROVE Destined(k)
    <3>1. migrations'[k] = migrations[k] /\ PlanKept(k)
      BY <1>6 DEF PlanKept
    <3> QED
      BY <1>1, <2>1, <3>1, PlansStayPermitted DEF Inductive, Licensed
  <2>2. Destined(m)
    <3>1. policy_generation \in Nat
      BY DEF Inductive, TypeOK
    <3> QED
      BY <1>1, <1>4, <1>5, <1>6, <3>1
  <2> QED
    BY <2>1, <2>2 DEF PlansArePermitted
<1>9. ASSUME NEW c \in AssignmentIds, assignments'[c].authoritative
      PROVE  /\ assignments'[c].backing \in policy.permits
             /\ assignments'[c].backing \in virtuals'[assignments'[c].virtual].contract.permits
  <2>1. /\ assignments'[c].virtual = assignments[c].virtual
        /\ assignments'[c].backing = assignments[c].backing
        /\ c = destination \/ assignments[c].authoritative
    BY <1>1, <1>2, <1>9, CutOverEffect DEF Inductive
  <2>2. CASE c = destination
    BY <1>3, <1>4, <1>5, <2>1, <2>2
  <2>3. CASE assignments[c].authoritative
    <3>1. assignments[c].virtual \in VirtualIds
      BY <2>3, CurrentBinding DEF Inductive
    <3>2. virtuals'[assignments[c].virtual].contract = virtuals[assignments[c].virtual].contract
      BY <1>5, <3>1
    <3> QED
      BY <2>1, <2>3, <3>2 DEF Licensed, AuthorityIsPermitted
  <2> QED
    BY <2>1, <2>2, <2>3
<1>10. AuthorityIsPermitted'
  BY <1>1, <1>9 DEF AuthorityIsPermitted
<1> QED
  BY <1>7, <1>8, <1>10 DEF Licensed

-----------------------------------------------------------------------------
\* Every step keeps every authority licensed.
LEMMA StepLicensed ==
  ASSUME Inductive, Licensed, [Next]_vars
  PROVE  Licensed'
<1>1. Inductive' /\ TypeOK' /\ VirtualsFollow /\ TypeOK /\ Anchored /\ AuthoritativeIsCurrent
  BY StepInductive DEF Inductive
<1>2. CASE UNCHANGED vars
  BY <1>2 DEF vars, Licensed, AuthorityIsPermitted, PlansArePermitted, RetiredIsUnbound
<1>3. CASE TenancyStep
  BY <1>1, <1>3, TenancyWithdraws, TenancyKeepsTerms, WithdrawalKeepsLicence
<1>4. CASE DeviceStep
  BY <1>1, <1>4, DeviceWithdraws, DeviceKeepsTerms, WithdrawalKeepsLicence
<1>5. CASE LifecycleStep
  <2>1. Withdraws
    BY <1>1, <1>5, LifecycleWithdraws
  <2>2. CASE \E v \in VirtualIds, c \in Contracts :
               UpdateContract(v, c) \/ \E t \in TenantIds : CreateVirtual(v, t, c)
    BY <1>1, <2>1, <2>2, ContractKeepsLicence
  <2>3. CASE \E v \in VirtualIds :
               \/ Activate(v) \/ Drain(v) \/ ResolveRecovery(v) \/ Resume(v)
               \/ Suspend(v) \/ FenceVirtual(v) \/ RetireVirtual(v)
    <3>1. TermsKept /\ PolicyKept
      BY <1>1, <2>3, LifecycleKeepsTerms
    <3> QED
      BY <1>1, <2>1, <3>1, WithdrawalKeepsLicence
  <2> QED
    BY <1>5, <2>2, <2>3 DEF LifecycleStep
<1>6. CASE BindingStep
  BY <1>1, <1>6, BindingKeepsLicence
<1>7. CASE AttachmentStep
  BY <1>1, <1>7, AttachmentWithdraws, AttachmentKeepsTerms, WithdrawalKeepsLicence
<1>8. CASE MigrationStep
  <2>1. ASSUME NEW m \in MigrationIds, CompleteMigration(m) \/ AbortMigration(m) PROVE Licensed'
    <3>1. Withdraws /\ TermsKept /\ PolicyKept
      BY <1>1, <2>1, EndOfMigrationWithdraws, EndOfMigrationKeepsTerms
    <3> QED
      BY <1>1, <3>1, WithdrawalKeepsLicence
  <2> QED
    BY <1>1, <1>8, <2>1, PlanningKeepsLicence, CommitKeepsLicence DEF MigrationStep
<1>9. CASE PolicyStep
  BY <1>1, <1>9, PolicyWithdraws, PolicyKeepsLicence
<1>10. CASE ProcessStep
  BY <1>1, <1>10, ProcessWithdraws, ProcessKeepsTerms, WithdrawalKeepsLicence
<1> QED
  BY <1>2, <1>3, <1>4, <1>5, <1>6, <1>7, <1>8, <1>9, <1>10 DEF Next

\* An authoritative assignment is always of a backing that its accelerator's
\* contract and the policy in force permit, whatever the fleet: commit_migration
\* need not validate its destination again (runtime.cpp 4206-4328).
THEOREM AuthorityIsLicensed == Spec => []AuthorityIsPermitted
<1>1. Init => Licensed
  <2> SUFFICES ASSUME Init PROVE Licensed
    OBVIOUS
  <2>1. AuthorityIsPermitted
    BY DEF Init, AuthorityIsPermitted, NoAssignment
  <2>2. PlansArePermitted
    BY DEF Init, PlansArePermitted, NoMigration
  <2>3. RetiredIsUnbound
    BY DEF Init, RetiredIsUnbound, NoVirtual
  <2> QED
    BY <2>1, <2>2, <2>3 DEF Licensed
<1>2. Inductive /\ Licensed /\ [Next]_vars => Licensed'
  BY StepLicensed
<1>3. Licensed => AuthorityIsPermitted
  BY DEF Licensed
<1> QED
  BY <1>1, <1>2, <1>3, InductiveInvariance, PTL DEF Spec
=============================================================================
