----------------------------- MODULE GrantProofs -----------------------------
(***************************************************************************)
(* The operations that create an assignment or a plan: assign_backing and  *)
(* replace_backing, plan_migration and prepare_migration, and the cutover  *)
(* of commit_migration.  Each preserves the inductive invariant.           *)
(***************************************************************************)
EXTENDS WithdrawalProofs

\* What assign_backing and replace_backing share: an accelerator without
\* authority is bound by an assignment that was never used.
LEMMA BindPreserves ==
  ASSUME TypeOK, TypeOK', Anchored, Bound, PlansAreOvertaken, AuthoritativeIsCurrent,
         NEW v \in VirtualIds, NEW b \in Backings, NEW a \in AssignmentIds,
         NEW r \in VirtualAccelerator, NEW asg \in [AssignmentIds -> Assignment], NEW bk,
         Same(virtuals[v], r), virtuals[v].owner \in TenantIds,
         virtuals[v].state = "Provisioned" \/ IsLegalTransition(virtuals[v].state, "Provisioned"),
         assignments[a].virtual = 0,
         \A c \in AssignmentIds :
           /\ asg[c].virtual = assignments[c].virtual
           /\ asg[c].backing = assignments[c].backing
           /\ asg[c].backing_generation = assignments[c].backing_generation
           /\ asg[c].authoritative => assignments[c].authoritative /\ assignments[c].virtual # v,
         Bind(v, b, a, r, asg, bk), migrations' = migrations
  PROVE  Preserved /\ VirtualsFollow
<1> DEFINE n == r.backing_generation + 1
           g == backings[b].physical_generation
           k == [r EXCEPT !.assignment = a, !.backing = b, !.backing_generation = n,
                          !.physical_generation = g]
           h == [virtual |-> v, backing |-> b, backing_generation |-> n,
                 state |-> "Active", authoritative |-> TRUE]
<1>1. assignments' = [asg EXCEPT ![a] = h] /\ virtuals' = [virtuals EXCEPT ![v] = Moved(k, "Provisioned")]
  BY DEF Bind
<1>2. n \in Nat /\ g \in Nat
  <2>1. n \in Nat
    BY DEF VirtualAccelerator
  <2>2. backings[b] \in Backing
    BY DEF TypeOK
  <2> QED
    BY <2>1, <2>2 DEF Backing
<1> HIDE DEF n, g
<1>3. /\ k \in VirtualAccelerator
      /\ k.assignment = a /\ k.backing = b /\ k.backing_generation = n
      /\ k.owner = r.owner /\ k.generation = r.generation
  BY <1>2 DEF VirtualAccelerator
<1> HIDE DEF k
<1>4. /\ virtuals'[v].assignment = a /\ virtuals'[v].backing = b
      /\ virtuals'[v].backing_generation = n
      /\ virtuals'[v].generation = virtuals[v].generation + 1
      /\ virtuals'[v].state = "Provisioned"
      /\ virtuals'[v].owner = virtuals[v].owner
  <2>1. virtuals'[v] = Moved(k, "Provisioned")
    BY <1>1 DEF TypeOK
  <2>2. r.owner = virtuals[v].owner /\ r.generation = virtuals[v].generation
    BY DEF Same, Observed
  <2> QED
    <3>1. "Provisioned" \in LifecycleStates
      BY DEF LifecycleStates
    <3>2. SameBinding(k, virtuals'[v])
      BY <1>3, <2>1, <3>1, MovedFields
    <3>3. /\ virtuals'[v].generation = k.generation + 1
          /\ virtuals'[v].state = "Provisioned"
          /\ virtuals'[v].owner = k.owner
      BY <1>3, <2>1, <3>1, MovedFields
    <3> QED
      BY <1>3, <2>2, <3>2, <3>3 DEF SameBinding
<1>5. \A u \in VirtualIds \ {v} : virtuals'[u] = virtuals[u]
  BY <1>1 DEF TypeOK
<1>6. /\ assignments'[a].virtual = v /\ assignments'[a].backing = b
      /\ assignments'[a].backing_generation = n
      /\ \A c \in AssignmentIds \ {a} : assignments'[c] = asg[c]
  <2>1. assignments'[a] = h
    BY <1>1
  <2> QED
    BY <1>1, <2>1
<1> HIDE DEF h
<1>7. VirtualsFollow
  <2>1. virtuals[v].generation \in Nat
    BY DEF TypeOK, VirtualAccelerator
  <2>2. Follows(virtuals[v], virtuals'[v])
    <3>1. virtuals'[v].generation > virtuals[v].generation
      BY <1>4, <2>1
    <3>2. virtuals'[v].state = virtuals[v].state
          \/ IsLegalTransition(virtuals[v].state, virtuals'[v].state)
      BY <1>4
    <3> QED
      BY <1>4, <3>1, <3>2 DEF Follows
  <2> QED
    BY <1>5, <2>2 DEF VirtualsFollow, Follows, Same
<1>8. AssignmentsKept
  BY <1>6 DEF AssignmentsKept
<1>9. PlansKept
  BY UnchangedEffect
<1>10. Anchored'
  BY <1>7, <1>8, <1>9, FollowersAreAnchored, KeptPlan DEF Anchored, PlansKept
<1>11. PlansAreOvertaken'
  BY <1>7, <1>8, <1>9, KeptPlan DEF PlansAreOvertaken, PlansKept
<1>12. Bound'
  <2>1. ASSUME NEW u \in VirtualIds, virtuals'[u].assignment # 0
        PROVE  assignments'[virtuals'[u].assignment].virtual = u
    <3>1. CASE u = v
      BY <1>4, <1>6, <3>1
    <3>2. CASE u # v
      <4>1. virtuals'[u] = virtuals[u]
        BY <1>5, <3>2
      <4> QED
        BY <1>8, <2>1, <4>1, KeptAssignment
    <3> QED
      BY <3>1, <3>2
  <2> QED
    BY <1>7, <1>8, <1>9, <2>1, KeptPlan DEF Bound, PlansKept
<1>13. AuthoritativeIsCurrent'
  <2> SUFFICES ASSUME NEW c \in AssignmentIds, assignments'[c].authoritative
               PROVE  /\ assignments'[c].virtual \in VirtualIds
                      /\ virtuals'[assignments'[c].virtual].assignment = c
                      /\ virtuals'[assignments'[c].virtual].backing = assignments'[c].backing
                      /\ virtuals'[assignments'[c].virtual].backing_generation
                           = assignments'[c].backing_generation
    BY DEF AuthoritativeIsCurrent
  <2>1. CASE c = a
    BY <1>4, <1>6, <2>1
  <2>2. CASE c # a
    <3>1. assignments'[c] = asg[c]
      BY <1>6, <2>2
    <3>2. assignments[c].authoritative /\ assignments[c].virtual # v
      BY <3>1
    <3>3. assignments[c].virtual \in VirtualIds \ {v}
      BY <3>2, CurrentBinding
    <3>4. virtuals'[assignments[c].virtual] = virtuals[assignments[c].virtual]
      BY <1>5, <3>3
    <3>5. /\ assignments'[c].virtual = assignments[c].virtual
          /\ assignments'[c].backing = assignments[c].backing
          /\ assignments'[c].backing_generation = assignments[c].backing_generation
      BY <3>1
    <3> QED
      BY <3>2, <3>3, <3>4, <3>5, CurrentBinding
  <2> QED
    BY <2>1, <2>2
<1> QED
  BY <1>7, <1>10, <1>11, <1>12, <1>13 DEF Preserved

\* What replace_backing does to the assignment it supersedes, if there is one.
LEMMA SupersededEffect ==
  ASSUME TypeOK, NEW d
  PROVE  /\ Superseded(d) \in [AssignmentIds -> Assignment]
         /\ \A c \in AssignmentIds :
              /\ Superseded(d)[c].virtual = assignments[c].virtual
              /\ Superseded(d)[c].backing = assignments[c].backing
              /\ Superseded(d)[c].backing_generation = assignments[c].backing_generation
              /\ Superseded(d)[c].authoritative => assignments[c].authoritative /\ c # d
<1>1. assignments \in [AssignmentIds -> Assignment]
  BY DEF TypeOK
<1>2. CASE d \notin AssignmentIds
  <2>1. Superseded(d) = assignments
    BY <1>1, <1>2 DEF Superseded
  <2> QED
    BY <1>1, <1>2, <2>1
<1>3. CASE d \in AssignmentIds
  <2> DEFINE h == [assignments[d] EXCEPT !.authoritative = FALSE, !.state = "Superseded"]
  <2>1. Superseded(d) = [assignments EXCEPT ![d] = h]
    BY <1>1, <1>3 DEF Superseded
  <2>2. /\ h \in Assignment /\ h.virtual = assignments[d].virtual
        /\ h.backing = assignments[d].backing
        /\ h.backing_generation = assignments[d].backing_generation
        /\ ~h.authoritative
    BY <1>1, <1>3 DEF Assignment, AssignmentStates
  <2> HIDE DEF h
  <2> QED
    BY <1>1, <1>3, <2>1, <2>2
<1> QED
  BY <1>2, <1>3

\* assign_backing and replace_backing.
LEMMA BindingPreserves ==
  ASSUME TypeOK, TypeOK', Anchored, Bound, PlansAreOvertaken, AuthoritativeIsCurrent, BindingStep
  PROVE  Preserved /\ VirtualsFollow
<1>1. ASSUME NEW v \in VirtualIds
      PROVE  virtuals[v] \in VirtualAccelerator /\ virtuals[v].state \in LifecycleStates
  BY DEF TypeOK, VirtualAccelerator
<1>2. ASSUME NEW v \in VirtualIds, NEW b, NEW a, MayBind(v, b, a)
      PROVE  virtuals[v].owner \in TenantIds /\ assignments[a].virtual = 0
  BY <1>2 DEF MayBind, RequireOwner, VirtualExists, Anchored, IsNextAssignment
<1>3. ASSUME NEW v \in VirtualIds, NEW b \in Backings, NEW a \in AssignmentIds,
             AssignBacking(v, b, a)
      PROVE  Preserved /\ VirtualsFollow
  <2>1. /\ MayBind(v, b, a) /\ migrations' = migrations
        /\ Bind(v, b, a, virtuals[v], assignments, backings)
    BY <1>3 DEF AssignBacking
  <2>2. virtuals[v].state = "Provisioned" \/ IsLegalTransition(virtuals[v].state, "Provisioned")
    BY <1>1, <1>3, TableEdges DEF AssignBacking
  <2>3. Same(virtuals[v], virtuals[v]) /\ assignments \in [AssignmentIds -> Assignment]
    BY DEF Same, TypeOK
  <2>4. \A c \in AssignmentIds : assignments[c].authoritative => assignments[c].virtual # v
    <3>1. ~HoldsAuthority(v)
      BY <1>3 DEF AssignBacking
    <3>2. ASSUME NEW c \in AssignmentIds, assignments[c].authoritative, assignments[c].virtual = v
          PROVE  HoldsAuthority(v)
      <4>1. virtuals[v].assignment = c
        BY <3>2 DEF AuthoritativeIsCurrent
      <4>2. c # 0
        BY DEF AssignmentIds
      <4> QED
        BY <3>2, <4>1, <4>2 DEF HoldsAuthority
    <3> QED
      BY <3>1, <3>2
  <2>5. virtuals[v].owner \in TenantIds /\ assignments[a].virtual = 0
    BY <1>2, <2>1
  <2> QED
    BY <1>1, <2>1, <2>2, <2>3, <2>4, <2>5, BindPreserves
<1>4. ASSUME NEW v \in VirtualIds, NEW b \in Backings, NEW a \in AssignmentIds,
             ReplaceBacking(v, b, a)
      PROVE  Preserved /\ VirtualsFollow
  <2> DEFINE asg == Superseded(virtuals[v].assignment)
             bk == ReleasedBackings({virtuals[v].backing})
             r == WithoutAttachments(v)
  <2>1. MayBind(v, b, a) /\ Bind(v, b, a, r, asg, bk) /\ migrations' = migrations
    BY <1>4 DEF ReplaceBacking
  <2>2. virtuals[v].state = "Provisioned" \/ IsLegalTransition(virtuals[v].state, "Provisioned")
    BY <1>1, <1>4, TableEdges DEF ReplaceBacking
  <2>3. r \in VirtualAccelerator /\ Same(virtuals[v], r)
    BY WithoutAttachmentsType, WithoutAttachmentsSame
  <2>4. /\ asg \in [AssignmentIds -> Assignment]
        /\ \A c \in AssignmentIds :
             /\ asg[c].virtual = assignments[c].virtual
             /\ asg[c].backing = assignments[c].backing
             /\ asg[c].backing_generation = assignments[c].backing_generation
             /\ asg[c].authoritative => assignments[c].authoritative /\ c # virtuals[v].assignment
    BY SupersededEffect
  <2> HIDE DEF asg, bk, r
  <2>5. \A c \in AssignmentIds :
          /\ asg[c].virtual = assignments[c].virtual
          /\ asg[c].backing = assignments[c].backing
          /\ asg[c].backing_generation = assignments[c].backing_generation
          /\ asg[c].authoritative => assignments[c].authoritative /\ assignments[c].virtual # v
    <3>1. ASSUME NEW c \in AssignmentIds, asg[c].authoritative
          PROVE  assignments[c].authoritative /\ assignments[c].virtual # v
      BY <2>4, <3>1 DEF AuthoritativeIsCurrent
    <3> QED
      BY <2>4, <3>1
  <2>6. virtuals[v].owner \in TenantIds /\ assignments[a].virtual = 0
    BY <1>2, <2>1
  <2> QED
    BY <2>1, <2>2, <2>3, <2>4, <2>5, <2>6, BindPreserves
<1> QED
  BY <1>3, <1>4 DEF BindingStep

\* A step that keeps the binding of every accelerator, gains no authority and
\* follows, leaves to show only what the plan m it writes means.
LEMMA PlanWritten ==
  ASSUME TypeOK, TypeOK', Anchored, Bound, PlansAreOvertaken, AuthoritativeIsCurrent,
         NEW m \in MigrationIds, \A k \in MigrationIds \ {m} : migrations'[k] = migrations[k],
         VirtualsFollow, AssignmentsKept,
         \A v \in VirtualIds : SameBinding(virtuals[v], virtuals'[v]),
         \A a \in AssignmentIds : assignments'[a].authoritative =>
            assignments'[a] = assignments[a],
         LET plan == migrations'[m]  r == virtuals'[migrations'[m].virtual] IN
         /\ plan.virtual \in VirtualIds /\ plan.destination_backing \in Backings
         /\ plan.source_assignment # 0
         /\ assignments'[plan.source_assignment].virtual = plan.virtual
         /\ plan.destination_assignment # 0 =>
              /\ assignments'[plan.destination_assignment].virtual = plan.virtual
              /\ assignments'[plan.destination_assignment].backing = plan.destination_backing
         /\ plan.virtual_generation <= r.generation
         /\ plan.state = "CommitReady" /\ plan.virtual_generation = r.generation
              => r.state = "Migrating"
  PROVE  Preserved
<1>1. \A k \in MigrationIds \ {m} : PlanKept(k)
  BY DEF PlanKept
<1>2. Anchored'
  BY <1>1, FollowersAreAnchored, KeptPlan DEF Anchored
<1>3. Bound'
  <2>1. ASSUME NEW v \in VirtualIds, virtuals'[v].assignment # 0
        PROVE  assignments'[virtuals'[v].assignment].virtual = v
    BY <2>1, KeptAssignment DEF SameBinding
  <2> QED
    BY <1>1, <2>1, KeptPlan DEF Bound
<1>4. PlansAreOvertaken'
  BY <1>1, KeptPlan DEF PlansAreOvertaken
<1>5. AuthoritativeIsCurrent'
  <2>1. ASSUME NEW a \in AssignmentIds, assignments'[a].authoritative
        PROVE  /\ assignments'[a] = assignments[a] /\ assignments[a].virtual \in VirtualIds
               /\ SameBinding(virtuals[assignments[a].virtual], virtuals'[assignments[a].virtual])
    BY <2>1, CurrentBinding
  <2>2. ASSUME NEW a \in AssignmentIds, assignments'[a].authoritative
        PROVE  LET r == virtuals'[assignments[a].virtual] IN
               /\ r.assignment = a /\ r.backing = assignments[a].backing
               /\ r.backing_generation = assignments[a].backing_generation
    <3>1. assignments[a].authoritative
      BY <2>1, <2>2
    <3> QED
      BY <2>1, <2>2, <3>1, CurrentBinding DEF SameBinding
  <2> QED
    BY <2>1, <2>2 DEF AuthoritativeIsCurrent
<1> QED
  BY <1>2, <1>3, <1>4, <1>5 DEF Preserved

\* plan_migration and prepare_migration.
LEMMA PlanningPreserves ==
  ASSUME TypeOK, TypeOK', Anchored, Bound, PlansAreOvertaken, AuthoritativeIsCurrent,
         \/ \E v \in VirtualIds, b \in Backings, m \in MigrationIds : PlanMigration(v, b, m)
         \/ \E m \in MigrationIds, a \in AssignmentIds : PrepareMigration(m, a)
  PROVE  Preserved /\ VirtualsFollow
<1>1. ASSUME NEW v \in VirtualIds
      PROVE  virtuals[v] \in VirtualAccelerator /\ virtuals[v].generation \in Nat
  BY DEF TypeOK, VirtualAccelerator
<1>2. ASSUME NEW v \in VirtualIds, NEW b \in Backings, NEW m \in MigrationIds,
             PlanMigration(v, b, m)
      PROVE  Preserved /\ VirtualsFollow
  <2>1. \A u \in VirtualIds : Same(virtuals[u], virtuals'[u])
    BY <1>1, <1>2 DEF PlanMigration, TypeOK, VirtualAccelerator, Same, Observed
  <2>2. VirtualsFollow /\ \A u \in VirtualIds : SameBinding(virtuals[u], virtuals'[u])
    BY <2>1 DEF VirtualsFollow, Follows, Same, Observed, SameBinding
  <2>3. assignments' = assignments
    BY <1>2 DEF PlanMigration
  <2>4. AssignmentsKept
    BY <2>3 DEF AssignmentsKept
  <2>5. \A k \in MigrationIds \ {m} : migrations'[k] = migrations[k]
    BY <1>2 DEF PlanMigration, TypeOK
  <2>6. /\ migrations'[m].virtual = v /\ migrations'[m].destination_backing = b
        /\ migrations'[m].source_assignment = virtuals[v].assignment
        /\ migrations'[m].destination_assignment = 0
        /\ migrations'[m].virtual_generation = virtuals[v].generation
        /\ migrations'[m].state = "Planned"
    BY <1>2 DEF PlanMigration, TypeOK
  <2>7. virtuals[v].assignment # 0
    BY <1>2 DEF PlanMigration
  <2>8. assignments'[virtuals[v].assignment].virtual = v
    BY <2>3, <2>7 DEF Bound
  <2>9. virtuals[v].generation <= virtuals'[v].generation
    <3>1. virtuals'[v].generation = virtuals[v].generation
      BY <2>1 DEF Same
    <3> QED
      BY <1>1, <3>1
  <2> QED
    BY <2>2, <2>3, <2>4, <2>5, <2>6, <2>7, <2>8, <2>9, PlanWritten
<1>3. ASSUME NEW m \in MigrationIds, NEW a \in AssignmentIds, PrepareMigration(m, a)
      PROVE  Preserved /\ VirtualsFollow
  <2> DEFINE v == migrations[m].virtual
             b == migrations[m].destination_backing
             k == WithoutAttachments(v)
             h == [virtual |-> v, backing |-> b,
                   backing_generation |-> virtuals[v].backing_generation + 1,
                   state |-> "Prepared", authoritative |-> FALSE]
  <2>1. migrations[m].generation # 0 /\ RequireOwner(v)
    BY <1>3 DEF PrepareMigration, MigrationPrologue, MigrationExists
  <2>2. v \in VirtualIds /\ b \in Backings /\ virtuals[v].owner \in TenantIds
    BY <2>1 DEF Anchored, RequireOwner, VirtualExists
  <2>3. /\ migrations[m].source_assignment \in AssignmentIds
        /\ assignments[migrations[m].source_assignment].virtual = v
    BY <2>1 DEF Bound, TypeOK, Migration
  <2>4. /\ virtuals'[v] = Moved(k, "Migrating")
        /\ \A u \in VirtualIds \ {v} : virtuals'[u] = virtuals[u]
        /\ assignments'[a].virtual = v /\ assignments'[a].backing = b
        /\ ~assignments'[a].authoritative
        /\ \A c \in AssignmentIds \ {a} : assignments'[c] = assignments[c]
    <3>1. /\ virtuals' = [virtuals EXCEPT ![v] = Moved(k, "Migrating")]
          /\ assignments' = [assignments EXCEPT ![a] = h]
      BY <1>3 DEF PrepareMigration
    <3>2. DOMAIN virtuals = VirtualIds /\ DOMAIN assignments = AssignmentIds
      BY DEF TypeOK
    <3> HIDE DEF v, b, k
    <3>3. /\ virtuals'[v] = Moved(k, "Migrating")
          /\ \A u \in VirtualIds \ {v} : virtuals'[u] = virtuals[u]
      BY <2>2, <3>1, <3>2
    <3>4. assignments'[a] = h /\ \A c \in AssignmentIds \ {a} : assignments'[c] = assignments[c]
      BY <3>1, <3>2
    <3> QED
      BY <3>3, <3>4
  <2>5. /\ migrations'[m].virtual = v /\ migrations'[m].destination_backing = b
        /\ migrations'[m].source_assignment = migrations[m].source_assignment
        /\ migrations'[m].destination_assignment = a
        /\ migrations'[m].virtual_generation = virtuals[v].generation + 1
        /\ \A j \in MigrationIds \ {m} : migrations'[j] = migrations[j]
    <3> DEFINE n == migrations[m].generation + 1
               g == virtuals[v].generation + 1
    <3>1. migrations' = [migrations EXCEPT ![m].state = "CommitReady", ![m].generation = n,
                                           ![m].virtual_generation = g,
                                           ![m].destination_assignment = a]
      BY <1>3 DEF PrepareMigration
    <3>2. migrations[m] \in Migration /\ migrations \in [MigrationIds -> Migration]
      BY DEF TypeOK
    <3> HIDE DEF n, g
    <3>3. /\ migrations'[m].virtual = v /\ migrations'[m].destination_backing = b
          /\ migrations'[m].source_assignment = migrations[m].source_assignment
          /\ migrations'[m].destination_assignment = a
          /\ migrations'[m].virtual_generation = g
      BY <3>1, <3>2 DEF Migration
    <3>4. \A j \in MigrationIds \ {m} : migrations'[j] = migrations[j]
      BY <3>1, <3>2
    <3> QED
      BY <3>3, <3>4 DEF g
  <2>6. assignments[a].virtual = 0 /\ IsLegalTransition(virtuals[v].state, "Migrating")
    BY <1>3 DEF PrepareMigration, IsNextAssignment
  <2>7. k \in VirtualAccelerator /\ Same(virtuals[v], k) /\ "Migrating" \in LifecycleStates
    BY <2>2, WithoutAttachmentsType, WithoutAttachmentsSame DEF LifecycleStates
  <2> HIDE DEF k, v, b, h
  <2>8. k.owner \in TenantIds /\ IsLegalTransition(k.state, "Migrating")
    BY <2>2, <2>6, <2>7 DEF Same, Observed
  <2>9. /\ Follows(k, Moved(k, "Migrating")) /\ SameBinding(k, Moved(k, "Migrating"))
        /\ Moved(k, "Migrating") \in VirtualAccelerator
    BY <2>7, <2>8, MovedFollows, MovedType
  <2>10. Follows(virtuals[v], virtuals'[v]) /\ SameBinding(virtuals[v], virtuals'[v])
    <3>1. Follows(virtuals[v], virtuals'[v]) /\ SameBinding(virtuals[v], k)
      BY <1>1, <2>2, <2>4, <2>7, <2>9, SameFollows
    <3>2. SameBinding(k, virtuals'[v])
      BY <2>4, <2>9
    <3> QED
      BY <3>1, <3>2 DEF SameBinding
  <2>11. VirtualsFollow /\ \A u \in VirtualIds : SameBinding(virtuals[u], virtuals'[u])
    BY <2>4, <2>10 DEF VirtualsFollow, Follows, Same, SameBinding
  <2>12. AssignmentsKept
    BY <2>4, <2>6 DEF AssignmentsKept
  <2>13. /\ virtuals'[v].generation = virtuals[v].generation + 1
         /\ virtuals'[v].state = "Migrating"
    <3>1. virtuals'[v].generation = k.generation + 1 /\ virtuals'[v].state = "Migrating"
      BY <2>4, <2>7, MovedFields
    <3>2. k.generation = virtuals[v].generation
      BY <2>7 DEF Same
    <3> QED
      BY <3>1, <3>2
  <2>14. \A c \in AssignmentIds : assignments'[c].authoritative => assignments'[c] = assignments[c]
    BY <2>4
  <2>15. /\ migrations[m].source_assignment # 0
         /\ assignments'[migrations[m].source_assignment].virtual = v
    <3>1. migrations[m].source_assignment # 0 /\ v # 0
      BY <2>2, <2>3 DEF AssignmentIds, VirtualIds
    <3> QED
      BY <2>3, <2>12, <3>1 DEF AssignmentsKept
  <2>16. assignments'[a].virtual = v /\ assignments'[a].backing = b
    BY <2>4
  <2>17. virtuals[v].generation + 1 <= virtuals'[v].generation
    <3>1. virtuals[v].generation \in Nat
      BY <1>1, <2>2
    <3> QED
      BY <2>13, <3>1
  <2> QED
    BY <2>2, <2>5, <2>11, <2>12, <2>13, <2>14, <2>15, <2>16, <2>17, PlanWritten
<1> QED
  BY <1>2, <1>3

\* What the cutover does to the assignments: authority may only enter
\* destination, and leaves source.
LEMMA CutOverEffect ==
  ASSUME TypeOK, NEW source \in AssignmentIds, NEW destination \in AssignmentIds,
         NEW c \in AssignmentIds
  PROVE  LET h == CutOver(source, destination)[c] IN
         /\ h.virtual = assignments[c].virtual
         /\ h.backing = assignments[c].backing
         /\ h.backing_generation = assignments[c].backing_generation
         /\ h.authoritative =>
              c = destination \/ (c # source /\ assignments[c].authoritative)
<1> DEFINE Ended(d) == [d EXCEPT !.authoritative = FALSE, !.state = "Revoked"]
           Begun(d) == [d EXCEPT !.authoritative = TRUE, !.state = "Active"]
           A == [assignments EXCEPT ![source] = Ended(assignments[source])]
<1>1. assignments \in [AssignmentIds -> Assignment]
  BY DEF TypeOK
<1>2. ASSUME NEW d \in Assignment
      PROVE  /\ Ended(d) \in Assignment /\ Begun(d) \in Assignment
             /\ Ended(d).virtual = d.virtual /\ Begun(d).virtual = d.virtual
             /\ Ended(d).backing = d.backing /\ Begun(d).backing = d.backing
             /\ Ended(d).backing_generation = d.backing_generation
             /\ Begun(d).backing_generation = d.backing_generation
             /\ ~Ended(d).authoritative
  BY DEF Assignment, AssignmentStates
<1>3. CutOver(source, destination) = [A EXCEPT ![destination] = Begun(A[destination])]
  BY <1>1 DEF CutOver
<1> HIDE DEF Ended, Begun
<1>4. A \in [AssignmentIds -> Assignment]
  BY <1>1, <1>2
<1>5. /\ A[c].virtual = assignments[c].virtual
      /\ A[c].backing = assignments[c].backing
      /\ A[c].backing_generation = assignments[c].backing_generation
      /\ A[c].authoritative => c # source /\ assignments[c].authoritative
  BY <1>1, <1>2
<1> HIDE DEF A
<1>6. CASE c = destination
  BY <1>2, <1>3, <1>4, <1>5, <1>6
<1>7. CASE c # destination
  BY <1>3, <1>4, <1>5, <1>7
<1> QED
  BY <1>6, <1>7

\* commit_migration: the cutover.
LEMMA CommitPreserves ==
  ASSUME TypeOK, TypeOK', Anchored, Bound, PlansAreOvertaken, AuthoritativeIsCurrent,
         NEW m \in MigrationIds, CommitMigration(m)
  PROVE  Preserved /\ VirtualsFollow
<1> DEFINE v == migrations[m].virtual
           b == migrations[m].destination_backing
           source == migrations[m].source_assignment
           destination == migrations[m].destination_assignment
           n == assignments[destination].backing_generation
           p == backings[b].physical_generation
           k == [virtuals[v] EXCEPT !.backing = b, !.backing_generation = n,
                                    !.physical_generation = p, !.assignment = destination]
<1>1. migrations[m].generation # 0 /\ RequireOwner(v) /\ PlanIsFresh(m)
  BY DEF CommitMigration, MigrationPrologue, MigrationExists
<1>2. v \in VirtualIds /\ b \in Backings /\ virtuals[v].owner \in TenantIds
  BY <1>1 DEF Anchored, RequireOwner, VirtualExists
<1>3. /\ source \in AssignmentIds /\ assignments[source].virtual = v
      /\ assignments[source].authoritative
      /\ destination \in AssignmentIds /\ assignments[destination].virtual = v
      /\ assignments[destination].backing = b
  BY <1>1 DEF CommitMigration, Bound, TypeOK, Migration
<1>4. virtuals[v] \in VirtualAccelerator /\ virtuals[v].generation \in Nat
                                        /\ virtuals[v].state \in LifecycleStates
  BY <1>2 DEF TypeOK, VirtualAccelerator
<1>5. n \in Nat /\ p \in Nat
  BY <1>2, <1>3 DEF TypeOK, Assignment, Backing
<1>6. virtuals[v].state = "Migrating"
  BY <1>1 DEF PlansAreOvertaken, PlanIsFresh, CommitMigration
<1>7. /\ virtuals' = [virtuals EXCEPT ![v] = Moved(k, "Provisioned")]
      /\ assignments' = CutOver(source, destination)
      /\ migrations' = [migrations EXCEPT ![m].state = "Committed",
                                          ![m].virtual_generation = virtuals[v].generation + 1]
  BY DEF CommitMigration
<1>8. /\ migrations'[m].virtual = v /\ migrations'[m].destination_backing = b
      /\ migrations'[m].source_assignment = source
      /\ migrations'[m].destination_assignment = destination
      /\ migrations'[m].virtual_generation = virtuals[v].generation + 1
      /\ migrations'[m].state = "Committed"
      /\ \A j \in MigrationIds \ {m} : migrations'[j] = migrations[j]
  BY <1>7 DEF TypeOK, Migration
<1> HIDE DEF n, p, v, b, source, destination
<1>9. /\ k \in VirtualAccelerator
      /\ k.assignment = destination /\ k.backing = b /\ k.backing_generation = n
      /\ k.owner = virtuals[v].owner /\ k.generation = virtuals[v].generation
  BY <1>2, <1>3, <1>4, <1>5 DEF VirtualAccelerator
<1> HIDE DEF k
<1>10. /\ virtuals'[v].assignment = destination /\ virtuals'[v].backing = b
       /\ virtuals'[v].backing_generation = n
       /\ virtuals'[v].generation = virtuals[v].generation + 1
       /\ virtuals'[v].state = "Provisioned"
       /\ virtuals'[v].owner = virtuals[v].owner
  <2>1. virtuals'[v] = Moved(k, "Provisioned")
    BY <1>2, <1>7 DEF TypeOK
  <2> QED
    <3>1. "Provisioned" \in LifecycleStates
      BY DEF LifecycleStates
    <3>2. SameBinding(k, virtuals'[v])
      BY <1>9, <2>1, <3>1, MovedFields
    <3>3. /\ virtuals'[v].generation = k.generation + 1
          /\ virtuals'[v].state = "Provisioned"
          /\ virtuals'[v].owner = k.owner
      BY <1>9, <2>1, <3>1, MovedFields
    <3> QED
      BY <1>9, <3>2, <3>3 DEF SameBinding
<1>11. \A u \in VirtualIds \ {v} : virtuals'[u] = virtuals[u]
  BY <1>7 DEF TypeOK
<1>12. ASSUME NEW c \in AssignmentIds
       PROVE  /\ assignments'[c].virtual = assignments[c].virtual
              /\ assignments'[c].backing = assignments[c].backing
              /\ assignments'[c].backing_generation = assignments[c].backing_generation
              /\ assignments'[c].authoritative =>
                   c = destination \/ (c # source /\ assignments[c].authoritative)
  BY <1>3, <1>7, CutOverEffect
<1>13. VirtualsFollow
  <2>1. IsLegalTransition(virtuals[v].state, "Provisioned")
    BY <1>4, <1>6, TableEdges
  <2>2. Follows(virtuals[v], virtuals'[v])
    <3>1. virtuals'[v].generation > virtuals[v].generation
      BY <1>4, <1>10
    <3>2. virtuals'[v].owner \in TenantIds
          /\ IsLegalTransition(virtuals[v].state, virtuals'[v].state)
      BY <1>2, <1>10, <2>1
    <3> QED
      BY <3>1, <3>2 DEF Follows
  <2> QED
    BY <1>11, <2>2 DEF VirtualsFollow, Follows, Same
<1>14. AssignmentsKept
  BY <1>12 DEF AssignmentsKept
<1>15. \A j \in MigrationIds \ {m} : PlanKept(j)
  BY <1>8 DEF PlanKept
<1>16. Anchored'
  BY <1>2, <1>8, <1>13, <1>14, <1>15, FollowersAreAnchored, KeptPlan DEF Anchored
<1>17. PlansAreOvertaken'
  <2>1. virtuals[v].generation + 1 <= virtuals'[v].generation
    BY <1>4, <1>10
  <2> QED
    BY <1>8, <1>13, <1>14, <1>15, <2>1, KeptPlan DEF PlansAreOvertaken
<1>18. Bound'
  <2>1. ASSUME NEW u \in VirtualIds, virtuals'[u].assignment # 0
        PROVE  assignments'[virtuals'[u].assignment].virtual = u
    <3>1. CASE u = v
      BY <1>3, <1>10, <1>12, <3>1
    <3>2. CASE u # v
      BY <1>11, <1>14, <2>1, <3>2, KeptAssignment
    <3> QED
      BY <3>1, <3>2
  <2>2. source # 0
    BY <1>3 DEF AssignmentIds
  <2> QED
    <3>1. /\ assignments'[source].virtual = v
          /\ assignments'[destination].virtual = v /\ assignments'[destination].backing = b
      BY <1>3, <1>12
    <3> QED
      BY <1>8, <1>13, <1>14, <1>15, <2>1, <2>2, <3>1, KeptPlan DEF Bound
<1>19. AuthoritativeIsCurrent'
  <2> SUFFICES ASSUME NEW c \in AssignmentIds, assignments'[c].authoritative
               PROVE  /\ assignments'[c].virtual \in VirtualIds
                      /\ virtuals'[assignments'[c].virtual].assignment = c
                      /\ virtuals'[assignments'[c].virtual].backing = assignments'[c].backing
                      /\ virtuals'[assignments'[c].virtual].backing_generation
                           = assignments'[c].backing_generation
    BY DEF AuthoritativeIsCurrent
  <2>1. CASE c = destination
    BY <1>2, <1>3, <1>10, <1>12, <2>1 DEF n
  <2>2. CASE c # destination
    <3>1. c # source /\ assignments[c].authoritative
      BY <1>12, <2>2
    <3>2. assignments[c].virtual \in VirtualIds \ {v}
      <4>1. virtuals[v].assignment = source
        BY <1>3, CurrentBinding
      <4> QED
        BY <3>1, <4>1, CurrentBinding
    <3>3. virtuals'[assignments[c].virtual] = virtuals[assignments[c].virtual]
      BY <1>11, <3>2
    <3> QED
      BY <1>12, <3>1, <3>2, <3>3, CurrentBinding
  <2> QED
    BY <2>1, <2>2
<1> QED
  BY <1>13, <1>16, <1>17, <1>18, <1>19 DEF Preserved
=============================================================================
