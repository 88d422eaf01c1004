--------------------------- MODULE AuthorityProofs ---------------------------
(***************************************************************************)
(* For fleets of every size: the state stays well formed, an authoritative *)
(* assignment is the one its accelerator names, a change of an accelerator *)
(* moves its generation, and its lifecycle follows the table.              *)
(***************************************************************************)
EXTENDS GrantProofs

\* start() on an empty store satisfies the invariant.
LEMMA InitInductive == Init => Inductive
<1> SUFFICES ASSUME Init PROVE Inductive
  OBVIOUS
<1>1. TypeOK /\ Anchored
  BY InitTypes
<1>2. Bound /\ PlansAreOvertaken /\ AuthoritativeIsCurrent
  BY DEF Init, Bound, PlansAreOvertaken, AuthoritativeIsCurrent, NoVirtual, NoMigration,
         NoAssignment
<1> QED
  BY <1>1, <1>2 DEF Inductive

\* Every step keeps the invariant, and every accelerator follows.
LEMMA StepInductive ==
  ASSUME Inductive, [Next]_vars
  PROVE  Inductive' /\ VirtualsFollow
<1> USE DEF Inductive
<1>1. TypeOK'
  BY TypeStep
<1>2. ASSUME Withdraws PROVE Preserved /\ VirtualsFollow
  BY <1>1, <1>2, Withdrawal DEF Withdraws
<1>3. CASE UNCHANGED vars
  <2>1. virtuals' = virtuals /\ assignments' = assignments /\ migrations' = migrations
    BY <1>3 DEF vars
  <2>2. \A v \in VirtualIds :
          Follows(virtuals[v], virtuals'[v]) /\ SameBinding(virtuals[v], virtuals'[v])
    BY <2>1 DEF Follows, Same, SameBinding
  <2>3. Withdraws
    BY <2>1, <2>2, UnchangedEffect DEF Withdraws, VirtualsFollow, BindingsOnlyEnd
  <2> QED
    BY <1>1, <1>2, <2>3 DEF Preserved
<1>4. CASE MigrationStep
  BY <1>1, <1>2, <1>4, PlanningPreserves, CommitPreserves, EndOfMigrationWithdraws
     DEF MigrationStep, Preserved
<1>5. CASE BindingStep
  BY <1>1, <1>5, BindingPreserves DEF Preserved
<1>6. CASE TenancyStep \/ DeviceStep \/ LifecycleStep \/ AttachmentStep \/ PolicyStep \/ ProcessStep
  <2>1. Withdraws
    BY <1>6, TenancyWithdraws, DeviceWithdraws, LifecycleWithdraws, AttachmentWithdraws,
       PolicyWithdraws, ProcessWithdraws
  <2> QED
    BY <1>1, <1>2, <2>1 DEF Preserved
<1> QED
  BY <1>3, <1>4, <1>5, <1>6 DEF Next

\* The inductive invariant holds throughout every run of the runtime.
THEOREM InductiveInvariance == Spec => []Inductive
<1>1. Inductive /\ [Next]_vars => Inductive'
  BY StepInductive
<1> QED
  BY <1>1, InitInductive, PTL DEF Spec

\* Type correctness: no operation, crash or restart leaves an ill-formed
\* record, whatever the size of the fleet.
THEOREM TypeCorrectness == Spec => []TypeOK
<1>1. Inductive => TypeOK
  BY DEF Inductive
<1> QED
  BY <1>1, InductiveInvariance, PTL

\* An authoritative assignment is always the current binding of its
\* accelerator (backing.hpp 76-78), whatever the size of the fleet.
THEOREM AuthorityIsCurrent == Spec => []AuthoritativeIsCurrent
<1>1. Inductive => AuthoritativeIsCurrent
  BY DEF Inductive
<1> QED
  BY <1>1, InductiveInvariance, PTL

\* At most one assignment of an accelerator is authoritative at a time
\* (backing.hpp 76-78).
SingleAuthority ==
  \A a, c \in AssignmentIds :
     /\ assignments[a].authoritative /\ assignments[c].authoritative
     /\ assignments[a].virtual = assignments[c].virtual
     => a = c

\* No interleaving gives an accelerator two authoritative assignments.
THEOREM OneAuthority == Spec => []SingleAuthority
<1>1. AuthoritativeIsCurrent => SingleAuthority
  BY DEF AuthoritativeIsCurrent, SingleAuthority
<1> QED
  BY <1>1, AuthorityIsCurrent, PTL

\* Every change of state, owner, contract or binding advances the generation
\* (model.hpp 104-107).
THEOREM GenerationsAdvance == Spec => MutationAdvancesGeneration
<1>1. Inductive /\ [Next]_vars =>
        [\A v \in VirtualIds :
           Observed(virtuals'[v]) # Observed(virtuals[v])
             => virtuals'[v].generation > virtuals[v].generation]_vars
  <2> SUFFICES ASSUME Inductive, [Next]_vars, NEW v \in VirtualIds,
                      Observed(virtuals'[v]) # Observed(virtuals[v])
               PROVE  virtuals'[v].generation > virtuals[v].generation
    OBVIOUS
  <2>1. Follows(virtuals[v], virtuals'[v])
    BY StepInductive DEF VirtualsFollow
  <2> QED
    BY <2>1 DEF Follows, Same
<1> QED
  BY <1>1, InductiveInvariance, PTL DEF Spec, MutationAdvancesGeneration

\* Every change of a lifecycle state is one the table allows (lifecycle.cpp
\* 35-69), the direct assignments of a dozen handlers included.
THEOREM LifecycleIsRespected == Spec => LifecycleFollowsTable
<1>1. Inductive /\ [Next]_vars =>
        [\A v \in VirtualIds :
           \/ virtuals'[v].state = virtuals[v].state
           \/ IsLegalTransition(virtuals[v].state, virtuals'[v].state)]_vars
  <2> SUFFICES ASSUME Inductive, [Next]_vars, NEW v \in VirtualIds
               PROVE  \/ virtuals'[v].state = virtuals[v].state
                      \/ IsLegalTransition(virtuals[v].state, virtuals'[v].state)
    OBVIOUS
  <2>1. Follows(virtuals[v], virtuals'[v])
    BY StepInductive DEF VirtualsFollow
  <2> QED
    BY <2>1 DEF Follows, Same, Observed
<1> QED
  BY <1>1, InductiveInvariance, PTL DEF Spec, LifecycleFollowsTable
=============================================================================
