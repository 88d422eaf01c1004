--------------------------- MODULE PlacementProofs ----------------------------
(***************************************************************************)
(* What the verdict on a descriptor guarantees, for every descriptor,      *)
(* contract, policy and order in which the requirements are sorted; and    *)
(* what the projection of an accelerator advertises.                       *)
(***************************************************************************)
EXTENDS Placement, Capabilities, TLAPS

\* std::sort by dimension and std::unique leave one requirement of each
\* dimension and invent none.
LEMMA KeptOnePerDimension ==
  ASSUME NEW R, NEW K \in SortUnique(R)
  PROVE  /\ K \subseteq R
         /\ OnePerDimension(K)
         /\ \A r \in R : \E k \in K : k.dimension = r.dimension
  BY DEF SortUnique, OnePerDimension

\* Where no dimension is named twice, nothing is lost.
LEMMA KeptAllIfDistinct ==
  ASSUME NEW R, OnePerDimension(R), NEW K \in SortUnique(R)
  PROVE  K = R
<1>1. K \subseteq R
  BY KeptOnePerDimension
<1>2. ASSUME NEW r \in R PROVE r \in K
  <2>1. PICK k \in K : k.dimension = r.dimension
    BY KeptOnePerDimension
  <2>2. k = r
    BY <1>1, <2>1 DEF OnePerDimension
  <2> QED BY <2>2
<1> QED BY <1>1, <1>2

\* normalize() runs before validate() in create_virtual, update_contract and
\* set_policy, and drops repeated dimensions: the test of validate() for a
\* repeated dimension, "refuse rather than silently reinterpreting the caller's
\* intent" (contract.cpp 78-79), never refuses anything.
THEOREM NormalizedRepeatsNoDimension ==
  ASSUME NEW submitted, "required_isolation" \in DOMAIN submitted,
         NEW stored \in Normalized(submitted)
  PROVE  OnePerDimension(stored.required_isolation)
<1>1. PICK K \in SortUnique(submitted.required_isolation) :
        stored = [submitted EXCEPT !.required_isolation = K]
  BY DEF Normalized
<1>2. stored.required_isolation = K
  BY <1>1
<1> QED BY <1>2, KeptOnePerDimension

\* When contract and policy name no dimension in common with different minima,
\* validate_backing_for permits a descriptor exactly when the contract permits
\* it and the policy permits it: the two may be judged separately, as Model
\* does.
THEOREM VerdictSplits ==
  ASSUME NEW c, NEW p, NEW d,
         OnePerDimension(c.required_isolation \cup p.required_isolation),
         NEW kept \in SortUnique(c.required_isolation \cup p.required_isolation)
  PROVE  DescriptorFits(d, c, p, kept) <=> PermittedByContract(c, d) /\ PermittedByPolicy(p, d)
<1>1. kept = c.required_isolation \cup p.required_isolation
  BY KeptAllIfDistinct
<1> QED BY <1>1 DEF DescriptorFits, PermittedByContract, PermittedByPolicy

\* Fail closed (README 183-184): a backing that is permitted has a proven
\* state in every dimension that contract or policy require, whichever of two
\* conflicting minima was kept, unless a minimum is itself UNKNOWN.
THEOREM UnknownNeverSatisfies ==
  ASSUME NEW c, NEW p, NEW d,
         NEW kept \in SortUnique(c.required_isolation \cup p.required_isolation),
         DescriptorFits(d, c, p, kept),
         \A r \in c.required_isolation \cup p.required_isolation : r.minimum # Unknown
  PROVE  \A r \in c.required_isolation \cup p.required_isolation :
            state_of(d.isolation, r.dimension) # Unknown
<1> SUFFICES ASSUME NEW r \in c.required_isolation \cup p.required_isolation
             PROVE  state_of(d.isolation, r.dimension) # Unknown
  OBVIOUS
<1>1. PICK k \in kept : k.dimension = r.dimension
  BY KeptOnePerDimension
<1>2. k.minimum # Unknown
  BY KeptOnePerDimension
<1>3. Provides(d.isolation, k)
  BY DEF DescriptorFits
<1> QED BY <1>1, <1>2, <1>3 DEF Provides

-----------------------------------------------------------------------------
(* Projections.                                                            *)

\* A key that the second surface does not set keeps what the first has; the
\* others take the second's.
LEMMA SetAllEffect ==
  ASSUME NEW s, NEW t, NEW k
  PROVE  /\ k \in DOMAIN SetAll(s, t) <=> k \in DOMAIN s \/ k \in DOMAIN t
         /\ k \in DOMAIN t => SetAll(s, t)[k] = t[k]
         /\ k \in DOMAIN s /\ k \notin DOMAIN t => SetAll(s, t)[k] = s[k]
  BY DEF SetAll

\* An accelerator on a backing advertises no capability the policy forbids,
\* whether contract, evidence or the backing itself brought it in, and lists it
\* as hidden.  The one exception is VendorVisible, which build_projection sets
\* after the forbidden capabilities are taken out (runtime.cpp 911-914).
THEOREM ForbiddenIsWithheld ==
  ASSUME NEW c, NEW p, NEW b, NEW d, b # NoRecord,
         NEW k \in p.forbidden_capabilities, k # "VendorVisible"
  PROVE  /\ k \notin DOMAIN Surface(c, p, b, d)
         /\ k \in DOMAIN b.capabilities => k \in Hidden(c, p, b, d)
<1>1. DOMAIN VendorVisible(p) = {"VendorVisible"}
  BY DEF VendorVisible
<1>2. k \notin DOMAIN Without(Gathered(c, p, b, d), p.forbidden_capabilities)
  BY DEF Without
<1>3. k \notin DOMAIN Surface(c, p, b, d)
  <2> DEFINE kept == Without(Gathered(c, p, b, d), p.forbidden_capabilities)
  <2>1. Surface(c, p, b, d) = SetAll(kept, VendorVisible(p))
    BY DEF Surface
  <2>2. k \in DOMAIN SetAll(kept, VendorVisible(p))
          <=> k \in DOMAIN kept \/ k \in DOMAIN VendorVisible(p)
    BY SetAllEffect
  <2> QED BY <1>1, <1>2, <2>1, <2>2
<1>4. k \in DOMAIN b.capabilities => k \in Hidden(c, p, b, d)
  BY DEF Hidden
<1> QED BY <1>3, <1>4

\* "A capability the runtime cannot prove stays UNKNOWN and is never upgraded"
\* (runtime.cpp 789-790): what a backing reports as Unknown is advertised as
\* Unknown or not at all, although contract and evidence may have set the same
\* key before, and is listed among the unproven.
THEOREM UnknownIsNeverUpgraded ==
  ASSUME NEW c, NEW p, NEW b, NEW d, b # NoRecord,
         NEW k \in DOMAIN b.capabilities, b.capabilities[k] = "Unknown", k # "VendorVisible"
  PROVE  /\ k \in DOMAIN Surface(c, p, b, d) => Surface(c, p, b, d)[k] = "Unknown"
         /\ k \notin p.forbidden_capabilities => k \in Unproven(c, p, b, d)
<1>1. CASE k \in p.forbidden_capabilities
  BY <1>1, ForbiddenIsWithheld
<1>2. CASE k \notin p.forbidden_capabilities
  <2> DEFINE kept == Without(Gathered(c, p, b, d), p.forbidden_capabilities)
  <2>1. k \in DOMAIN Reported(b, p) /\ Reported(b, p)[k] = "Unknown"
    BY <1>2 DEF Reported
  <2>2. k \in DOMAIN Gathered(c, p, b, d) /\ Gathered(c, p, b, d)[k] = "Unknown"
    <3> DEFINE before == SetAll(Declared(c, p), Evident(b, d))
    <3>1. Gathered(c, p, b, d) = SetAll(before, Reported(b, p))
      BY DEF Gathered
    <3> HIDE DEF before
    <3>2. /\ k \in DOMAIN SetAll(before, Reported(b, p))
          /\ SetAll(before, Reported(b, p))[k] = Reported(b, p)[k]
      BY <2>1, SetAllEffect
    <3> QED BY <2>1, <3>1, <3>2
  <2>3. k \in DOMAIN kept /\ kept[k] = "Unknown"
    BY <1>2, <2>2 DEF Without
  <2>4. k \notin DOMAIN VendorVisible(p)
    BY DEF VendorVisible
  <2>5. Surface(c, p, b, d) = SetAll(kept, VendorVisible(p))
    BY DEF Surface
  <2> HIDE DEF kept
  <2>6. Surface(c, p, b, d)[k] = "Unknown"
    BY <2>3, <2>4, <2>5, SetAllEffect
  <2>7. k \in Unproven(c, p, b, d)
    BY <2>1 DEF Unproven
  <2> QED BY <2>6, <2>7
<1> QED BY <1>1, <1>2
=============================================================================
