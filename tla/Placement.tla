------------------------------ MODULE Placement -------------------------------
(***************************************************************************)
(* Which backings a contract and a policy permit: the part of              *)
(* validate_backing_for (src/src/runtime.cpp, 921-1002) that looks at the  *)
(* descriptor of a backing only, with the predicates it calls              *)
(* (src/src/isolation.cpp, contract.cpp, policy.cpp) and what contracts    *)
(* and policies must satisfy to be stored.                                 *)
(*                                                                         *)
(* A list of isolation requirements is a set of them: the lists are sorted *)
(* by dimension with std::sort, which promises nothing about the order of  *)
(* the requirements of one dimension.                                      *)
(***************************************************************************)
EXTENDS Integers

\* IsolationState, from weakest to strongest.
Unsupported == 0
Unknown     == 1
Shared      == 2
Partial     == 3
Isolated    == 4
IsolationStates == Unsupported..Isolated

Requirement(dimension, minimum) == [dimension |-> dimension, minimum |-> minimum]

\* A profile claims a state for some dimensions; of the others nothing is known.
state_of(profile, dimension) ==
  IF dimension \in DOMAIN profile THEN profile[dimension] ELSE Unknown

isolation_state_at_least(have, required) == have >= required

\* Mutant: an unknown state is compared like any other, and a missing claim
\* passes for a shared one.
ProvidesOptimistically(profile, r) ==
  r.dimension \in DOMAIN profile => isolation_state_at_least(profile[r.dimension], r.minimum)

\* The two tests of the loop over the requirements.
Provides(profile, r) ==
  LET have == state_of(profile, r.dimension) IN
  /\ have = Unknown => r.minimum = Unknown
  /\ isolation_state_at_least(have, r.minimum)

\* What std::sort by dimension and std::unique may leave of the list R: one
\* requirement of each dimension.
SortUnique(R) ==
  {K \in SUBSET R :
     \A r \in R : \E k \in K : /\ k.dimension = r.dimension
                               /\ \A j \in K : j.dimension = r.dimension => j = k}

-----------------------------------------------------------------------------
(* What a contract and what a policy ask of the descriptor d.              *)

ContractPermits(c, d) ==
  /\ c.allowed_backing_classes # {} => d.klass \in c.allowed_backing_classes
  /\ c.allowed_multiplexing_modes # {} => d.multiplexing \in c.allowed_multiplexing_modes
  /\ d.capability_rank >= c.minimum_backing_rank
  /\ c.exclusivity_required => d.exclusive

PolicyPermits(p, d) ==
  /\ d.klass \in p.allowed_backing_classes
  /\ d.provenance = "Synthetic" => p.synthetic_backing_allowed
  /\ d.provenance # "Unsupported"
  /\ p.tenant_sharing = "Exclusive" => d.exclusive

\* The verdict on d, given what was kept of both lists of requirements.
DescriptorFits(d, c, p, kept) ==
  /\ PolicyPermits(p, d) /\ ContractPermits(c, d)
  /\ \A r \in kept : Provides(d.isolation, r)

\* The verdict split in two, as the runtime's model uses it.
PermittedByContract(c, d) ==
  ContractPermits(c, d) /\ \A r \in c.required_isolation : Provides(d.isolation, r)
PermittedByPolicy(p, d) ==
  PolicyPermits(p, d) /\ \A r \in p.required_isolation : Provides(d.isolation, r)

-----------------------------------------------------------------------------
(* What may be stored: normalize(), then validate().                       *)

OnePerDimension(R) == \A r, s \in R : r.dimension = s.dimension => r = s

ContractIsValid(c) ==
  /\ c.compute_share_milli <= 1000 /\ c.max_streams <= 65536 /\ c.max_concurrency <= 65536
  /\ "Unknown" \notin c.allowed_backing_classes
  /\ "None" \notin c.allowed_multiplexing_modes
  /\ c.allowed_migration_classes \cap {"Unknown", "Unsupported"} = {}
  /\ ~(c.exclusivity_required /\ c.oversubscription_allowed)
  /\ \A r \in c.required_isolation : r.minimum # Unsupported
  /\ OnePerDimension(c.required_isolation)

PolicyIsValid(p) ==
  /\ "Unknown" \notin p.allowed_backing_classes
  /\ p.allowed_migration_classes \cap {"Unknown", "Unsupported"} = {}
  /\ p.max_attachments_per_virtual \in 1..4096
  /\ p.max_compute_share_milli \in 1..1000
  /\ p.max_virtual_accelerators \in 1..10000000
  /\ p.max_tenants \in 1..10000000
  /\ p.max_memory_ceiling_bytes > 0
  /\ \A r \in p.required_isolation : r.minimum # Unsupported
  /\ OnePerDimension(p.required_isolation)

\* What normalize() may make of the list the caller submitted.
Normalized(x) == {[x EXCEPT !.required_isolation = K] : K \in SortUnique(x.required_isolation)}
=============================================================================
