----------------------------- MODULE Capabilities -----------------------------
(***************************************************************************)
(* build_projection (src/src/runtime.cpp, 810-917): the capabilities an    *)
(* accelerator advertises, from its contract c, the policy p, the backing  *)
(* b it stands on and the device d behind that, or NoRecord.               *)
(*                                                                         *)
(* A surface (src/src/capability.cpp) is a function from some capability   *)
(* keys to verdicts; the values, texts and provenance of its entries are   *)
(* left out.                                                               *)
(***************************************************************************)
EXTENDS Integers

CONSTANT NoRecord   \* the null pointer of a ProjectionInput

\* CapabilitySurface::set for every entry of t, after those of s.
SetAll(s, t) == [k \in DOMAIN s \cup DOMAIN t |-> IF k \in DOMAIN t THEN t[k] ELSE s[k]]

Budget(limit) == IF limit > 0 THEN "Constrained" ELSE "Unknown"

MigrationOk(c, p) == c.migration_allowed /\ p.migration_allowed

\* What needs no backing.
Declared(c, p) ==
  [MemoryBudgetBytes |-> Budget(c.memory_ceiling_bytes),
   ComputeShareMilli |-> Budget(c.compute_share_milli),
   MaxStreams |-> Budget(c.max_streams),
   MaxConcurrentKernels |-> Budget(c.max_concurrency),
   VirtualizationMechanism |-> "Supported",
   ConcurrencyMode |-> "Supported",
   MigrationSupport |-> IF MigrationOk(c, p) THEN "Supported" ELSE "Unsupported"]

ComputeCapability == {"ComputeCapabilityMajor", "ComputeCapabilityMinor"}

\* What the evidence of the device proves, and what it leaves unproven.
DeviceProven(d) ==
  IF d = NoRecord THEN {}
  ELSE (IF d.compute_capability_major > 0 THEN ComputeCapability ELSE {})
       \cup (IF d.architecture_known THEN {"ArchitectureFamily"} ELSE {})
DeviceUnproven(d) ==
  IF d = NoRecord THEN {} ELSE (ComputeCapability \cup {"ArchitectureFamily"}) \ DeviceProven(d)

\* What the evidence of the backing and of its device shows.
Evident(b, d) ==
  SetAll([MemoryTotalBytes |-> "Supported",
          SmCount |-> IF b.compute_units > 0 THEN "Supported" ELSE "Unknown"],
         [k \in DeviceProven(d) |-> "Supported"])

\* The entries the backing reports itself, those forbidden left out; an entry
\* of verdict Unknown is set as Unknown.
Reported(b, p) ==
  [k \in DOMAIN b.capabilities \ p.forbidden_capabilities |-> b.capabilities[k]]

\* The loop over forbidden_capabilities.
Without(s, forbidden) == [k \in DOMAIN s \ forbidden |-> s[k]]

VendorVisible(p) ==
  [VendorVisible |-> IF p.transparency = "Opaque" THEN "Unsupported" ELSE "Supported"]

\* What is gathered before the forbidden capabilities are taken out.
Gathered(c, p, b, d) == SetAll(SetAll(Declared(c, p), Evident(b, d)), Reported(b, p))

Surface(c, p, b, d) ==
  SetAll(IF b # NoRecord THEN Without(Gathered(c, p, b, d), p.forbidden_capabilities)
         ELSE SetAll(Declared(c, p), [MemoryTotalBytes |-> "Unknown"]),
         VendorVisible(p))

Hidden(c, p, b, d) ==
  IF b = NoRecord THEN {}
  ELSE p.forbidden_capabilities \cap (DOMAIN b.capabilities \cup DOMAIN Gathered(c, p, b, d))

Unproven(c, p, b, d) ==
  (IF MigrationOk(c, p) THEN {} ELSE {"MigrationSupport"})
  \cup IF b = NoRecord
       THEN ComputeCapability \cup {"MemoryTotalBytes", "ArchitectureFamily", "SmCount"}
       ELSE (IF b.compute_units > 0 THEN {} ELSE {"SmCount"})
            \cup DeviceUnproven(d)
            \cup {k \in DOMAIN Reported(b, p) : b.capabilities[k] = "Unknown"}

build_projection(c, p, b, d) ==
  [surface |-> Surface(c, p, b, d), hidden |-> Hidden(c, p, b, d),
   unknown |-> Unproven(c, p, b, d)]
=============================================================================
