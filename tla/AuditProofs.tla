----------------------------- MODULE AuditProofs ------------------------------
(***************************************************************************)
(* Keeping the gauges and the projections disturbs nothing: the runtime    *)
(* with them takes the steps of the runtime without, so what is proved of  *)
(* Runtime holds of Audit.                                                 *)
(***************************************************************************)
EXTENDS Audit, TLAPS

\* Each group of audited operations performs operations of the runtime.
LEMMA AuditedStep == AuditedNext => Next
<1> USE DEF Next, TenancyStep, DeviceStep, LifecycleStep, BindingStep, AttachmentStep,
            MigrationStep, PolicyStep, ProcessStep
<1>1. Unaudited => Next
  BY Zenon DEF Unaudited
<1>2. Incremented => Next
  BY Zenon DEF Incremented
<1>3. Recomputed => Next
  BY Zenon DEF Recomputed
<1>4. Rebuilt => Next
  BY Zenon DEF Rebuilt
<1> QED
  BY <1>1, <1>2, <1>3, <1>4 DEF AuditedNext

\* The accounting and the projections only observe (accounting.hpp 10-11): no
\* operation is enabled, refused or changed by them.
THEOREM AuditingIsTransparent == AuditedSpec => Spec
<1>1. [AuditedNext]_auditVars => [Next]_vars
  BY AuditedStep DEF auditVars
<1> QED
  BY <1>1, PTL DEF AuditedSpec, AuditedInit, Spec
=============================================================================
