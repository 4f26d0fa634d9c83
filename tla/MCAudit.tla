------------------------------ MODULE MCAudit -------------------------------
(* Model checking of Audit: two writers, three rows, three days.  *)
EXTENDS Audit, TLC

\* Writers are interchangeable.
AuditSymmetry == Permutations(Writers)
=============================================================================
