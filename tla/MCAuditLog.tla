----------------------------- MODULE MCAuditLog -----------------------------
(* Model-checking definitions for AuditLog. *)
EXTENDS AuditLog, TLC

Symmetry == Permutations(Procs)
=============================================================================
