---------------------------- MODULE MCAuditLock ----------------------------
(* Model-checking definitions for AuditLock. *)
EXTENDS AuditLock, TLC

Symmetry == Permutations(Procs)
=============================================================================
