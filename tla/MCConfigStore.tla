--------------------------- MODULE MCConfigStore ---------------------------
(* Model-checking definitions for ConfigStore. *)
EXTENDS ConfigStore, TLC

Symmetry == Permutations(Procs) \cup Permutations(Settings)
=============================================================================
