--------------------------- MODULE MCSchemaCache ---------------------------
(***************************************************************************)
(* Symmetry for the model checker: no table and no command is special.     *)
(***************************************************************************)
EXTENDS SchemaCache, TLC

CacheSymmetry == Permutations(Tables) \cup Permutations(Commands)
=============================================================================
