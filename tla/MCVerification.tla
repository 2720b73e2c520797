--------------------------- MODULE MCVerification ---------------------------
(***************************************************************************)
(* Symmetry for the model checker: the readers' names occur nowhere.       *)
(***************************************************************************)
EXTENDS Verification, TLC

ReaderSymmetry == Permutations(Readers)
=============================================================================
