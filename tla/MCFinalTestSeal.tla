--------------------------- MODULE MCFinalTestSeal ---------------------------
(* Small instances of FinalTestSeal for TLC. *)
EXTENDS FinalTestSeal, TLC

RunSymmetry == Permutations(Runs)

=============================================================================
