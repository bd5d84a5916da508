--------------------------- MODULE MCNamedProject ---------------------------
(* Objects and bases are interchangeable.                                  *)
EXTENDS NamedProject, TLC

MCSymmetry == Permutations(Objects) \cup Permutations(Bases)
=============================================================================
