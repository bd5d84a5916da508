------------------------- MODULE MCActionAttempts -------------------------
(* TLC instance of the recipe actions of one session.                     *)
EXTENDS ActionAttempts, TLC

MCSymmetry == Permutations(Client) \cup Permutations(Attempt) \cup Permutations(Helper)
=============================================================================
