--------------------------- MODULE MCPreparedBase ---------------------------
(* Model-checking instance of PreparedBase.                                *)
EXTENDS PreparedBase, TLC

(* Attempts and keys are interchangeable; no liveness is checked.          *)
MCSymmetry == Permutations(Attempt) \cup Permutations(Key)
=============================================================================
