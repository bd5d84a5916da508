-------------------------- MODULE MCSessionRebuild --------------------------
(* Model-checking instances of SessionRebuild.                             *)
EXTENDS SessionRebuild, TLC

(* Commands and bases are interchangeable; objects are drawn in a fixed    *)
(* order.  The run checks no liveness.                                     *)
Symmetry == Permutations(Commands) \cup Permutations(Bases)
=============================================================================
