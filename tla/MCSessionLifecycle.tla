------------------------ MODULE MCSessionLifecycle ------------------------
(* Model-checking instances of SessionLifecycle.                           *)
EXTENDS SessionLifecycle, TLC

(* Every set of names is interchangeable: no action or safety property     *)
(* singles one out.  Not used with temporal properties.                    *)
Symmetry ==
    Permutations(Sessions) \cup Permutations(Volumes)
        \cup Permutations(Commands) \cup Permutations(Ids)
        \cup Permutations(Gens) \cup Permutations(Supervisors)
=============================================================================
