------------------------- MODULE MCWorkspaceImport -------------------------
(* TLC instance of the composed export and import of one workspace.       *)
EXTENDS WorkspaceImport, TLC

(* Transactions that have not begun are interchangeable.                  *)
MCSymmetry == Permutations(Export) \cup Permutations(Proc)
=============================================================================
