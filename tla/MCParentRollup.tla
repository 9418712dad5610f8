--------------------------- MODULE MCParentRollup ---------------------------
(* Symmetry for model checking ParentRollup. *)
EXTENDS ParentRollup, TLC

Symmetry ==
  Permutations(Children) \cup Permutations(Finishers) \cup Permutations(Sweepers)
    \cup Permutations(Adders)
=============================================================================
