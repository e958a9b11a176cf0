----------------------------- MODULE MCStrings -----------------------------
(* HymnStrings on a small machine, with its symmetries. *)
EXTENDS HymnStrings, TLC

Symmetry ==
  Permutations(Objects) \cup Permutations(Slots)
    \cup Permutations(Literals) \cup Permutations(Texts)
=============================================================================
