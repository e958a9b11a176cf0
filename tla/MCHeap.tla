------------------------------- MODULE MCHeap -------------------------------
(* HymnHeap with its symmetries. *)
EXTENDS HymnHeap, TLC

Symmetry == Permutations(Slots) \cup Permutations(Objects \ Literals)
=============================================================================
