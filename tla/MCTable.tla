------------------------------ MODULE MCTable ------------------------------
(* HymnTable with four keys.  Keys 1, 2 and 3 share a bin of two and of     *)
(* four, so that the third makes a chain of three, which is split at once;  *)
(* eight bins part 2 from 1 and 3.  4 is alone.                             *)
EXTENDS HymnTable

MCKeys == 1..4

MCHash == <<0, 4, 8, 3>>
=============================================================================
