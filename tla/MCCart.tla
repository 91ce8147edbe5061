------------------------------- MODULE MCCart -------------------------------
(* Small instances of Cart for TLC. *)
EXTENDS Cart, TLC

Sym == Permutations(Variant) \cup Permutations(Item) \cup Permutations(Web)
=============================================================================
