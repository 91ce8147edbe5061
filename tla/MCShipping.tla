------------------------------ MODULE MCShipping ------------------------------
(* Small instances of Shipping for TLC. *)
EXTENDS Shipping, TLC

\* A parcel, and a heavier one to another address of the same postal code.
TwoParcels == {[service |-> "03", address |-> "home", weight |-> 1],
               [service |-> "03", address |-> "next door", weight |-> 2]}
OneArea == [a \in {"home", "next door"} |-> "US 10001"]
TwoSpans == {1, 3}
Sym == Permutations(Web) \cup Permutations(Token)
=============================================================================
