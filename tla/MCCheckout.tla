----------------------------- MODULE MCCheckout -----------------------------
(* Small instances of Checkout, of the invariant of its proofs and of its   *)
(* refinement for TLC.                                                      *)
EXTENDS CheckoutInvariant, CheckoutRefinement, TLC

\* Order 1 takes both variants, order 2 only the first: they compete for it.
SharedLines == (1 :> (1 :> 1 @@ 2 :> 1)) @@ (2 :> (1 :> 1 @@ 2 :> 0))
\* Both orders take both variants.
CrossedLines == (1 :> (1 :> 1 @@ 2 :> 1)) @@ (2 :> (1 :> 1 @@ 2 :> 1))
TwoEach == 1 :> 2 @@ 2 :> 2
\* The second checkout finds its second variant sold out.
LastOther == 1 :> 2 @@ 2 :> 1

Sym == Permutations(Web) \cup Permutations(Beat) \cup Permutations(Txn)
=============================================================================
