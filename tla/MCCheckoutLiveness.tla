------------------------- MODULE MCCheckoutLiveness -------------------------
(* Small instances of CheckoutLiveness for TLC. *)
EXTENDS CheckoutLiveness, TLC

\* Each order has a variant of its own.
OwnLines == (1 :> (1 :> 1 @@ 2 :> 0)) @@ (2 :> (1 :> 0 @@ 2 :> 1))
\* Order 1 takes both variants, order 2 only the first.
SharedLines == (1 :> (1 :> 1 @@ 2 :> 1)) @@ (2 :> (1 :> 1 @@ 2 :> 0))
TwoEach == 1 :> 2 @@ 2 :> 2
=============================================================================
