------------------------- MODULE CheckoutRefinement -------------------------
(***************************************************************************)
(* The transactions of Checkout implement the whole-order steps of         *)
(* OrderStock: the row locks, the order of the statements and the early    *)
(* returns make every COMMIT look like one Reserve, Commit or Release whose *)
(* conditions hold at that moment, and every other statement like nothing. *)
(***************************************************************************)
EXTENDS Checkout

Stock == INSTANCE OrderStock WITH placed <- {o \in Order : Placed(o)}

\* Every behaviour of the sessions is one of the whole-order specification.
ImplementsOrderStock == Stock!Spec
=============================================================================
