----------------------------- MODULE MCPayments -----------------------------
(* Small instances of Payments for TLC. *)
EXTENDS Payments, TLC

Sym == Permutations(Pid) \cup Permutations(Key) \cup Permutations(RefundKey)
         \cup Permutations(Web)
=============================================================================
