---------------------------- MODULE MCFirstOrder ----------------------------
(* Small instances of FirstOrder for TLC. *)
EXTENDS FirstOrder, TLC

\* Two spellings of one email, which the other may be given up for.
OneEmail == [u \in User |-> CHOOSE e \in Email : TRUE]

Sym == Permutations(User) \cup Permutations(Claim) \cup Permutations(Order)
         \cup Permutations(Web)
=============================================================================
