------------------------------ MODULE MCAccounts ------------------------------
(* Small instances of Accounts for TLC. *)
EXTENDS Accounts, TLC

Sym == Permutations(User) \cup Permutations(Email) \cup Permutations(Password)
         \cup Permutations(Google) \cup Permutations(Code) \cup Permutations(Web)
=============================================================================
