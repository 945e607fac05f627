----------------------------- MODULE MCAccounts -----------------------------
(***************************************************************************)
(* Instances of Accounts for TLC.                                          *)
(***************************************************************************)
EXTENDS Accounts, TLC

Symmetry == Permutations(Thread) \cup Permutations(Account)
               \cup Permutations(Email) \cup Permutations(Token)
=============================================================================
