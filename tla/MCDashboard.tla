---------------------------- MODULE MCDashboard -----------------------------
(***************************************************************************)
(* Instances of Dashboard for TLC.                                         *)
(***************************************************************************)
EXTENDS Dashboard, TLC

Symmetry == Permutations(Thread) \cup Permutations(Account)
               \cup Permutations(Token) \cup Permutations(Call)
=============================================================================
