----------------------------- MODULE MCTakedown -----------------------------
(***************************************************************************)
(* Instances of Takedown for TLC.                                          *)
(***************************************************************************)
EXTENDS Takedown, TLC

Symmetry == Permutations(Thread) \cup Permutations(Incident)
               \cup Permutations(Case)
=============================================================================
