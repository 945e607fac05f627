--------------------------- MODULE MCSnapshotStore ---------------------------
(***************************************************************************)
(* Instances of SnapshotStore for TLC.                                     *)
(***************************************************************************)
EXTENDS SnapshotStore, TLC

Symmetry == Permutations(Thread) \cup Permutations(Id)
=============================================================================
