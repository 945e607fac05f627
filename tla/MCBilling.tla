----------------------------- MODULE MCBilling ------------------------------
(***************************************************************************)
(* Plans small enough for their limits to be reached.                      *)
(***************************************************************************)
EXTENDS Billing, TLC

CONSTANTS t1, t2, e1, e2, e3

MCQuota == [p \in Plan |-> IF p = "free" THEN 0 ELSE 1]
MCSlots == [p \in Plan |-> IF p = "enterprise" THEN 2 ELSE 1]
MCKeys == [p \in Plan |-> IF p = "free" THEN 0 ELSE 1]

Symmetry == Permutations({t1, t2}) \cup Permutations({e1, e2, e3})
=============================================================================
