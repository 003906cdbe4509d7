------------------------------ MODULE MCHuluPlan ------------------------------
(* Small instances of HuluPlan for TLC. *)
EXTENDS HuluPlan, TLC

Symmetry == Permutations(Plans) \cup Permutations(Requests)
=============================================================================
