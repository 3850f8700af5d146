-------------------------- MODULE MCDecisionLedger --------------------------
(* An instance of DecisionLedger. *)
EXTENDS DecisionLedger, TLC

CONSTANTS s1, s2, f1, t1, code, work

Symmetry == Permutations(Category)
=============================================================================
