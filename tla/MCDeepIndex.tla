---------------------------- MODULE MCDeepIndex ----------------------------
(* Instances of DeepIndex: a file of two chunks that may shrink to one of    *)
(* them or be emptied, and a file that never changes; a terminal and a web job. *)
EXTENDS DeepIndex, TLC

CONSTANTS fa, fb, x, y, cli, web, m1, m2

MCVersion == [f \in File |-> IF f = fa THEN {<<>>, <<x, y>>, <<y>>} ELSE {<<x>>}]
Alike == Permutations(Model)
=============================================================================
