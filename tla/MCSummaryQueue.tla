--------------------------- MODULE MCSummaryQueue ---------------------------
(* Instances of SummaryQueue: a root r with a file a and a directory d that  *)
(* holds a file f.                                                           *)
EXTENDS SummaryQueue

CONSTANTS r, d, a, f, w1, w2, pa, pb

MCDepth == [p \in Path |-> CASE p = r -> 0 [] p = f -> 2 [] OTHER -> 1]
MCAncestors == [p \in Path |-> CASE p = r -> {} [] p = f -> Dir [] OTHER -> {r}]
OneProcess == [w \in Worker |-> pa]
TwoProcesses == [w \in Worker |-> IF w = w1 THEN pa ELSE pb]
=============================================================================
