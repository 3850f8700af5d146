------------------------- MODULE MCSummaryPipeline -------------------------
(* Instances of SummaryPipeline: a directory top, files alpha and beta in it.*)
EXTENDS SummaryPipeline

CONSTANTS top, alpha, beta, w1, w2, pa

MCDepth == [p \in Path |-> IF p = top THEN 0 ELSE 1]
MCAncestors == [p \in Path |-> IF p = top THEN {} ELSE {top}]
MCProcOf == [w \in Worker |-> pa]
=============================================================================
