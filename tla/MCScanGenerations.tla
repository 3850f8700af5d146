-------------------------- MODULE MCScanGenerations --------------------------
(* Instances of ScanGenerations: two files, a root top of both and a root sub *)
(* of one; `indexa scan sub top` beside a web scan of top.                    *)
EXTENDS ScanGenerations

CONSTANTS alpha, beta, top, sub, cli, web

MCUnder == [r \in Root |-> IF r = top THEN {alpha, beta} ELSE {beta}]
MCRootsOf == [s \in Scanner |-> IF s = cli THEN <<sub, top>> ELSE <<top>>]
=============================================================================
