----------------------------- MODULE MCAnnCache -----------------------------
(* An instance of AnnCache: two files, two embedding models, two asks.       *)
EXTENDS AnnCache, TLC

CONSTANTS fa, fb, a1, a2

Alike == Permutations({fa, fb}) \cup Permutations({a1, a2})
=============================================================================
