------------------------- MODULE MCCacheProjection -------------------------
(* A node and two edges of one namespace that has the store to itself.     *)
EXTENDS CacheProjection, TLC

CONSTANTS nsA, n1, e1, e2, r1

OneNamespace == {nsA}
OneNode == {n1}
TwoEdges == {e1, e2}
OneReader == {r1}
=============================================================================
