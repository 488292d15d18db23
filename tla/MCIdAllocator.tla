--------------------------- MODULE MCIdAllocator ---------------------------
(* Two processes of one site and one scope, with batches of two.           *)
EXTENDS IdAllocator, TLC

CONSTANTS p1, p2, scopeA

MCProcs == {p1, p2}
OneScope == {scopeA}
\* The usual case: every scope is formatted to a text of its own.
DistinctKeys == [s \in Scopes |-> s]
MCSymmetry == Permutations(MCProcs)
=============================================================================
