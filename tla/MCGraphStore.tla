---------------------------- MODULE MCGraphStore ----------------------------
(* Small instances of GraphStore for TLC. *)
EXTENDS GraphStore, TLC

CONSTANTS a, b, p, q

TwoNodes == {a, b}
TwoProcs == {p, q}
NoSortKey == {0}
OneWay == {FALSE}
BothWays == {TRUE, FALSE}
Symmetric == Permutations(TwoNodes) \cup Permutations(TwoProcs)
=============================================================================
