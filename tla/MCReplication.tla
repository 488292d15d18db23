--------------------------- MODULE MCReplication ----------------------------
(* Small instances of Replication for TLC. *)
EXTENDS Replication, TLC

TwoSites == {"A", "B"}
OneNode == {"n"}
HomeA == [n \in OneNode |-> "A"]
\* Nodes with one property and with two, and what updates set.
OneProp == [{"p"} -> {1, 2}]
SetP == {[p |-> 2]}
TwoProps == [{"p", "q"} -> {1, 2}]
SetPOrQ == {[p |-> 1], [p |-> 2], [q |-> 2]}

\* A node with two edges to itself, of which requests name one.
Loop(l) == [src |-> "n", tgt |-> "n", label |-> l]
Loops == {Loop("x"), Loop("y")}
OneLoop == {Loop("x")}
Nothing == [val |-> <<>>, edges |-> {}]
Present(v) == [val |-> [n \in OneNode |-> v], edges |-> Loops]
OldOrNew == {Nothing, Present([p |-> 1])}
OldNode == {Present([p |-> 1, q |-> 1])}

\* Both sites follow each other.
TwoWay == {"a", "b"}
TwoWaySites == [a |-> "A", b |-> "B"]
TwoWayPeers == [a |-> "B", b |-> "A"]

\* Two processes of site B compete for the lease to follow A.
CONSTANTS b1, b2
Standby == {b1, b2}
StandbySites == [t \in Standby |-> "B"]
StandbyPeers == [t \in Standby |-> "A"]
Symmetric == Permutations(Standby)
=============================================================================
