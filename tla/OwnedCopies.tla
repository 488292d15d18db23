---------------------------- MODULE OwnedCopies -----------------------------
(***************************************************************************)
(* What replication promises about a node, without logs, tasks or leases:  *)
(* a node has one history; only a site whose copy is the latest state adds *)
(* to it; every other copy moves forward along it, and reaches its end if  *)
(* the writes stop.  The promise holds while the system is calm: until a   *)
(* replicator is interrupted or a site writes from a state that is no      *)
(* longer the latest.                                                      *)
(***************************************************************************)
EXTENDS Sequences, Integers

CONSTANTS Sites, Nodes, States

VARIABLES
    past, \* past[n]: the states of n, oldest first
    copy, \* copy[s][n]: the state of n at site s
    calm

vars == <<past, copy, calm>>

Latest(n) == past[n][Len(past[n])]

Init ==
    /\ past \in [Nodes -> {<<c>> : c \in States}]
    /\ copy = [s \in Sites |-> [n \in Nodes |-> Latest(n)]]
    /\ calm = TRUE

Extend(s, n, c) ==
    /\ calm' => calm /\ copy[s][n] = Latest(n)
    /\ past' = [past EXCEPT ![n] = Append(@, c)]
    /\ copy' = [copy EXCEPT ![s][n] = c]

\* A copy moves to a later state.  States may recur in a history.
Follow(s, n) ==
    /\ calm
    /\ \E i, j \in DOMAIN past[n] :
          /\ i < j
          /\ copy[s][n] = past[n][i]
          /\ copy' = [copy EXCEPT ![s][n] = past[n][j]]
    /\ UNCHANGED <<past, calm>>

CatchUp(s, n) == copy[s][n] # Latest(n) /\ Follow(s, n)

Disturb == calm' = FALSE /\ UNCHANGED <<past, copy>>

\* Nothing is promised about the copies after that.
Disturbed ==
    /\ ~calm
    /\ copy' \in [Sites -> [Nodes -> States]]
    /\ UNCHANGED <<past, calm>>

Next ==
    \/ \E s \in Sites, n \in Nodes :
          Follow(s, n) \/ \E c \in States : Extend(s, n, c)
    \/ Disturb
    \/ Disturbed

Spec ==
    /\ Init /\ [][Next]_vars
    /\ \A s \in Sites, n \in Nodes : WF_vars(CatchUp(s, n))
=============================================================================
