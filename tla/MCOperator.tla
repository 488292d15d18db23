------------------------------ MODULE MCOperator ------------------------------
(* Small instances of Operator: one site that is edited twice.              *)
EXTENDS Operator

Tls(mode, ca, cert, key) == [mode |-> mode, ca |-> ca, cert |-> cert, key |-> key]
Peer(site, endpoint, key) == [site |-> site, endpoint |-> endpoint, key |-> key]
Plain ==
    [site |-> "1", fdb |-> "fdb", auth |-> None, peers |-> <<>>, scopes |-> <<>>, defaults |-> "d",
     enabled |-> {}, hpa |-> [on |-> TRUE, min |-> 1, max |-> 2], pdb |-> 0, port |-> 1, api |-> 1,
     replicas |-> 1, lease |-> [ttl |-> 2, heartbeat |-> 1], tls |-> Tls("disabled", None, None, None)]
Fixed == [Plain EXCEPT !.hpa.on = FALSE, !.pdb = 1, !.api = 2]
Joined == [Plain EXCEPT !.peers = <<Peer("2", "p", "k")>>, !.tls = Tls("mutual", "ca", "c", "k"),
                        !.auth = "a"]
Invalid ==
    {[Plain EXCEPT !.peers = <<Peer("2", "p", None), Peer("2", "q", None)>>],
     [Plain EXCEPT !.tls = Tls("ca", None, None, None)]}
\* Scaled to zero, so that no pods come and go while two processes lead
Asleep(spec) == [spec EXCEPT !.api = 0, !.replicas = 0]
AllSecrets == {"fdb", "a", "k", "ca", "c"}

Scenario(list, here, hooked, taken, disturbance) ==
    [edits |-> list, secrets |-> here, later |-> AllSecrets \ here, hook |-> hooked,
     takes |-> taken, may |-> {disturbance}]
MCScenarios ==
    {Scenario(<<Asleep(Plain), Fixed>>, AllSecrets, TRUE, taken, "crash") : taken \in BOOLEAN}
    \cup {Scenario(<<Asleep(Plain), Asleep(Fixed)>>, AllSecrets, FALSE, TRUE, "expire")}
    \cup {Scenario(<<Fixed, bad>>, AllSecrets, hooked, TRUE, "fail") :
            bad \in Invalid, hooked \in BOOLEAN}
    \cup {Scenario(<<Asleep(bad), Asleep(Fixed)>>, AllSecrets, FALSE, TRUE, "expire") : bad \in Invalid}
    \cup {Scenario(<<Plain, Joined>>, AllSecrets \ {"k"}, FALSE, FALSE, "scale"),
          Scenario(<<Plain>>, AllSecrets, FALSE, TRUE, "scale")}
=============================================================================
