------------------------------- MODULE MCAccess -------------------------------
(* Small instances of Access: two servers, up to three tasks at a time.     *)
EXTENDS Access, TLC

Person(id, roles) == [id |-> id, roles |-> roles, scopes |-> {}]
Ann == Person("ann", {"admin"})
Bob == Person("bob", {"service"})
Cleo == Person("cleo", {"read-only"})
Dora == [Person("dora", {}) EXCEPT !.scopes = {<<"db", "n1">>}]

TwoSessions == <<[who |-> Bob, expires |-> 1], [who |-> Cleo, expires |-> 2]>>

On(s, kind, token) == [kind |-> kind, server |-> s, token |-> token]
Data(s, token, request) == On(s, "data", token) @@ [request |-> request]
Revoke(s, access, token) == On(s, "revoke", token) @@ [access |-> access]

\* Two sessions, three tasks on them
TokenTasks ==
    {On(s, kind, 1) : s \in Servers, kind \in {"validate", "refresh"}}
    \cup {On(1, "introspect", 2), Revoke(1, 9, 1), Revoke(2, 0, 1)}
    \cup {[kind |-> "authenticate", server |-> 2, id |-> "ann", token |-> 0],
          [kind |-> "issue", server |-> 1, who |-> Bob, ttl |-> 9, token |-> 0],
          [kind |-> "issue", server |-> 2, who |-> Person("ed", {}), ttl |-> 0, token |-> 0]}
TokenScenarios ==
    {[sessions |-> TwoSessions, policies |-> <<>>, tasks |-> <<a, b, c>>, may |-> environment] :
        a \in {Revoke(1, 1, 0), Revoke(2, 1, 1), Revoke(2, 0, 1), On(1, "refresh", 1)},
        b \in {On(1, "validate", 1), On(2, "refresh", 1)}, c \in TokenTasks,
        environment \in {{"tick"}, {"restart"}, {"fail"}}}

\* Resources in three positions of the path, and what may be asked of them
Request(ns, scope, entity, action, reads) ==
    [ns |-> ns, scope |-> scope, entity |-> entity, action |-> action, reads |-> reads]
Find == Request(<<"db", "n1">>, <<"data">>, <<"P">>, "query.find", TRUE)
Requests ==
    {Find, Request(<<"db", "n1">>, <<"edge">>, <<"Q">>, "edge.write", FALSE),
     Request(<<"db", "n2">>, <<"_sys", "tokens">>, <<"P">>, "auth.token.read", TRUE),
     Request(<<"eb", "n1">>, <<"data">>, <<>>, "query.find", TRUE)}
Rule(path, actions) ==
    [path |-> path, database |-> "", namespace |-> "", entity |-> "", actions |-> actions]
Perms ==
    {Rule(<<"db", "+">>, {"query.find"}), Rule(<<"db", "*", "data", "*">>, {"*"}),
     Rule(<<"db", "n1", "data", "P", "+">>, {"*"}), Rule(<<"+", "Q">>, {"edge.write"}),
     Rule(<<"db", "*", "P">>, {"*"}),
     [Rule(<<>>, {"query.find"}) EXCEPT !.namespace = "n1", !.entity = "P"],
     [Rule(<<>>, {"query.find"}) EXCEPT !.database = "db", !.namespace = "*"]}
For(who, perm) == [who |-> who.id, perms |-> {perm}]
Create(s, id, policy) == On(s, "create", 0) @@ [id |-> id, policy |-> policy]
PolicyScenarios ==
    {[sessions |-> TwoSessions, policies |-> <<For(Bob, old)>>, may |-> environment,
      tasks |-> <<Data(1, 1, request), Create(2, 1, For(Bob, new)),
                  On(1, "delete", 0) @@ [id |-> 1]>>] :
        old \in {Rule(<<"db", "+">>, {"query.find"}), Rule(<<"db", "*", "P">>, {"*"})},
        new \in Perms, request \in Requests,
        environment \in {{}, {"fail"}}}

\* One policy more than are listed, in front of another principal's
CrowdedScenarios ==
    {[sessions |-> TwoSessions, policies |-> 2 :> For(Cleo, perm) @@ 3 :> For(Bob, perm),
      may |-> {}, tasks |-> <<Data(1, 1, request), Create(2, 1, For(Cleo, perm)),
                              On(1, "delete", 0) @@ [id |-> 2]>>] :
        perm \in Perms, request \in Requests}

\* Requests while their session ends
SessionScenarios ==
    {[sessions |-> TwoSessions, policies |-> <<For(Bob, Rule(<<"db", "+">>, {"*"}))>>,
      may |-> environment, tasks |-> <<Data(1, 1, Find), other, change>>] :
        other \in {On(1, "validate", 1), On(1, "refresh", 1), Data(1, 1, Find)},
        change \in {Revoke(1, 1, 0), Revoke(2, 1, 1), On(1, "delete", 0) @@ [id |-> 1]},
        environment \in {{"tick"}, {"restart"}, {"fail"}}}

RoleScenarios ==
    {[sessions |-> TwoSessions, policies |-> <<For(Cleo, Rule(<<"+">>, {"*"}))>>,
      may |-> {"tick", "sweep"},
      tasks |-> <<[kind |-> "credential", server |-> 1, token |-> 0, who |-> who, request |-> request],
                  Data(1, 2, request), On(2, "check", 0) @@ [who |-> who, request |-> request]>>] :
        who \in {Ann, Dora, Cleo}, request \in Requests}

MCScenarios ==
    TokenScenarios \cup PolicyScenarios \cup CrowdedScenarios \cup SessionScenarios
    \cup RoleScenarios
=============================================================================
