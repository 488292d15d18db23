-------------------------------- MODULE Access --------------------------------
(***************************************************************************)
(* Token sessions, policies and the audit log: AuthService and its runtime *)
(* (auth_service.rs), the interceptor of the other services                *)
(* (auth_identity.rs), authorization (authz.rs) and what they store        *)
(* (security.rs), for several servers over one database.                   *)
(*                                                                         *)
(* A server keeps the sessions it has issued or validated in memory until  *)
(* it restarts; the database has all of them.  Session t has the access    *)
(* token t and the refresh token t.  A behaviour runs each task of its     *)
(* scenario at most once, in any order and interleaved; every access to    *)
(* the database is a step of its own.  A step changes both maps of a       *)
(* server: they have a lock each, and an entry in one of them alone counts *)
(* for nothing.                                                            *)
(*                                                                         *)
(* auth_required is set.  AuthService is served without the interceptor,   *)
(* so that authorize finds no principal in its handlers and returns; the   *)
(* task "data" stands for a handler of any other service.                  *)
(***************************************************************************)
EXTENDS Integers, Sequences, FiniteSets

CONSTANTS
    Servers,        \* the processes that share the database
    Scenarios,      \* records [sessions, policies, tasks, may]
    MinTtl,         \* bounds of a session's lifetime, and its default:
    MaxTtl,         \*    60, 86400 and 3600 seconds
    DefaultTtl,
    Retention,      \* age at which audit records expire, 90 days
    SweepBatch,     \* audit_retention_batch, 1000
    PolicyLimit,    \* policies that list_policies reads, 10000
    Horizon         \* bound on the clock

ASSUME TtlAssumption == MinTtl \in 1..MaxTtl /\ DefaultTtl \in Nat \ {0}

\* The sessions of a scenario are numbered; its tasks run on a server and are
\* about a token, where 0 is none.
ASSUME ScenarioAssumption ==
    \A s \in Scenarios :
        /\ IsFiniteSet(DOMAIN s.sessions)
        /\ DOMAIN s.sessions = 1..Cardinality(DOMAIN s.sessions)
        /\ \A t \in DOMAIN s.sessions :
              s.sessions[t] = [who |-> s.sessions[t].who, expires |-> s.sessions[t].expires]
        /\ \A k \in DOMAIN s.tasks :
              /\ {"kind", "server", "token"} \subseteq DOMAIN s.tasks[k]
              /\ s.tasks[k].server \in Servers
              /\ s.tasks[k].kind = "revoke" => "access" \in DOMAIN s.tasks[k]

VARIABLES
    clock,      \* seconds, the same for all servers
    stored,     \* session -> [who, expires, revoked], by access token
    bindings,   \* refresh tokens that the database binds to their session
    sessions,   \* server -> (session -> [who, expires]), the map `sessions`
    refresh,    \* server -> refresh tokens, the map `refresh_tokens`
    policies,   \* policy identifier -> [who, perms]
    audit,      \* audit records
    sweep,      \* the records the audit sweep is about to clear
    task,       \* the tasks of the scenario and how far they are
    may,        \* what the environment does in this behaviour
    minted,     \* for the properties: every session as it was issued
    moments     \* for the properties: task -> the states in the course of its call

vars == <<clock, stored, bindings, sessions, refresh, policies, audit, sweep, task, may, minted,
          moments>>
memory == <<sessions, refresh>>
tokens == <<stored, bindings>>

Without(f, x) == [y \in DOMAIN f \ {x} |-> f[y]]
With(f, x, v) == [y \in DOMAIN f \cup {x} |-> IF y = x THEN v ELSE f[y]]
Override(f, g) == [x \in DOMAIN f \cup DOMAIN g |-> IF x \in DOMAIN f THEN f[x] ELSE g[x]]
Least(m, n) == IF m < n THEN m ELSE n
Greatest(m, n) == IF m > n THEN m ELSE n

-----------------------------------------------------------------------------
(* Permissions.                                                            *)

\* path_match_segments: "*" is one segment, "+" one or more
PathMatch(rule, value) ==
    LET m[i \in 1..(Len(rule) + 1), j \in 1..(Len(value) + 1)] ==
            IF i > Len(rule) THEN j > Len(value)
            ELSE IF rule[i] = "+" THEN \E k \in (j + 1)..(Len(value) + 1) : m[i + 1, k]
            ELSE j <= Len(value) /\ rule[i] \in {"*", value[j]} /\ m[i + 1, j + 1]
    IN  m[1, 1]

FieldMatch(rule, value) == rule \in {"*", "+", "", value}

\* build_resource_path, action_subspace: a request has ns, a pair of database
\* and namespace, scope and entity, which is <<>> for an empty entity_type.
ResourcePath(r) == r.ns \o r.scope \o r.entity
EntityType(r) == IF r.entity = <<>> THEN "" ELSE r.entity[1]

\* check_permission: by fields, or by path where the permission has one
Grants(perm, r) ==
    /\ IF perm.path = <<>>
       THEN /\ FieldMatch(perm.database, r.ns[1])
            /\ FieldMatch(perm.namespace, r.ns[2])
            /\ FieldMatch(perm.entity, EntityType(r))
       ELSE PathMatch(perm.path, ResourcePath(r)) \/ PathMatch(perm.path, r.ns \o r.entity)
    /\ "*" \in perm.actions \/ r.action \in perm.actions

\* list_policies: one range read, cut at the limit, over the policies of all
\* principals in the order of their identifiers.
Listed ==
    {p \in DOMAIN policies : Cardinality({q \in DOMAIN policies : q < p}) < PolicyLimit}
PolicyAllows(who, r) ==
    \E p \in Listed : policies[p].who = who.id /\ \E x \in policies[p].perms : Grants(x, r)

\* authorize: roles come first; "namespace-admin" may be for one namespace, and
\* the role "read-only" leaves no room for policies.
AdminOf(who, r) == {"admin", "namespace-admin"} \cap who.roles # {} \/ r.ns \in who.scopes
ReadsPolicies(who, r) == ~AdminOf(who, r) /\ "read-only" \notin who.roles
Allows(who, r) == IF ReadsPolicies(who, r) THEN PolicyAllows(who, r)
                  ELSE AdminOf(who, r) \/ r.reads

-----------------------------------------------------------------------------
(* Steps of tasks.  A task has kind, server and the arguments of its       *)
(* request; pc says how far it is.                                         *)

At(k, kinds, pc) == task[k].kind \in kinds /\ task[k].pc = pc
Move(k, fields) == task' = [task EXCEPT ![k] = Override(fields, @)]
Goto(k, pc) == Move(k, [pc |-> pc])

\* A commit may be reported as failed although it took place.
Commits(k, pc) == Goto(k, pc) \/ ("fail" \in may /\ Goto(k, "refused"))

\* introspect_token reports and logs a token that is not good.
Refusal(k) == IF task[k].kind = "introspect" THEN "log" ELSE "refused"

\* Mutant: what is in memory is good for ever.
AliveForever(s, t) == t \in DOMAIN sessions[s]

Alive(s, t) == t \in DOMAIN sessions[s] /\ sessions[s][t].expires > clock

\* The principal of a request is known.
Identified(k, who) ==
    CASE task[k].kind = "refresh" -> [pc |-> "mint", who |-> who]
      [] task[k].kind \in {"validate", "introspect"} -> [pc |-> "log"]
      [] task[k].kind = "data" -> [pc |-> "authorize", who |-> who]

\* validate_bearer_token, validate_bearer_token_sync, session_from_refresh_token:
\* a session in memory is good until it expires.
Lookup(k) ==
    /\ LET s == task[k].server
           t == task[k].token
       IN  Move(k, IF Alive(s, t) /\ (task[k].kind = "refresh" => t \in refresh[s])
                   THEN Identified(k, sessions[s][t].who)
                   ELSE [pc |-> IF task[k].kind = "refresh" THEN "binding" ELSE "read"])
    /\ UNCHANGED <<clock, tokens, memory, policies, audit, sweep, may, minted>>

ValidateToken(k) == At(k, {"validate"}, "ready") /\ Lookup(k)
IntrospectToken(k) == At(k, {"introspect"}, "ready") /\ Lookup(k)
RefreshToken(k) == At(k, {"refresh"}, "ready") /\ Lookup(k)

\* auth_interceptor, resolve_principal_from_tonic_request: the first credential
\* that names a principal counts, a bearer token comes last.
Intercept(k) == At(k, {"data"}, "ready") /\ Lookup(k)

\* principal_for_api_key, principal_for_mtls_subject, principal_for_mtls_fingerprint
Credential(k) ==
    /\ At(k, {"credential"}, "ready")
    /\ Goto(k, "authorize")
    /\ UNCHANGED <<clock, tokens, memory, policies, audit, sweep, may, minted>>

\* get_token_session_by_refresh reads the binding, then the session.
ReadBinding(k) ==
    /\ task[k].pc = "binding"
    /\ Goto(k, IF task[k].token \in bindings THEN "read" ELSE "refused")
    /\ UNCHANGED <<clock, tokens, memory, policies, audit, sweep, may, minted>>

\* Mutant: a revoked session is still good for its lifetime.
ReadSessionUnchecked(k) ==
    /\ task[k].pc = "read"
    /\ LET t == task[k].token
       IN  IF t \in DOMAIN stored /\ stored[t].expires > clock
           THEN Move(k, [pc |-> "restore", found |-> [who |-> stored[t].who,
                                                      expires |-> stored[t].expires]])
           ELSE Goto(k, Refusal(k))
    /\ UNCHANGED <<clock, tokens, memory, policies, audit, sweep, may, minted>>

\* is_active_persistent_session
ReadSession(k) ==
    /\ task[k].pc = "read"
    /\ LET t == task[k].token
       IN  IF t \in DOMAIN stored /\ ~stored[t].revoked /\ stored[t].expires > clock
           THEN Move(k, [pc |-> "restore", found |-> [who |-> stored[t].who,
                                                      expires |-> stored[t].expires]])
           ELSE Goto(k, Refusal(k))
    /\ UNCHANGED <<clock, tokens, memory, policies, audit, sweep, may, minted>>

\* Mutant: a session in memory begins a new lifetime.
RestoreAnew(k) ==
    /\ task[k].pc = "restore"
    /\ LET s == task[k].server
           t == task[k].token
       IN  /\ sessions' = [sessions EXCEPT ![s] = With(@, t, [who |-> task[k].found.who,
                                                              expires |-> clock + DefaultTtl])]
           /\ refresh' = [refresh EXCEPT ![s] = @ \cup {t}]
    /\ Move(k, Identified(k, task[k].found.who))
    /\ UNCHANGED <<clock, tokens, policies, audit, sweep, may, minted>>

\* The session that was read goes into memory, whatever happened since.
Restore(k) ==
    /\ task[k].pc = "restore"
    /\ LET s == task[k].server
           t == task[k].token
       IN  /\ sessions' = [sessions EXCEPT ![s] = With(@, t, task[k].found)]
           /\ refresh' = [refresh EXCEPT ![s] = @ \cup {t}]
    /\ Move(k, Identified(k, task[k].found.who))
    /\ UNCHANGED <<clock, tokens, policies, audit, sweep, may, minted>>

\* authorize, with the one range read of list_policies
Authorize(k) ==
    /\ task[k].pc = "authorize"
    /\ Goto(k, IF Allows(task[k].who, task[k].request) THEN "allow" ELSE "deny")
    /\ UNCHANGED <<clock, tokens, memory, policies, audit, sweep, may, minted>>

\* append_audit_record: a failure is ignored.
Log(k) ==
    /\ task[k].pc \in {"allow", "deny", "log"}
    /\ \/ audit' = audit \cup {[at |-> clock, task |-> k]}
       \/ "fail" \in may /\ audit' = audit
    /\ Goto(k, CASE task[k].pc = "allow" -> "admitted"
                 [] task[k].pc = "deny" -> "denied"
                 [] task[k].pc = "log" -> "done")
    /\ UNCHANGED <<clock, tokens, memory, policies, sweep, may, minted>>

-----------------------------------------------------------------------------
(* Sessions begin and end.                                                 *)

\* issue_tokens
IssueTokens(k, who, ttl) ==
    /\ LET s == task[k].server
           t == Cardinality(DOMAIN minted) + 1
           session == [who |-> who, expires |-> clock + Greatest(MinTtl, Least(ttl, MaxTtl))]
       IN  /\ sessions' = [sessions EXCEPT ![s] = With(@, t, session)]
           /\ refresh' = [refresh EXCEPT ![s] = @ \cup {t}]
           /\ minted' = With(minted, t, session)
           /\ Move(k, [pc |-> "persist", new |-> t])
    /\ UNCHANGED <<clock, tokens, policies, audit, sweep, may>>

Authenticate(k) ==
    /\ At(k, {"authenticate"}, "ready")
    /\ IssueTokens(k, [id |-> task[k].id, roles |-> {"admin"}, scopes |-> {}], DefaultTtl)

\* ttl is 0 when the request gives none, and so are the roles.
IssueServiceToken(k) ==
    /\ At(k, {"issue"}, "ready")
    /\ IssueTokens(k, IF task[k].who.roles = {} THEN [task[k].who EXCEPT !.roles = {"service"}]
                      ELSE task[k].who,
                   IF task[k].ttl = 0 THEN DefaultTtl ELSE task[k].ttl)

\* refresh_token has found the session.
Renew(k) ==
    /\ task[k].pc = "mint"
    /\ IssueTokens(k, task[k].who, DefaultTtl)

\* upsert_token_session; refresh_token goes on to revoke the old refresh token.
Persist(k) ==
    /\ task[k].pc = "persist"
    /\ LET t == task[k].new
       IN  /\ stored' = With(stored, t, [who |-> minted[t].who, expires |-> minted[t].expires,
                                         revoked |-> FALSE])
           /\ bindings' = bindings \cup {t}
    /\ Commits(k, IF task[k].kind = "refresh" THEN "forget" ELSE "log")
    /\ UNCHANGED <<clock, memory, policies, audit, sweep, may, minted>>

\* revoke_tokens, first in memory; a token is 0 for none.
RevokeTokens(k, access) ==
    /\ LET s == task[k].server
       IN  /\ sessions' = [sessions EXCEPT ![s] = Without(@, access)]
           /\ refresh' = [refresh EXCEPT ![s] = @ \ {access, task[k].token}]
           /\ Goto(k, IF access # 0 THEN "session" ELSE "check")
    /\ UNCHANGED <<clock, tokens, policies, audit, sweep, may, minted>>

RevokeToken(k) == At(k, {"revoke"}, "ready") /\ RevokeTokens(k, task[k].access)
RevokeRefreshed(k) == task[k].pc = "forget" /\ RevokeTokens(k, 0)

AfterAccess(k) == IF task[k].token # 0 THEN "check" ELSE "log"

\* revoke_access_token: a read and a blind write
ReadRevoked(k) ==
    /\ task[k].pc = "session"
    /\ IF task[k].access \in DOMAIN stored
       THEN Move(k, [pc |-> "revoke", found |-> stored[task[k].access]])
       ELSE Goto(k, AfterAccess(k))
    /\ UNCHANGED <<clock, tokens, memory, policies, audit, sweep, may, minted>>

WriteRevoked(k) ==
    /\ task[k].pc = "revoke"
    /\ stored' = With(stored, task[k].access, [task[k].found EXCEPT !.revoked = TRUE])
    /\ bindings' = bindings \ {task[k].access}
    /\ Commits(k, AfterAccess(k))
    /\ UNCHANGED <<clock, memory, policies, audit, sweep, may, minted>>

\* revoke_refresh_token
CheckBinding(k) ==
    /\ task[k].pc = "check"
    /\ Goto(k, IF task[k].token \in bindings THEN "clear" ELSE "log")
    /\ UNCHANGED <<clock, tokens, memory, policies, audit, sweep, may, minted>>

ClearBinding(k) ==
    /\ task[k].pc = "clear"
    /\ bindings' = bindings \ {task[k].token}
    /\ IF task[k].kind = "refresh" THEN Goto(k, "log") ELSE Commits(k, "log")
    /\ UNCHANGED <<clock, stored, memory, policies, audit, sweep, may, minted>>

-----------------------------------------------------------------------------
(* Policies.                                                               *)

ChangePolicies(k, new) ==
    /\ policies' = new
    /\ Commits(k, "log")
    /\ UNCHANGED <<clock, tokens, memory, audit, sweep, may, minted>>

\* create_policy, which replaces a policy of the same identifier
CreatePolicy(k) ==
    /\ At(k, {"create"}, "ready")
    /\ ChangePolicies(k, With(policies, task[k].id, task[k].policy))

\* delete_policy: a read, and a write where there is something
FindPolicy(k) ==
    /\ At(k, {"delete"}, "ready")
    /\ Goto(k, IF task[k].id \in DOMAIN policies THEN "delete" ELSE "log")
    /\ UNCHANGED <<clock, tokens, memory, policies, audit, sweep, may, minted>>

DeletePolicy(k) ==
    /\ task[k].pc = "delete"
    /\ ChangePolicies(k, Without(policies, task[k].id))

\* The handler check_permission asks for any principal, whose roles do not count.
CheckPermission(k) ==
    /\ At(k, {"check"}, "ready")
    /\ Goto(k, IF PolicyAllows(task[k].who, task[k].request) THEN "allow" ELSE "deny")
    /\ UNCHANGED <<clock, tokens, memory, policies, audit, sweep, may, minted>>

-----------------------------------------------------------------------------
(* The rest.                                                               *)

Over == {"ready", "done", "refused", "admitted", "denied", "lost"}

\* An access to the database fails without effect.  refresh_token ignores it
\* once the new session is stored.
DbFails(k) ==
    /\ "fail" \in may
    /\ \/ At(k, {"create", "delete", "check"}, "ready")
       \/ task[k].pc \in {"binding", "read", "authorize", "persist", "session", "revoke", "check",
                          "clear", "delete"}
    /\ task[k].pc = "authorize" => ReadsPolicies(task[k].who, task[k].request)
    /\ Goto(k, IF task[k].kind = "refresh" /\ task[k].pc \in {"check", "clear"} THEN "log"
               ELSE Refusal(k))
    /\ UNCHANGED <<clock, tokens, memory, policies, audit, sweep, may, minted>>

\* cleanup_audit_records: the oldest expired records are read, then cleared.
StartSweep ==
    /\ "sweep" \in may /\ sweep = {}
    /\ LET expired == {r \in audit : r.at <= clock - Retention}
       IN  /\ expired # {}
           /\ sweep' \in {S \in SUBSET expired :
                            /\ Cardinality(S) = Least(SweepBatch, Cardinality(expired))
                            /\ \A r \in S, q \in expired \ S : r.at <= q.at}
    /\ UNCHANGED <<clock, tokens, memory, policies, audit, task, may, minted>>

FinishSweep ==
    /\ sweep # {}
    /\ audit' = audit \ sweep
    /\ sweep' = {}
    /\ UNCHANGED <<clock, tokens, memory, policies, task, may, minted>>

Tick ==
    /\ "tick" \in may /\ clock < Horizon
    /\ clock' = clock + 1
    /\ UNCHANGED <<tokens, memory, policies, audit, sweep, task, may, minted>>

\* A process stops; another takes its place with nothing in memory.
Restart(s) ==
    /\ "restart" \in may
    /\ sessions[s] # <<>>
    /\ sessions' = [sessions EXCEPT ![s] = <<>>]
    /\ refresh' = [refresh EXCEPT ![s] = {}]
    /\ task' = [k \in DOMAIN task |-> IF task[k].server = s /\ task[k].pc \notin Over
                                      THEN [task[k] EXCEPT !.pc = "lost"] ELSE task[k]]
    /\ UNCHANGED <<clock, tokens, policies, audit, sweep, may, minted>>

Init ==
    \E s \in Scenarios :
        /\ clock = 0
        /\ minted = s.sessions
        /\ stored = [t \in DOMAIN minted |-> Override([revoked |-> FALSE], minted[t])]
        /\ bindings = DOMAIN minted
        /\ sessions = [i \in Servers |-> <<>>]
        /\ refresh = [i \in Servers |-> {}]
        /\ policies = s.policies
        /\ audit = {}
        /\ sweep = {}
        /\ task = [k \in DOMAIN s.tasks |-> Override([pc |-> "ready"], s.tasks[k])]
        /\ may = s.may
        /\ moments = [k \in DOMAIN s.tasks |-> {}]

Acts ==
    \/ \E k \in DOMAIN task :
          \/ Intercept(k) \/ Credential(k) \/ Authorize(k) \/ CheckPermission(k)
          \/ Authenticate(k) \/ IssueServiceToken(k) \/ RefreshToken(k) \/ Renew(k) \/ Persist(k)
          \/ ValidateToken(k) \/ IntrospectToken(k)
          \/ ReadBinding(k) \/ ReadSession(k) \/ Restore(k)
          \/ RevokeToken(k) \/ RevokeRefreshed(k) \/ ReadRevoked(k) \/ WriteRevoked(k)
          \/ CheckBinding(k) \/ ClearBinding(k)
          \/ CreatePolicy(k) \/ FindPolicy(k) \/ DeletePolicy(k)
          \/ Log(k) \/ DbFails(k)
    \/ StartSweep \/ FinishSweep \/ Tick
    \/ \E s \in Servers : Restart(s)

\* For the properties: the states in which a step is taken while a request
\* waits for its decision, from the step with which it begins.
Decided == {"allow", "deny"} \cup (Over \ {"ready"})
Good == {t \in DOMAIN stored : ~stored[t].revoked /\ stored[t].expires > clock}
Note ==
    moments' = [k \in DOMAIN moments |->
                  IF \/ task[k].kind \notin {"data", "credential", "check"}
                     \/ task'[k].pc = "ready" \/ task[k].pc \in Decided
                  THEN moments[k]
                  ELSE moments[k] \cup {[policies |-> policies, clock |-> clock, good |-> Good]}]

Next == Acts /\ Note

Spec == Init /\ [][Next]_vars

-----------------------------------------------------------------------------
(* Properties.                                                             *)

\* Every copy of a session, in the database and in the memory of any server,
\* has the principal, the roles and the expiry it was issued with, however
\* it got there: issued, validated, found by its refresh token, written back
\* by a revocation, or lost in a restart and read again (issue_tokens,
\* validate_bearer_token, session_from_refresh_token, revoke_access_token).
CopiesAgree ==
    /\ \A t \in DOMAIN stored : stored[t].who = minted[t].who /\ stored[t].expires = minted[t].expires
    /\ \A s \in Servers : \A t \in DOMAIN sessions[s] : sessions[s][t] = minted[t]

\* Server s has no way left to accept session t.
Gone(s, t) ==
    /\ t \in DOMAIN stored /\ stored[t].revoked
    /\ t \notin DOMAIN sessions[s]
    /\ \A k \in DOMAIN task : task[k].server = s /\ task[k].pc = "restore" => task[k].token # t

\* A revoked session that a server neither holds in memory nor is about to put
\* there stays gone for that server, whatever refreshes, validations,
\* revocations and restarts follow (revoke_access_token,
\* is_active_persistent_session).
RevocationIsFinal ==
    [][\A s \in Servers, t \in DOMAIN stored : Gone(s, t) => Gone(s, t)']_vars

\* What rules and roles mean: every segment of the resource is taken by one of
\* the rule, in order, and every segment of the rule takes one, "+" maybe more.
Fits(rule, value) ==
    \E taker \in [1..Len(value) -> 1..Len(rule)] :
        /\ {taker[j] : j \in 1..Len(value)} = 1..Len(rule)
        /\ \A i, j \in 1..Len(value) : i < j => taker[i] <= taker[j]
        /\ \A j \in 1..Len(value) : rule[taker[j]] \in {"+", "*", value[j]}
        /\ \A i, j \in 1..Len(value) : taker[i] = taker[j] => i = j \/ rule[taker[i]] = "+"
Entitled(who, r, in) ==
    \/ "admin" \in who.roles \/ "namespace-admin" \in who.roles \/ r.ns \in who.scopes
    \/ "read-only" \in who.roles /\ r.reads
    \/ /\ "read-only" \notin who.roles
       /\ \E p \in DOMAIN in : \E x \in in[p].perms :
             /\ in[p].who = who.id /\ {"*", r.action} \cap x.actions # {}
             /\ IF x.path = <<>>
                THEN <<x.database, x.namespace, x.entity>> \in
                        {"*", "+", "", r.ns[1]} \X {"*", "+", "", r.ns[2]}
                           \X {"*", "+", "", EntityType(r)}
                ELSE \E value \in {r.ns \o r.scope \o r.entity, r.ns \o r.entity} : Fits(x.path, value)

\* Whose request it is: the one the session was issued to, the principal of
\* another credential, or the one asked about, whose roles do not count.
Holder(k) ==
    CASE task[k].kind = "data" -> minted[task[k].token].who
      [] task[k].kind = "credential" -> task[k].who
      [] task[k].kind = "check" -> [task[k].who EXCEPT !.roles = {}, !.scopes = {}]

\* A request is admitted only if, at some moment of the call, its session lived
\* and the one the session was issued to was entitled to it; denied only if
\* at some moment they were not, or there were more policies than are listed;
\* and a request with a token is turned away without a database error only
\* if at some moment its session was not stored, revoked or over.  Meanwhile
\* sessions are issued, copied into memory, refreshed and revoked on any
\* server, servers restart, and policies are created, replaced and deleted
\* (authorize, check_permission, path_match_segments, validate_bearer_token).
DecisionsAreJustified ==
    \A k \in DOMAIN task :
        /\ task[k].pc \in {"allow", "admitted"} =>
              \E m \in moments[k] :
                 /\ Entitled(Holder(k), task[k].request, m.policies)
                 /\ task[k].kind = "data" =>
                       \E n \in moments[k] : n.clock < minted[task[k].token].expires
        /\ task[k].pc \in {"deny", "denied"} =>
              \E m \in moments[k] :
                 \/ ~Entitled(Holder(k), task[k].request, m.policies)
                 \/ Cardinality(DOMAIN m.policies) > PolicyLimit
        /\ task[k].pc = "refused" /\ task[k].kind = "data" /\ "fail" \notin may =>
              \E m \in moments[k] : task[k].token \notin m.good
=============================================================================
