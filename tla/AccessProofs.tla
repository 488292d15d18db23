----------------------------- MODULE AccessProofs -----------------------------
(***************************************************************************)
(* Theorems about Access, for any servers, sessions, tasks and faults.     *)
(*                                                                         *)
(* The invariant Inv follows a session from copy to copy: what a task has  *)
(* read and not yet put into memory (restore), what it has read and will   *)
(* write back (revoke), and what it has issued and not yet stored          *)
(* (persist) agree with the session as it was issued.  A session that is   *)
(* not stored yet is stored by one task only, so no write brings an ended  *)
(* session back.                                                           *)
(***************************************************************************)
EXTENDS Access, TLAPS

SessionRec(x) == x = [who |-> x.who, expires |-> x.expires]

\* A stored session has what the session was issued with, revoked or not.
StoredOf(x, m) ==
    /\ {"who", "expires", "revoked"} \subseteq DOMAIN x
    /\ x.who = m.who /\ x.expires = m.expires

Numbered ==
    /\ IsFiniteSet(DOMAIN minted)
    /\ DOMAIN minted = 1..Cardinality(DOMAIN minted)
    /\ \A t \in DOMAIN minted : SessionRec(minted[t])

StoredOK == \A t \in DOMAIN stored : t \in DOMAIN minted /\ StoredOf(stored[t], minted[t])

MemoryOK ==
    /\ sessions = [s \in Servers |-> sessions[s]]
    /\ \A s \in Servers : \A t \in DOMAIN sessions[s] :
          t \in DOMAIN minted /\ sessions[s][t] = minted[t]

\* The requests that present a token.
Bearers == {"refresh", "validate", "introspect", "data"}

\* What a task carries from one step to the next.
TaskOK(k) ==
    /\ {"kind", "server", "token", "pc"} \subseteq DOMAIN task[k]
    /\ task[k].server \in Servers
    /\ task[k].kind = "revoke" => "access" \in DOMAIN task[k]
    /\ task[k].pc \in {"binding", "read", "restore"} => task[k].kind \in Bearers
    /\ task[k].pc = "restore" =>
          /\ "found" \in DOMAIN task[k]
          /\ task[k].token \in DOMAIN minted
          /\ task[k].found = minted[task[k].token]
    /\ task[k].pc \in {"session", "revoke"} => "access" \in DOMAIN task[k]
    /\ task[k].pc = "revoke" =>
          /\ "found" \in DOMAIN task[k]
          /\ task[k].access \in DOMAIN stored
          /\ StoredOf(task[k].found, minted[task[k].access])
    /\ task[k].pc = "persist" =>
          /\ "new" \in DOMAIN task[k]
          /\ task[k].new \in DOMAIN minted
          /\ task[k].new \notin DOMAIN stored

\* No two tasks store the same new session.
OneWriter ==
    \A j, k \in DOMAIN task :
        task[j].pc = "persist" /\ task[k].pc = "persist" /\ j # k => task[j].new # task[k].new

TasksOK ==
    /\ task = [k \in DOMAIN task |-> task[k]]
    /\ \A k \in DOMAIN task : TaskOK(k)
    /\ OneWriter

Inv == Numbered /\ StoredOK /\ MemoryOK /\ TasksOK

\* The fact about finite sets the proofs use, proved from the library below.
Counting == \A S : IsFiniteSet(S) /\ S = 1..Cardinality(S) =>
               LET n == Cardinality(S) + 1
               IN  /\ n \notin S
                   /\ IsFiniteSet(S \cup {n})
                   /\ S \cup {n} = 1..Cardinality(S \cup {n})

\* The invariant implies the property.
LEMMA InvImpliesCopiesAgree ==
    ASSUME Inv
    PROVE  CopiesAgree
<1>1. \A t \in DOMAIN stored : /\ stored[t].who = minted[t].who
                               /\ stored[t].expires = minted[t].expires
  BY DEF Inv, StoredOK, StoredOf
<1> QED BY <1>1 DEF Inv, MemoryOK, CopiesAgree

----------------------------------------------------------------------------
(* What a step does to the record of its task.                             *)

Others(k) == \A j \in DOMAIN task : j # k => task'[j] = task[j]

Moved(k, f) ==
    /\ task' = [j \in DOMAIN task |-> task'[j]]
    /\ DOMAIN task' = DOMAIN task
    /\ Others(k)
    /\ DOMAIN task'[k] = DOMAIN f \cup DOMAIN task[k]
    /\ \A x \in DOMAIN f : task'[k][x] = f[x]
    /\ \A x \in DOMAIN task[k] \ DOMAIN f : task'[k][x] = task[k][x]

\* Move changes the named fields of one task.
LEMMA MoveMoves ==
    ASSUME TasksOK, NEW k \in DOMAIN task, NEW f, Move(k, f)
    PROVE  Moved(k, f)
<1>1. task = [j \in DOMAIN task |-> task[j]]
  BY DEF TasksOK
<1> DEFINE r == Override(f, task[k])
<1>2. task' = [task EXCEPT ![k] = r]
  BY DEF Move
<1>3. /\ DOMAIN r = DOMAIN f \cup DOMAIN task[k]
      /\ \A x \in DOMAIN f : r[x] = f[x]
      /\ \A x \in DOMAIN task[k] \ DOMAIN f : r[x] = task[k][x]
  BY DEF Override
<1> HIDE DEF r
<1>4. /\ task' = [j \in DOMAIN task |-> task'[j]]
      /\ DOMAIN task' = DOMAIN task
      /\ Others(k)
      /\ task'[k] = r
  BY <1>1, <1>2 DEF Others
<1> QED BY <1>3, <1>4 DEF Moved

\* The steps for which a task carries something from the step before.
Laden == {"session", "restore", "revoke", "persist"}

\* The steps of a request with a token are for such requests.
Bearing(k, f) ==
    f.pc \in {"binding", "read"} => task[k].kind \in Bearers /\ "kind" \notin DOMAIN f

\* A task that goes on with nothing in hand is as it should be.
LEMMA LightMove ==
    ASSUME TasksOK, NEW k \in DOMAIN task, NEW f, Moved(k, f),
           "pc" \in DOMAIN f, f.pc \notin Laden,
           DOMAIN f \cap {"server", "token", "access"} = {},
           "kind" \in DOMAIN f => f.kind # "revoke",
           Bearing(k, f)
    PROVE  TaskOK(k)' /\ task'[k].pc = f.pc
<1>1. TaskOK(k)
  BY DEF TasksOK
<1>2. task'[k].pc = f.pc
  BY DEF Moved
<1>3. {"kind", "server", "token", "pc"} \subseteq DOMAIN task'[k]
  BY <1>1 DEF Moved, TaskOK
<1>4. task'[k].server = task[k].server
  BY <1>1 DEF Moved, TaskOK
<1>5. task'[k].kind = "revoke" => "access" \in DOMAIN task'[k]
  BY <1>1 DEF Moved, TaskOK
<1>6. task'[k].pc \in {"binding", "read"} => task'[k].kind \in Bearers
  BY <1>1, <1>2 DEF Moved, TaskOK, Bearing
<1> QED BY <1>1, <1>2, <1>3, <1>4, <1>5, <1>6 DEF TaskOK, Laden

----------------------------------------------------------------------------
(* Tasks that do not move.                                                 *)

Grown ==
    /\ \A t \in DOMAIN minted : t \in DOMAIN minted' /\ minted'[t] = minted[t]
    /\ DOMAIN stored \subseteq DOMAIN stored'

\* A task that does not move is still as it should be.
LEMMA SameTask ==
    ASSUME NEW j, TaskOK(j), task'[j] = task[j], Grown, StoredOK,
           task[j].pc = "persist" => task[j].new \notin DOMAIN stored'
    PROVE  TaskOK(j)'
<1>1. task[j].pc = "restore" => /\ task[j].token \in DOMAIN minted'
                                /\ minted'[task[j].token] = minted[task[j].token]
  BY DEF TaskOK, Grown
<1>2. task[j].pc = "revoke" => /\ task[j].access \in DOMAIN stored'
                               /\ minted'[task[j].access] = minted[task[j].access]
  BY DEF TaskOK, Grown, StoredOK
<1>3. task[j].pc = "persist" => task[j].new \in DOMAIN minted'
  BY DEF TaskOK, Grown
<1> QED BY <1>1, <1>2, <1>3 DEF TaskOK

\* One task moves and is as it should be; then all are.
LEMMA TasksStay ==
    ASSUME TasksOK, StoredOK, Grown, NEW k \in DOMAIN task,
           task' = [j \in DOMAIN task |-> task'[j]], Others(k), TaskOK(k)',
           \A j \in DOMAIN task : j # k /\ task[j].pc = "persist" =>
               /\ task[j].new \notin DOMAIN stored'
               /\ task'[k].pc = "persist" => task[j].new # task'[k].new
    PROVE  TasksOK'
<1>1. DOMAIN task' = DOMAIN task
  OBVIOUS
<1>2. ASSUME NEW j \in DOMAIN task
      PROVE  TaskOK(j)'
  <2>1. CASE j # k
    BY <2>1, SameTask DEF TasksOK, Others
  <2> QED BY <2>1
<1>3. OneWriter'
  BY <1>1 DEF TasksOK, OneWriter, Others
<1> QED BY <1>1, <1>2, <1>3 DEF TasksOK

----------------------------------------------------------------------------
(* A server for which a revoked session is gone.                           *)

GoneStays == \A s \in Servers, t \in DOMAIN stored : Gone(s, t) => Gone(s, t)'

RevokedStays ==
    \A t \in DOMAIN stored : t \in DOMAIN stored' /\ (stored[t].revoked => stored'[t].revoked)
NoneRestored == \A s \in Servers : DOMAIN sessions'[s] \subseteq DOMAIN sessions[s]
NoneFound ==
    /\ DOMAIN task' = DOMAIN task
    /\ \A j \in DOMAIN task : task'[j].pc = "restore" =>
          /\ task[j].pc = "restore"
          /\ task'[j].server = task[j].server
          /\ task'[j].token = task[j].token

\* When nothing is restored and nothing read, what is gone stays gone.
LEMMA GoneFromParts ==
    ASSUME RevokedStays, NoneRestored, NoneFound
    PROVE  GoneStays
BY DEF RevokedStays, NoneRestored, NoneFound, GoneStays, Gone

\* A move that leaves the sessions alone.
LEMMA QuietMove ==
    ASSUME Inv, NEW k \in DOMAIN task, NEW f, Move(k, f), UNCHANGED <<stored, sessions, minted>>,
           "pc" \in DOMAIN f, f.pc \notin Laden,
           DOMAIN f \cap {"server", "token", "access"} = {},
           "kind" \in DOMAIN f => f.kind # "revoke",
           Bearing(k, f)
    PROVE  Inv' /\ GoneStays
<1>0. TasksOK /\ StoredOK
  BY DEF Inv
<1>1. Moved(k, f)
  BY <1>0, MoveMoves
<1>2. TaskOK(k)' /\ task'[k].pc = f.pc
  BY <1>0, <1>1, LightMove
<1>3. Grown
  BY DEF Grown
<1>4. \A j \in DOMAIN task : j # k /\ task[j].pc = "persist" => task[j].new \notin DOMAIN stored'
  BY <1>0 DEF TasksOK, TaskOK
<1>5. task'[k].pc # "persist" /\ task'[k].pc # "restore"
  BY <1>2 DEF Laden
<1>6. /\ task' = [j \in DOMAIN task |-> task'[j]]
      /\ DOMAIN task' = DOMAIN task
      /\ Others(k)
  BY <1>1 DEF Moved
<1>7. TasksOK'
  BY <1>0, <1>2, <1>3, <1>4, <1>5, <1>6, TasksStay
<1>8. NoneFound
  BY <1>5, <1>6 DEF NoneFound, Others
<1>9. RevokedStays /\ NoneRestored
  BY DEF RevokedStays, NoneRestored
<1>10. Numbered' /\ StoredOK' /\ MemoryOK'
  BY DEF Inv, Numbered, StoredOK, MemoryOK
<1> QED BY <1>7, <1>8, <1>9, <1>10, GoneFromParts DEF Inv

\* The same for a step that only goes on.
LEMMA LightGoto ==
    ASSUME Inv, NEW k \in DOMAIN task, NEW x, Goto(k, x), x \notin Laden,
           x \in {"binding", "read"} => task[k].kind \in Bearers,
           UNCHANGED <<stored, sessions, minted>>
    PROVE  Inv' /\ GoneStays
<1> DEFINE f == [pc |-> x]
<1>1. DOMAIN f = {"pc"} /\ f.pc = x /\ Bearing(k, f)
  BY DEF Bearing
<1>2. Move(k, f)
  BY DEF Goto
<1> HIDE DEF f
<1> QED BY <1>1, <1>2, QuietMove

----------------------------------------------------------------------------
(* The steps that neither read nor write sessions for later.               *)

CarriesNothing(f) ==
    /\ "pc" \in DOMAIN f
    /\ f.pc \notin Laden
    /\ DOMAIN f \cap {"server", "token", "access", "kind"} = {}

\* Once the principal is known, a request carries no session.
LEMMA IdentifiedCarries ==
    ASSUME NEW k, NEW who, task[k].kind \in Bearers
    PROVE  CarriesNothing(Identified(k, who))
<1>1. CASE task[k].kind = "refresh"
  <2>1. Identified(k, who) = [pc |-> "mint", who |-> who]
    BY <1>1 DEF Identified
  <2> QED BY <2>1 DEF CarriesNothing, Laden
<1>2. CASE task[k].kind \in {"validate", "introspect"}
  <2>1. Identified(k, who) = [pc |-> "log"]
    BY <1>2 DEF Identified
  <2> QED BY <2>1 DEF CarriesNothing, Laden
<1>3. CASE task[k].kind = "data"
  <2>1. Identified(k, who) = [pc |-> "authorize", who |-> who]
    BY <1>3 DEF Identified
  <2> QED BY <2>1 DEF CarriesNothing, Laden
<1> QED BY <1>1, <1>2, <1>3 DEF Bearers

\* validate_bearer_token looks into memory.
LEMMA LookupStep ==
    ASSUME Inv, NEW k \in DOMAIN task, Lookup(k),
           task[k].kind \in Bearers
    PROVE  Inv' /\ GoneStays
<1>1. UNCHANGED <<stored, sessions, minted>>
  BY DEF Lookup, tokens, memory
<1>2. PICK f : Move(k, f) /\ \/ \E who : f = Identified(k, who)
                             \/ f = [pc |-> "binding"]
                             \/ f = [pc |-> "read"]
  <2> DEFINE s == task[k].server
             t == task[k].token
             c == Alive(s, t) /\ (task[k].kind = "refresh" => t \in refresh[s])
             g == [pc |-> IF task[k].kind = "refresh" THEN "binding" ELSE "read"]
             f == IF c THEN Identified(k, sessions[s][t].who) ELSE g
  <2>1. Move(k, f)
    BY DEF Lookup
  <2>2. g = [pc |-> "binding"] \/ g = [pc |-> "read"]
    OBVIOUS
  <2>3. f = Identified(k, sessions[s][t].who) \/ f = g
    <3> HIDE DEF c, g
    <3> QED OBVIOUS
  <2> HIDE DEF f, g
  <2> QED BY <2>1, <2>2, <2>3, Zenon
<1>3. CarriesNothing(f)
  <2>1. ASSUME NEW who, f = Identified(k, who)
        PROVE  CarriesNothing(f)
    BY <2>1, IdentifiedCarries
  <2>2. ASSUME f = [pc |-> "binding"] \/ f = [pc |-> "read"]
        PROVE  CarriesNothing(f)
    BY <2>2 DEF CarriesNothing, Laden
  <2> QED BY <1>2, <2>1, <2>2
<1>4. Bearing(k, f)
  BY <1>3 DEF Bearing, CarriesNothing
<1> QED BY <1>1, <1>2, <1>3, <1>4, QuietMove DEF CarriesNothing

\* The steps that read and write no session.
LEMMA QuietSteps ==
    ASSUME Inv, NEW k \in DOMAIN task,
           \/ Intercept(k) \/ ValidateToken(k) \/ IntrospectToken(k) \/ RefreshToken(k)
           \/ ReadBinding(k) \/ Authorize(k) \/ Log(k) \/ CheckBinding(k) \/ ClearBinding(k)
           \/ FindPolicy(k) \/ DbFails(k)
    PROVE  Inv' /\ GoneStays
<1>1. CASE Intercept(k) \/ ValidateToken(k) \/ IntrospectToken(k) \/ RefreshToken(k)
  BY <1>1, LookupStep DEF Intercept, ValidateToken, IntrospectToken, RefreshToken, At, Bearers
<1>2. CASE ReadBinding(k) \/ CheckBinding(k) \/ FindPolicy(k)
  <2>1. \E x \in {"read", "refused", "clear", "log", "delete"} :
           Goto(k, x) /\ (x = "read" => task[k].pc = "binding")
    BY <1>2 DEF ReadBinding, CheckBinding, FindPolicy
  <2>3. task[k].pc = "binding" => task[k].kind \in Bearers
    BY DEF Inv, TasksOK, TaskOK
  <2>2. UNCHANGED <<stored, sessions, minted>>
    BY <1>2 DEF ReadBinding, CheckBinding, FindPolicy, tokens, memory
  <2> QED BY <2>1, <2>2, <2>3, LightGoto DEF Laden
<1>3. CASE Authorize(k) \/ Log(k)
  <2>1. \E x \in {"allow", "deny", "admitted", "denied", "done"} : Goto(k, x)
    BY <1>3 DEF Authorize, Log
  <2>2. UNCHANGED <<stored, sessions, minted>>
    BY <1>3 DEF Authorize, Log, tokens, memory
  <2> QED BY <2>1, <2>2, LightGoto DEF Laden
<1>4. CASE ClearBinding(k) \/ DbFails(k)
  <2>1. \E x \in {"log", "refused"} : Goto(k, x)
    BY <1>4 DEF ClearBinding, Commits, DbFails, Refusal
  <2>2. UNCHANGED <<stored, sessions, minted>>
    BY <1>4 DEF ClearBinding, DbFails, tokens, memory
  <2> QED BY <2>1, <2>2, LightGoto DEF Laden
<1> QED BY <1>1, <1>2, <1>3, <1>4

\* The steps of other credentials, and of policies.
LEMMA PolicySteps ==
    ASSUME Inv, NEW k \in DOMAIN task,
           Credential(k) \/ CheckPermission(k) \/ CreatePolicy(k) \/ DeletePolicy(k)
    PROVE  Inv' /\ GoneStays
<1>1. UNCHANGED <<stored, sessions, minted>>
  BY DEF Credential, CheckPermission, CreatePolicy, DeletePolicy, ChangePolicies, tokens, memory
<1>2. \E x \in {"authorize", "allow", "deny", "log", "refused"} : Goto(k, x)
  <2>1. CASE Credential(k) \/ CheckPermission(k)
    BY <2>1 DEF Credential, CheckPermission
  <2>2. CASE CreatePolicy(k) \/ DeletePolicy(k)
    BY <2>2 DEF CreatePolicy, DeletePolicy, ChangePolicies, Commits
  <2> QED BY <2>1, <2>2
<1> QED BY <1>1, <1>2, LightGoto DEF Laden

----------------------------------------------------------------------------
(* Sessions are read.                                                      *)

\* A session is found, so it is not revoked.
LEMMA FoundStep ==
    ASSUME Inv, NEW k \in DOMAIN task, NEW t, t = task[k].token, t \in DOMAIN stored,
           ~stored[t].revoked, task[k].pc = "read", UNCHANGED <<stored, sessions, minted>>,
           Move(k, [pc |-> "restore", found |-> [who |-> stored[t].who,
                                                 expires |-> stored[t].expires]])
    PROVE  Inv' /\ GoneStays
<1>0. TasksOK /\ StoredOK /\ TaskOK(k) /\ Numbered
  BY DEF Inv, TasksOK
<1> DEFINE x == [who |-> stored[t].who, expires |-> stored[t].expires]
           f == [pc |-> "restore", found |-> x]
<1>1. x = minted[t] /\ t \in DOMAIN minted
  <2>1. stored[t].who = minted[t].who /\ stored[t].expires = minted[t].expires
    BY <1>0 DEF StoredOK, StoredOf
  <2>2. SessionRec(minted[t]) /\ t \in DOMAIN minted
    BY <1>0 DEF Numbered, StoredOK
  <2>3. x = [who |-> minted[t].who, expires |-> minted[t].expires]
    BY <2>1
  <2> QED BY <2>2, <2>3 DEF SessionRec
<1> HIDE DEF x
<1>2. Moved(k, f)
  BY <1>0, MoveMoves DEF x
<1>3. DOMAIN f = {"pc", "found"} /\ f.pc = "restore" /\ f.found = x
  OBVIOUS
<1> HIDE DEF f
<1>4. /\ task'[k].pc = "restore" /\ task'[k].found = x
      /\ task'[k].token = t /\ task'[k].server = task[k].server /\ task'[k].kind = task[k].kind
      /\ DOMAIN task'[k] = {"pc", "found"} \cup DOMAIN task[k]
  BY <1>0, <1>2, <1>3 DEF Moved, TaskOK
<1>5. TaskOK(k)'
  BY <1>0, <1>1, <1>4 DEF TaskOK
<1>6. /\ task' = [j \in DOMAIN task |-> task'[j]]
      /\ DOMAIN task' = DOMAIN task
      /\ Others(k)
  BY <1>2 DEF Moved
<1>7. Grown
  BY DEF Grown
<1>8. \A j \in DOMAIN task : j # k /\ task[j].pc = "persist" => task[j].new \notin DOMAIN stored'
  BY <1>0 DEF TasksOK, TaskOK
<1>9. TasksOK'
  BY <1>0, <1>4, <1>5, <1>6, <1>7, <1>8, TasksStay
<1>10. Numbered' /\ StoredOK' /\ MemoryOK'
  BY DEF Inv, Numbered, StoredOK, MemoryOK
<1>11. GoneStays
  BY <1>4, <1>6 DEF GoneStays, Gone, Others
<1> QED BY <1>9, <1>10, <1>11 DEF Inv

\* get_token_session: the session is found or refused.
LEMMA ReadSessionStep ==
    ASSUME Inv, NEW k \in DOMAIN task, ReadSession(k)
    PROVE  Inv' /\ GoneStays
<1>1. UNCHANGED <<stored, sessions, minted>>
  BY DEF ReadSession, tokens, memory
<1> DEFINE t == task[k].token
<1>2. CASE t \in DOMAIN stored /\ ~stored[t].revoked /\ stored[t].expires > clock
  <2>1. task[k].pc = "read"
    BY DEF ReadSession
  <2>2. Move(k, [pc |-> "restore", found |-> [who |-> stored[t].who,
                                              expires |-> stored[t].expires]])
    BY <1>2 DEF ReadSession
  <2> HIDE DEF t
  <2> QED BY <1>1, <1>2, <2>1, <2>2, FoundStep DEF t
<1>3. CASE ~(t \in DOMAIN stored /\ ~stored[t].revoked /\ stored[t].expires > clock)
  <2>1. Goto(k, Refusal(k))
    BY <1>3 DEF ReadSession
  <2>2. Refusal(k) \notin Laden
    BY DEF Refusal, Laden
  <2> QED BY <1>1, <2>1, <2>2, LightGoto DEF Refusal
<1> QED BY <1>2, <1>3

\* A server takes a session into its memory.
Takes(s, t, x) == sessions' = [sessions EXCEPT ![s] = With(@, t, x)]

Remembers(s, t, x) ==
    /\ sessions' = [r \in Servers |-> sessions'[r]]
    /\ \A r \in Servers : r # s => sessions'[r] = sessions[r]
    /\ DOMAIN sessions'[s] = DOMAIN sessions[s] \cup {t}
    /\ sessions'[s][t] = x
    /\ \A u \in DOMAIN sessions[s] : u # t => sessions'[s][u] = sessions[s][u]

\* What is taken in is there, the rest stays.
LEMMA Remembered ==
    ASSUME MemoryOK, NEW s \in Servers, NEW t, NEW x,
           Takes(s, t, x)
    PROVE  Remembers(s, t, x)
<1>1. sessions = [r \in Servers |-> sessions[r]]
  BY DEF MemoryOK
<1> DEFINE w == With(sessions[s], t, x)
<1>2. /\ DOMAIN w = DOMAIN sessions[s] \cup {t}
      /\ w[t] = x
      /\ \A u \in DOMAIN sessions[s] : u # t => w[u] = sessions[s][u]
  BY DEF With
<1> HIDE DEF w
<1>3. sessions' = [sessions EXCEPT ![s] = w]
  BY DEF w, Takes
<1>4. /\ sessions' = [r \in Servers |-> sessions'[r]]
      /\ \A r \in Servers : r # s => sessions'[r] = sessions[r]
      /\ sessions'[s] = w
  BY <1>1, <1>3
<1> QED BY <1>2, <1>4 DEF Remembers

\* The session read before goes into memory: it was not gone.
LEMMA RestoreStep ==
    ASSUME Inv, NEW k \in DOMAIN task, Restore(k)
    PROVE  Inv' /\ GoneStays
<1> DEFINE s == task[k].server
           t == task[k].token
           f == Identified(k, task[k].found.who)
<1>0. TasksOK /\ StoredOK /\ TaskOK(k) /\ MemoryOK
  BY DEF Inv, TasksOK
<1>1. UNCHANGED <<stored, minted>> /\ task[k].pc = "restore"
  BY DEF Restore, tokens
<1>2. /\ s \in Servers /\ t \in DOMAIN minted /\ task[k].found = minted[t]
      /\ task[k].kind \in Bearers
  BY <1>0, <1>1 DEF TaskOK
<1> DEFINE x == task[k].found
<1>3. Takes(s, t, x) /\ Move(k, f)
  BY DEF Restore, Takes
<1>4. CarriesNothing(f)
  BY <1>2, IdentifiedCarries
<1> HIDE DEF f
<1>5. Moved(k, f)
  BY <1>0, <1>3, MoveMoves
<1>6. TaskOK(k)' /\ task'[k].pc = f.pc
  <2>1. Bearing(k, f)
    BY <1>2, <1>4 DEF Bearing, CarriesNothing
  <2> QED BY <1>0, <1>4, <1>5, <2>1, LightMove DEF CarriesNothing
<1>7. /\ task' = [j \in DOMAIN task |-> task'[j]]
      /\ DOMAIN task' = DOMAIN task
      /\ Others(k)
      /\ task'[k].pc \notin Laden
  BY <1>4, <1>5, <1>6 DEF Moved, CarriesNothing
<1>8. Grown
  BY <1>1 DEF Grown
<1>9. \A j \in DOMAIN task : j # k /\ task[j].pc = "persist" => task[j].new \notin DOMAIN stored'
  BY <1>0, <1>1 DEF TasksOK, TaskOK
<1>10. TasksOK'
  BY <1>0, <1>6, <1>7, <1>8, <1>9, TasksStay DEF Laden
<1>11. Remembers(s, t, x)
  BY <1>0, <1>2, <1>3, Remembered
<1>12. MemoryOK'
  <2> HIDE DEF s, t
  <2> QED BY <1>0, <1>1, <1>2, <1>11 DEF MemoryOK, Remembers
<1>13. Numbered' /\ StoredOK'
  BY <1>1 DEF Inv, Numbered, StoredOK
<1>14. GoneStays
  <2> SUFFICES ASSUME NEW r \in Servers, NEW u \in DOMAIN stored, Gone(r, u)
               PROVE  Gone(r, u)'
    BY DEF GoneStays
  <2>1. ~(r = s /\ u = t)
    BY <1>1 DEF Gone
  <2>2. u \notin DOMAIN sessions'[r]
    <3> HIDE DEF s, t
    <3> QED BY <1>11, <2>1 DEF Gone, Remembers
  <2>3. \A j \in DOMAIN task' : task'[j].server = r /\ task'[j].pc = "restore" => task'[j].token # u
    BY <1>7 DEF Gone, Others, Laden
  <2> QED BY <1>1, <2>2, <2>3 DEF Gone
<1> QED BY <1>10, <1>12, <1>13, <1>14 DEF Inv


----------------------------------------------------------------------------
(* Sessions begin.                                                         *)

\* The new session of issue_tokens.
Mints(t, x) ==
    /\ DOMAIN minted' = DOMAIN minted \cup {t}
    /\ minted'[t] = x
    /\ \A u \in DOMAIN minted : u # t => minted'[u] = minted[u]

\* A session number is new.
LEMMA NewNumber ==
    ASSUME Counting, Numbered, NEW t, t = Cardinality(DOMAIN minted) + 1, NEW x, SessionRec(x),
           Mints(t, x)
    PROVE  t \notin DOMAIN minted /\ Numbered'
<1>1. /\ t \notin DOMAIN minted
      /\ IsFiniteSet(DOMAIN minted \cup {t})
      /\ DOMAIN minted \cup {t} = 1..Cardinality(DOMAIN minted \cup {t})
  BY DEF Counting, Numbered
<1>2. \A u \in DOMAIN minted' : SessionRec(minted'[u])
  BY DEF Numbered, Mints
<1> QED BY <1>1, <1>2 DEF Numbered, Mints

\* issue_tokens, in memory.
LEMMA IssueStep ==
    ASSUME Counting, Inv, NEW k \in DOMAIN task, NEW who, NEW ttl, IssueTokens(k, who, ttl)
    PROVE  Inv' /\ GoneStays
<1> DEFINE s == task[k].server
           t == Cardinality(DOMAIN minted) + 1
           x == [who |-> who, expires |-> clock + Greatest(MinTtl, Least(ttl, MaxTtl))]
           f == [pc |-> "persist", new |-> t]
<1>0. Numbered /\ StoredOK /\ MemoryOK /\ TasksOK /\ TaskOK(k) /\ s \in Servers
  BY DEF Inv, TasksOK, TaskOK
<1>1. Takes(s, t, x) /\ Move(k, f) /\ UNCHANGED stored /\ minted' = With(minted, t, x)
  BY DEF IssueTokens, Takes, tokens
<1>2. Mints(t, x)
  <2> HIDE DEF t, x
  <2> QED BY <1>1 DEF With, Mints
<1>3. SessionRec(x)
  BY DEF SessionRec
<1> HIDE DEF x
<1>4. t \notin DOMAIN minted /\ Numbered'
  BY <1>0, <1>2, <1>3, NewNumber
<1> HIDE DEF t
<1>5. t \notin DOMAIN stored
  BY <1>0, <1>4 DEF StoredOK
<1>6. StoredOK'
  BY <1>0, <1>1, <1>2, <1>4 DEF StoredOK, Mints
<1>7. Remembers(s, t, x)
  BY <1>0, <1>1, Remembered
<1>8. MemoryOK'
  <2> HIDE DEF s
  <2> QED BY <1>0, <1>2, <1>4, <1>7 DEF MemoryOK, Remembers, Mints
<1>9. Moved(k, f)
  BY <1>0, <1>1, MoveMoves
<1>10. DOMAIN f = {"pc", "new"} /\ f.pc = "persist" /\ f.new = t
  OBVIOUS
<1> HIDE DEF f
<1>11. /\ task'[k].pc = "persist" /\ task'[k].new = t
       /\ task'[k].server = task[k].server /\ task'[k].kind = task[k].kind
       /\ DOMAIN task'[k] = {"pc", "new"} \cup DOMAIN task[k]
  BY <1>0, <1>9, <1>10 DEF Moved, TaskOK
<1>12. TaskOK(k)'
  BY <1>0, <1>1, <1>2, <1>5, <1>11 DEF TaskOK, Mints
<1>13. /\ task' = [j \in DOMAIN task |-> task'[j]]
       /\ DOMAIN task' = DOMAIN task
       /\ Others(k)
  BY <1>9 DEF Moved
<1>14. Grown
  BY <1>1, <1>2, <1>4 DEF Grown, Mints
<1>15. \A j \in DOMAIN task : j # k /\ task[j].pc = "persist" =>
          task[j].new \notin DOMAIN stored' /\ task[j].new # task'[k].new
  BY <1>0, <1>1, <1>4, <1>11 DEF TasksOK, TaskOK
<1>16. TasksOK'
  BY <1>0, <1>12, <1>13, <1>14, <1>15, TasksStay
<1>17. GoneStays
  <2> SUFFICES ASSUME NEW r \in Servers, NEW u \in DOMAIN stored, Gone(r, u)
               PROVE  Gone(r, u)'
    BY DEF GoneStays
  <2>1. u # t
    BY <1>5
  <2>2. u \notin DOMAIN sessions'[r]
    <3> HIDE DEF s
    <3> QED BY <1>7, <2>1 DEF Gone, Remembers
  <2>3. \A j \in DOMAIN task' : task'[j].server = r /\ task'[j].pc = "restore" => task'[j].token # u
    BY <1>11, <1>13 DEF Gone, Others
  <2> QED BY <1>1, <2>2, <2>3 DEF Gone
<1> QED BY <1>4, <1>6, <1>8, <1>16, <1>17 DEF Inv

\* upsert_token_session: the number was not stored before.
LEMMA PersistStep ==
    ASSUME Inv, NEW k \in DOMAIN task, Persist(k)
    PROVE  Inv' /\ GoneStays
<1> DEFINE t == task[k].new
           x == [who |-> minted[t].who, expires |-> minted[t].expires, revoked |-> FALSE]
<1>0. Numbered /\ StoredOK /\ MemoryOK /\ TasksOK /\ TaskOK(k) /\ task[k].pc = "persist"
  BY DEF Inv, TasksOK, Persist
<1>1. t \in DOMAIN minted /\ t \notin DOMAIN stored
  BY <1>0 DEF TaskOK
<1>2. UNCHANGED <<sessions, minted>> /\ stored' = With(stored, t, x)
  BY DEF Persist, memory
<1>3. StoredOf(x, minted[t])
  BY DEF StoredOf
<1>4. PICK y \in {"forget", "log", "refused"} : Goto(k, y)
  BY DEF Persist, Commits
<1> HIDE DEF x
<1>5. /\ DOMAIN stored' = DOMAIN stored \cup {t}
      /\ stored'[t] = x
      /\ \A u \in DOMAIN stored : stored'[u] = stored[u]
  <2> HIDE DEF t
  <2> QED BY <1>1, <1>2 DEF With
<1>6. StoredOK'
  <2> HIDE DEF t
  <2> QED BY <1>0, <1>1, <1>2, <1>3, <1>5 DEF StoredOK
<1> DEFINE f == [pc |-> y]
<1>7. DOMAIN f = {"pc"} /\ f.pc = y /\ Move(k, f) /\ Bearing(k, f) /\ f.pc \notin Laden
  BY <1>4 DEF Goto, Bearing, Laden
<1> HIDE DEF f
<1>8. Moved(k, f)
  BY <1>0, <1>7, MoveMoves
<1>9. Grown
  BY <1>2, <1>5 DEF Grown
<1>10. TaskOK(k)' /\ task'[k].pc = y
  BY <1>0, <1>7, <1>8, LightMove
<1>11. /\ task' = [j \in DOMAIN task |-> task'[j]]
       /\ DOMAIN task' = DOMAIN task
       /\ Others(k)
  BY <1>8 DEF Moved
<1>12. \A j \in DOMAIN task : j # k /\ task[j].pc = "persist" => task[j].new \notin DOMAIN stored'
  BY <1>0, <1>5 DEF TasksOK, TaskOK, OneWriter
<1>13. TasksOK'
  BY <1>0, <1>4, <1>9, <1>10, <1>11, <1>12, TasksStay
<1>14. Numbered' /\ MemoryOK'
  BY <1>0, <1>2 DEF Numbered, MemoryOK
<1>15. RevokedStays /\ NoneRestored
  BY <1>2, <1>5 DEF RevokedStays, NoneRestored
<1>16. NoneFound
  BY <1>4, <1>10, <1>11 DEF NoneFound, Others
<1> QED BY <1>6, <1>13, <1>14, <1>15, <1>16, GoneFromParts DEF Inv


----------------------------------------------------------------------------
(* Sessions end.                                                           *)

GoesTo(k, y) ==
    /\ task' = [j \in DOMAIN task |-> task'[j]]
    /\ DOMAIN task' = DOMAIN task
    /\ Others(k)
    /\ task'[k].pc = y
    /\ DOMAIN task'[k] = {"pc"} \cup DOMAIN task[k]
    /\ \A x \in DOMAIN task[k] \ {"pc"} : task'[k][x] = task[k][x]

\* Goto changes the step of one task.
LEMMA GotoGoes ==
    ASSUME TasksOK, NEW k \in DOMAIN task, NEW y, Goto(k, y)
    PROVE  GoesTo(k, y)
<1> DEFINE f == [pc |-> y]
<1>1. DOMAIN f = {"pc"} /\ f.pc = y /\ Move(k, f)
  BY DEF Goto
<1> HIDE DEF f
<1>2. Moved(k, f)
  BY <1>1, MoveMoves
<1> QED BY <1>1, <1>2 DEF Moved, GoesTo

\* revoke_tokens, in memory.
LEMMA RevokeTokensStep ==
    ASSUME Inv, NEW k \in DOMAIN task, NEW access, RevokeTokens(k, access),
           access # 0 => "access" \in DOMAIN task[k]
    PROVE  Inv' /\ GoneStays
<1> DEFINE s == task[k].server
           y == IF access # 0 THEN "session" ELSE "check"
           w == Without(sessions[s], access)
<1>0. Numbered /\ StoredOK /\ MemoryOK /\ TasksOK /\ TaskOK(k) /\ s \in Servers
  BY DEF Inv, TasksOK, TaskOK
<1>1. UNCHANGED <<stored, minted>> /\ sessions' = [sessions EXCEPT ![s] = w] /\ Goto(k, y)
  BY DEF RevokeTokens, tokens
<1>2. y \in {"session", "check"} /\ (y = "session" => "access" \in DOMAIN task[k])
  OBVIOUS
<1> HIDE DEF y
<1>3. GoesTo(k, y)
  BY <1>0, <1>1, GotoGoes
<1>4. TaskOK(k)'
  BY <1>0, <1>2, <1>3 DEF GoesTo, TaskOK
<1>5. Grown
  BY <1>1 DEF Grown
<1>6. \A j \in DOMAIN task : j # k /\ task[j].pc = "persist" => task[j].new \notin DOMAIN stored'
  BY <1>0, <1>1 DEF TasksOK, TaskOK
<1>7. /\ task' = [j \in DOMAIN task |-> task'[j]]
      /\ DOMAIN task' = DOMAIN task
      /\ Others(k)
      /\ task'[k].pc \notin {"persist", "restore"}
  BY <1>2, <1>3 DEF GoesTo
<1>8. TasksOK'
  BY <1>0, <1>4, <1>5, <1>6, <1>7, TasksStay
<1>9. /\ DOMAIN w \subseteq DOMAIN sessions[s]
      /\ \A t \in DOMAIN w : w[t] = sessions[s][t]
  BY DEF Without
<1> HIDE DEF w
<1>10. /\ sessions' = [r \in Servers |-> sessions'[r]]
       /\ \A r \in Servers : r # s => sessions'[r] = sessions[r]
       /\ sessions'[s] = w
  <2> HIDE DEF s
  <2> QED BY <1>0, <1>1 DEF MemoryOK
<1>11. MemoryOK'
  <2> HIDE DEF s
  <2> QED BY <1>0, <1>1, <1>9, <1>10 DEF MemoryOK
<1>12. RevokedStays /\ NoneRestored
  <2> HIDE DEF s
  <2> QED BY <1>1, <1>9, <1>10 DEF RevokedStays, NoneRestored
<1>13. NoneFound
  BY <1>7 DEF NoneFound, Others
<1>14. Numbered' /\ StoredOK'
  BY <1>0, <1>1 DEF Numbered, StoredOK
<1> QED BY <1>8, <1>11, <1>12, <1>13, <1>14, GoneFromParts DEF Inv

\* revoke_access_token reads the session.
LEMMA ReadRevokedStep ==
    ASSUME Inv, NEW k \in DOMAIN task, ReadRevoked(k)
    PROVE  Inv' /\ GoneStays
<1> DEFINE t == task[k].access
<1>0. Numbered /\ StoredOK /\ MemoryOK /\ TasksOK /\ TaskOK(k) /\ task[k].pc = "session"
  BY DEF Inv, TasksOK, ReadRevoked
<1>1. UNCHANGED <<stored, sessions, minted>>
  BY DEF ReadRevoked, tokens, memory
<1>2. CASE t \notin DOMAIN stored
  <2>1. Goto(k, AfterAccess(k))
    BY <1>2 DEF ReadRevoked
  <2>2. AfterAccess(k) \in {"check", "log"}
    BY DEF AfterAccess
  <2> QED BY <1>1, <2>1, <2>2, LightGoto DEF Laden
<1>3. CASE t \in DOMAIN stored
  <2> DEFINE x == stored[t]
             f == [pc |-> "revoke", found |-> x]
  <2>1. Move(k, f)
    BY <1>3 DEF ReadRevoked
  <2> HIDE DEF x
  <2>2. DOMAIN f = {"pc", "found"} /\ f.pc = "revoke" /\ f.found = x
    OBVIOUS
  <2> HIDE DEF f
  <2>3. Moved(k, f)
    BY <1>0, <2>1, MoveMoves
  <2>4. /\ task'[k].pc = "revoke" /\ task'[k].found = x
        /\ "access" \in DOMAIN task[k] /\ task'[k].access = t
        /\ task'[k].server = task[k].server /\ task'[k].kind = task[k].kind
        /\ DOMAIN task'[k] = {"pc", "found"} \cup DOMAIN task[k]
    BY <1>0, <2>2, <2>3 DEF Moved, TaskOK
  <2>5. StoredOf(x, minted[t])
    BY <1>0, <1>3 DEF StoredOK, x
  <2>6. TaskOK(k)'
    BY <1>0, <1>1, <1>3, <2>4, <2>5 DEF TaskOK, StoredOf
  <2>7. Grown
    BY <1>1 DEF Grown
  <2>8. \A j \in DOMAIN task : j # k /\ task[j].pc = "persist" => task[j].new \notin DOMAIN stored'
    BY <1>0, <1>1 DEF TasksOK, TaskOK
  <2>9. /\ task' = [j \in DOMAIN task |-> task'[j]]
        /\ DOMAIN task' = DOMAIN task
        /\ Others(k)
    BY <2>3 DEF Moved
  <2>10. TasksOK'
    BY <1>0, <2>4, <2>6, <2>7, <2>8, <2>9, TasksStay
  <2>11. Numbered' /\ StoredOK' /\ MemoryOK'
    BY <1>0, <1>1 DEF Numbered, StoredOK, MemoryOK
  <2>12. RevokedStays /\ NoneRestored /\ NoneFound
    BY <1>1, <2>4, <2>9 DEF RevokedStays, NoneRestored, NoneFound, Others
  <2> QED BY <2>10, <2>11, <2>12, GoneFromParts DEF Inv
<1> QED BY <1>2, <1>3

\* revoke_access_token writes it back, revoked.
LEMMA WriteRevokedStep ==
    ASSUME Inv, NEW k \in DOMAIN task, WriteRevoked(k)
    PROVE  Inv' /\ GoneStays
<1> DEFINE t == task[k].access
           x == [task[k].found EXCEPT !.revoked = TRUE]
<1>0. Numbered /\ StoredOK /\ MemoryOK /\ TasksOK /\ TaskOK(k) /\ task[k].pc = "revoke"
  BY DEF Inv, TasksOK, WriteRevoked
<1>1. t \in DOMAIN stored /\ StoredOf(task[k].found, minted[t])
  BY <1>0 DEF TaskOK
<1>2. UNCHANGED <<sessions, minted>> /\ stored' = With(stored, t, x)
  BY DEF WriteRevoked, memory
<1>3. StoredOf(x, minted[t]) /\ x.revoked = TRUE
  BY <1>1 DEF StoredOf
<1>4. PICK y \in {"check", "log", "refused"} : Goto(k, y)
  BY DEF WriteRevoked, Commits, AfterAccess
<1> HIDE DEF x
<1>5. /\ DOMAIN stored' = DOMAIN stored
      /\ stored'[t] = x
      /\ \A u \in DOMAIN stored : u # t => stored'[u] = stored[u]
  <2> HIDE DEF t
  <2> QED BY <1>1, <1>2 DEF With
<1>6. StoredOK'
  <2> HIDE DEF t
  <2> QED BY <1>0, <1>1, <1>2, <1>3, <1>5 DEF StoredOK
<1>7. GoesTo(k, y)
  BY <1>0, <1>4, GotoGoes
<1>8. TaskOK(k)'
  BY <1>0, <1>4, <1>7 DEF GoesTo, TaskOK
<1>9. Grown
  BY <1>2, <1>5 DEF Grown
<1>10. /\ task' = [j \in DOMAIN task |-> task'[j]]
       /\ DOMAIN task' = DOMAIN task
       /\ Others(k)
       /\ task'[k].pc \notin {"persist", "restore"}
  BY <1>4, <1>7 DEF GoesTo
<1>11. \A j \in DOMAIN task : j # k /\ task[j].pc = "persist" => task[j].new \notin DOMAIN stored'
  BY <1>0, <1>5 DEF TasksOK, TaskOK
<1>12. TasksOK'
  BY <1>0, <1>8, <1>9, <1>10, <1>11, TasksStay
<1>13. Numbered' /\ MemoryOK'
  BY <1>0, <1>2 DEF Numbered, MemoryOK
<1>14. RevokedStays /\ NoneRestored
  BY <1>2, <1>3, <1>5 DEF RevokedStays, NoneRestored
<1>15. NoneFound
  BY <1>10 DEF NoneFound, Others
<1> QED BY <1>6, <1>12, <1>13, <1>14, <1>15, GoneFromParts DEF Inv


----------------------------------------------------------------------------
(* Policies, restarts and the rest.                                        *)

\* A task is where it was, or is at a step for which it carries nothing.
Settled(j) ==
    \/ task'[j] = task[j]
    \/ /\ DOMAIN task'[j] = DOMAIN task[j]
       /\ task'[j].server = task[j].server /\ task'[j].kind = task[j].kind
       /\ task'[j].pc \in {"log", "lost", "authorize"}

\* Tasks that stay or settle leave the invariant alone.
LEMMA SettledStep ==
    ASSUME Inv, UNCHANGED <<stored, minted>>, MemoryOK', NoneRestored,
           task' = [j \in DOMAIN task |-> task'[j]], \A j \in DOMAIN task : Settled(j)
    PROVE  Inv' /\ GoneStays
<1>0. Numbered /\ StoredOK /\ TasksOK
  BY DEF Inv
<1>1. DOMAIN task' = DOMAIN task
  OBVIOUS
<1>2. ASSUME NEW j \in DOMAIN task
      PROVE  TaskOK(j)'
  <2>0. TaskOK(j)
    BY <1>0 DEF TasksOK
  <2>1. CASE task'[j] = task[j]
    <3>1. Grown
      BY DEF Grown
    <3> QED BY <1>0, <2>0, <2>1, <3>1, SameTask DEF TaskOK
  <2>2. CASE task'[j] # task[j]
    BY <2>0, <2>2 DEF TaskOK, Settled
  <2> QED BY <2>1, <2>2
<1>3. \A j \in DOMAIN task : task'[j].pc \in {"persist", "restore"} => task'[j] = task[j]
  BY DEF Settled
<1>4. OneWriter'
  BY <1>0, <1>1, <1>3 DEF TasksOK, OneWriter
<1>5. TasksOK'
  BY <1>1, <1>2, <1>4 DEF TasksOK
<1>6. NoneFound /\ RevokedStays
  BY <1>1, <1>3 DEF NoneFound, RevokedStays
<1>7. Numbered' /\ StoredOK'
  BY <1>0 DEF Numbered, StoredOK
<1> QED BY <1>5, <1>6, <1>7, GoneFromParts DEF Inv

\* A process restarts.
LEMMA RestartStep ==
    ASSUME Inv, NEW s \in Servers, Restart(s)
    PROVE  Inv' /\ GoneStays
<1>0. UNCHANGED <<stored, minted>>
  BY DEF Restart, tokens
<1>1. ASSUME NEW j \in DOMAIN task
      PROVE  Settled(j)
  <2>0. {"kind", "server", "pc"} \subseteq DOMAIN task[j]
    BY DEF Inv, TasksOK, TaskOK
  <2>1. task'[j] = [task[j] EXCEPT !.pc = "lost"] \/ task'[j] = task[j]
    BY DEF Restart
  <2> QED BY <2>0, <2>1 DEF Settled
<1>2. task' = [j \in DOMAIN task |-> task'[j]]
  BY DEF Restart
<1>3. /\ sessions' = [r \in Servers |-> sessions'[r]]
      /\ \A r \in Servers : r # s => sessions'[r] = sessions[r]
      /\ sessions'[s] = << >>
  BY DEF Restart, Inv, MemoryOK
<1>4. DOMAIN sessions'[s] = {}
  BY <1>3
<1>5. MemoryOK' /\ NoneRestored
  BY <1>0, <1>3, <1>4 DEF Inv, MemoryOK, NoneRestored
<1> QED BY <1>0, <1>1, <1>2, <1>5, SettledStep

\* Steps of the clock and the audit sweep.
LEMMA StutterStep ==
    ASSUME Inv, UNCHANGED <<stored, sessions, minted, task>>
    PROVE  Inv' /\ GoneStays
<1>1. task' = [j \in DOMAIN task |-> task'[j]]
  BY DEF Inv, TasksOK
<1>2. \A j \in DOMAIN task : Settled(j)
  BY DEF Settled
<1>3. MemoryOK' /\ NoneRestored
  BY DEF Inv, MemoryOK, NoneRestored
<1> QED BY <1>1, <1>2, <1>3, SettledStep

----------------------------------------------------------------------------
(* The whole.                                                              *)

\* The scenarios start in the invariant.
LEMMA InitInv ==
    ASSUME Init
    PROVE  Inv
<1>1. PICK s \in Scenarios :
        /\ minted = s.sessions
        /\ stored = [t \in DOMAIN minted |-> Override([revoked |-> FALSE], minted[t])]
        /\ sessions = [i \in Servers |-> <<>>]
        /\ task = [k \in DOMAIN s.tasks |-> Override([pc |-> "ready"], s.tasks[k])]
  BY DEF Init
<1>2. Numbered
  BY <1>1, ScenarioAssumption DEF Numbered, SessionRec
<1>3. StoredOK
  <2> SUFFICES ASSUME NEW t \in DOMAIN stored
               PROVE  t \in DOMAIN minted /\ StoredOf(stored[t], minted[t])
    BY DEF StoredOK
  <2>1. t \in DOMAIN minted /\ stored[t] = Override([revoked |-> FALSE], minted[t])
    BY <1>1
  <2>2. minted[t] = [who |-> minted[t].who, expires |-> minted[t].expires]
    BY <1>2, <2>1 DEF Numbered, SessionRec
  <2>3. DOMAIN minted[t] = {"who", "expires"}
    BY <2>2
  <2> DEFINE f == [revoked |-> FALSE]
  <2>4. DOMAIN f = {"revoked"}
    OBVIOUS
  <2> HIDE DEF f
  <2>5. stored[t] = Override(f, minted[t])
    BY <2>1 DEF f
  <2> QED BY <2>1, <2>3, <2>4, <2>5 DEF StoredOf, Override
<1>4. MemoryOK
  <2>1. \A i \in Servers : DOMAIN sessions[i] = {}
    BY <1>1
  <2> QED BY <1>1, <2>1 DEF MemoryOK
<1>5. TasksOK
  <2> DEFINE f == [pc |-> "ready"]
  <2>1. DOMAIN f = {"pc"} /\ f.pc = "ready"
    OBVIOUS
  <2> HIDE DEF f
  <2>2. task = [k \in DOMAIN s.tasks |-> Override(f, s.tasks[k])]
    BY <1>1 DEF f
  <2>3. ASSUME NEW k \in DOMAIN task
        PROVE  TaskOK(k) /\ task[k].pc = "ready"
    <3>1. k \in DOMAIN s.tasks /\ task[k] = Override(f, s.tasks[k])
      BY <2>2
    <3>2. /\ {"kind", "server", "token"} \subseteq DOMAIN s.tasks[k]
          /\ s.tasks[k].server \in Servers
          /\ s.tasks[k].kind = "revoke" => "access" \in DOMAIN s.tasks[k]
      BY <3>1, ScenarioAssumption
    <3>3. /\ DOMAIN task[k] = {"pc"} \cup DOMAIN s.tasks[k]
          /\ task[k].pc = "ready"
          /\ \A x \in DOMAIN s.tasks[k] \ {"pc"} : task[k][x] = s.tasks[k][x]
      BY <2>1, <3>1 DEF Override
    <3> QED BY <3>2, <3>3 DEF TaskOK
  <2>4. task = [k \in DOMAIN task |-> task[k]]
    BY <2>2
  <2> QED BY <2>3, <2>4 DEF TasksOK, OneWriter
<1> QED BY <1>2, <1>3, <1>4, <1>5 DEF Inv

\* Every step keeps the invariant and what is gone.
LEMMA Step ==
    ASSUME Counting, Inv, [Next]_vars
    PROVE  Inv' /\ GoneStays
<1>1. CASE UNCHANGED vars
  BY <1>1, StutterStep DEF vars
<1>2. ASSUME NEW k \in DOMAIN task,
             \/ Intercept(k) \/ ValidateToken(k) \/ IntrospectToken(k) \/ RefreshToken(k)
             \/ ReadBinding(k) \/ Authorize(k) \/ Log(k) \/ CheckBinding(k) \/ ClearBinding(k)
             \/ FindPolicy(k) \/ DbFails(k)
      PROVE  Inv' /\ GoneStays
  BY <1>2, QuietSteps
<1>3. ASSUME NEW k \in DOMAIN task,
             Credential(k) \/ CheckPermission(k) \/ CreatePolicy(k) \/ DeletePolicy(k)
      PROVE  Inv' /\ GoneStays
  BY <1>3, PolicySteps
<1>4. ASSUME NEW k \in DOMAIN task, Authenticate(k) \/ IssueServiceToken(k) \/ Renew(k)
      PROVE  Inv' /\ GoneStays
  <2>1. \E who, ttl : IssueTokens(k, who, ttl)
    BY <1>4 DEF Authenticate, IssueServiceToken, Renew
  <2> QED BY <2>1, IssueStep
<1>5. ASSUME NEW k \in DOMAIN task, RevokeToken(k) \/ RevokeRefreshed(k)
      PROVE  Inv' /\ GoneStays
  <2>1. CASE RevokeToken(k)
    <3>1. RevokeTokens(k, task[k].access) /\ "access" \in DOMAIN task[k]
      BY <2>1 DEF RevokeToken, At, Inv, TasksOK, TaskOK
    <3> QED BY <3>1, RevokeTokensStep
  <2>2. CASE RevokeRefreshed(k)
    BY <2>2, RevokeTokensStep DEF RevokeRefreshed
  <2> QED BY <1>5, <2>1, <2>2
<1>6. ASSUME NEW k \in DOMAIN task, Persist(k) \/ ReadSession(k) \/ Restore(k)
                                    \/ ReadRevoked(k) \/ WriteRevoked(k)
      PROVE  Inv' /\ GoneStays
  BY <1>6, PersistStep, ReadSessionStep, RestoreStep, ReadRevokedStep, WriteRevokedStep
<1>7. CASE StartSweep \/ FinishSweep \/ Tick
  <2>1. UNCHANGED <<stored, sessions, minted, task>>
    BY <1>7 DEF StartSweep, FinishSweep, Tick, tokens, memory
  <2> QED BY <2>1, StutterStep
<1> QED BY <1>1, <1>2, <1>3, <1>4, <1>5, <1>6, <1>7, RestartStep DEF Next, Acts

INSTANCE FiniteSetTheorems

\* The fact about finite sets holds.
LEMMA CountingHolds == Counting
<1> SUFFICES ASSUME NEW S, IsFiniteSet(S), S = 1..Cardinality(S)
             PROVE  LET n == Cardinality(S) + 1
                    IN  /\ n \notin S
                        /\ IsFiniteSet(S \cup {n})
                        /\ S \cup {n} = 1..Cardinality(S \cup {n})
  BY DEF Counting
<1> DEFINE n == Cardinality(S) + 1
<1>1. Cardinality(S) \in Nat
  BY FS_CardinalityType
<1>2. n \notin S
  BY <1>1
<1>3. IsFiniteSet(S \cup {n}) /\ Cardinality(S \cup {n}) = n
  BY <1>2, FS_AddElement
<1>4. S \cup {n} = 1..n
  BY <1>1
<1> QED BY <1>2, <1>3, <1>4

\* The inductive invariant.
LEMMA Invariance == Spec => []Inv
<1>1. Init => Inv
  BY InitInv
<1>2. Inv /\ [Next]_vars => Inv'
  BY CountingHolds, Step
<1> QED BY <1>1, <1>2, PTL DEF Spec

\* Every copy of a session agrees with the session that was issued
\* (issue_tokens, validate_bearer_token, revoke_access_token), for any number
\* of servers, requests and sessions.
THEOREM SessionCopiesAgree == Spec => []CopiesAgree
<1>1. Inv => CopiesAgree
  BY InvImpliesCopiesAgree
<1> QED BY <1>1, Invariance, PTL

\* A revoked session that a server neither holds nor is about to take from the
\* database stays gone for it (is_active_persistent_session).
THEOREM RevocationsAreFinal == Spec => RevocationIsFinal
<1>1. Inv /\ [Next]_vars =>
        [\A s \in Servers, t \in DOMAIN stored : Gone(s, t) => Gone(s, t)']_vars
  BY CountingHolds, Step DEF GoneStays
<1> QED BY <1>1, Invariance, PTL DEF Spec, RevocationIsFinal
=============================================================================
