------------------------------ MODULE Records -------------------------------
(***************************************************************************)
(* The records of one entity type in one namespace: their property values, *)
(* the index and term entries derived from them, and the registry of       *)
(* schemas that says which values are valid and indexed                    *)
(* (crates/pelago-storage/src/node.rs, index.rs, term_index.rs, schema.rs, *)
(* cache.rs and namespace.rs, with the handlers of node_service.rs and     *)
(* schema_service.rs).                                                     *)
(*                                                                         *)
(* Several server processes share one FoundationDB.  Each keeps the last   *)
(* schema it loaded or registered in a cache that nothing invalidates.  A  *)
(* mutation takes the schema, reads the record with a transaction of its   *)
(* own, and commits record, index entries, term entries and counters in a  *)
(* second transaction; of all it depends on, only the term counters and,   *)
(* in an update, the changed unique values are read in that transaction.   *)
(*                                                                         *)
(* Ownership, edges and the delete guard are the subject of GraphStore.    *)
(* A range index has the keys of an equality index here: only the order of *)
(* its values differs.  The unique values of one new record are checked in *)
(* one step.                                                               *)
(***************************************************************************)
EXTENDS Integers, FiniteSets, Sequences

CONSTANTS
    Servers,    \* server processes
    Tasks,      \* request slots
    ServerOf,   \* ServerOf[t]: the process that serves slot t
    Ids,        \* node identifiers, an initial segment of 1, 2, ...
    Props,      \* property names
    Vals,       \* property values other than null
    Null,       \* the null value
    Templates,  \* sets of properties that have a combined term (template fields)
    Defs,       \* schema definitions that clients register
    NoDef,      \* no schema
    Unborn,     \* a record that has not been created
    NoRecord,   \* a record that has been deleted
    Sites,      \* this site and others
    Here,       \* this site
    NoSite,     \* the namespace has no schema owner
    MaxVersion  \* bound: schema versions

ASSUME RecordConstants ==
    /\ Ids = 1..Cardinality(Ids)
    /\ MaxVersion \in Nat
    /\ Here \in Sites
    /\ \A t \in Tasks : ServerOf[t] \in Servers

VARIABLES
    latest,     \* the pointer to the latest schema version, 0 when there is none
    versions,   \* versions[v]: the definition stored as version v
    cache,      \* cache[s]: the schema that process s has cached
    settings,   \* the namespace settings: schema owner and epoch
    data,       \* data[n]: the properties of record n, Unborn or NoRecord
    index,      \* index entries
    terms,      \* term postings
    df, docs,   \* how many records have a term; how many records there are
    jobs,       \* the job table
    todo,       \* todo[t]: requests that slot t has still to serve
    task,       \* task[t]: what slot t is in the middle of
    owed,       \* history: owed[j], the records that existed when job j was made
                \* and have not been written since
    by,         \* history: by[n], the definition that n's index entries follow
    raced       \* history: records written from something other than their
                \* previous contents

registry == <<latest, versions, cache, settings>>
record == <<data, index, terms, df, docs, by, raced>>
table == <<jobs, owed>>

NoSchema == [version |-> 0, def |-> NoDef]
Live == {n \in Ids : data[n] \notin {Unborn, NoRecord}}

----------------------------------------------------------------------------
(* What a schema says of a record (validate_properties, apply_defaults).   *)

\* A definition gives every declared property a type (the set of its values), an
\* index kind, whether it is required, and the set of its defaults: empty or one.
Valid(d, props) ==
    /\ \A p \in DOMAIN d.props :
          d.props[p].required => p \in DOMAIN props /\ props[p] # Null
    /\ \A p \in DOMAIN props :
          IF p \in DOMAIN d.props THEN props[p] \in d.props[p].type \cup {Null}
          ELSE d.extras

WithDefaults(d, props) ==
    LET missing == {p \in DOMAIN d.props \ DOMAIN props : d.props[p].default # {}}
    IN  [p \in DOMAIN props \cup missing |->
            IF p \in DOMAIN props THEN props[p] ELSE CHOOSE v \in d.props[p].default : TRUE]

Merge(old, new) ==
    [p \in DOMAIN old \cup DOMAIN new |-> IF p \in DOMAIN new THEN new[p] ELSE old[p]]

----------------------------------------------------------------------------
(* Index entries (index.rs).                                               *)

Has(props, p) == p \in DOMAIN props /\ props[p] # Null

\* compute_index_entries, build_index_entry
Entries(d, n, props) ==
    {[kind |-> d.props[p].index, prop |-> p, val |-> props[p], id |-> n] :
        p \in {q \in DOMAIN d.props : d.props[q].index # "none" /\ Has(props, q)}}

\* compute_index_removals
Removals(d, n, old, new) ==
    {e \in Entries(d, n, old) : ~Has(new, e.prop) \/ new[e.prop] # e.val}

\* Mutant: an update sets the keys of the values it changes.
ChangedOnly(d, n, old, new) == Entries(d, n, new) \ Entries(d, n, old)

\* update_node sets the keys of all values again, changed or not.
Additions(d, n, old, new) == Entries(d, n, new)

\* The key of a unique entry has no node identifier.
SameKey(e, f) ==
    /\ <<e.kind, e.prop, e.val>> = <<f.kind, f.prop, f.val>>
    /\ e.kind = "unique" \/ e.id = f.id

\* The transaction clears the removed keys first and sets the new ones last.
IndexAfter(removed, added) ==
    {e \in index : \A f \in removed \cup added : ~SameKey(e, f)} \cup added

\* check_unique_constraint and check_unique_constraint_in_txn
Holders(p, v) == {e.id : e \in {f \in index : f.kind = "unique" /\ f.prop = p /\ f.val = v}}
UniqueProps(d) ==
    IF d = NoDef THEN {} ELSE {p \in DOMAIN d.props : d.props[p].index = "unique"}

----------------------------------------------------------------------------
(* Term postings and their counters (term_index.rs).                       *)

\* compute_term_postings, append_template_postings
Terms(n, props) ==
    {[field |-> {p}, val |-> <<props[p]>>, id |-> n] : p \in {q \in DOMAIN props : Has(props, q)}}
    \cup {[field |-> f, val |-> [p \in f |-> props[p]], id |-> n] :
            f \in {g \in Templates : \A p \in g : Has(props, p)}}

TermOf(t) == <<t.field, t.val>>
Count(k) == IF k \in DOMAIN df THEN df[k] ELSE 0
AtLeastZero(i) == IF i < 0 THEN 0 ELSE i

\* Mutant: removed terms are not counted down.
ApplyTermsOnce(removed, added, delta) ==
    LET touched == {TermOf(t) : t \in added}
    IN  /\ terms' = (terms \ removed) \cup added
        /\ df' = [k \in DOMAIN df \cup touched |-> Count(k) + (IF k \in touched THEN 1 ELSE 0)]
        /\ docs' = AtLeastZero(docs + delta)

\* apply_term_posting_changes: postings, then document frequencies, then the
\* number of documents; a counter never goes below zero, and at zero is cleared.
ApplyTerms(removed, added, delta) ==
    LET touched == {TermOf(t) : t \in removed \cup added}
        Times(k, S) == Cardinality({t \in S : TermOf(t) = k})
        After(k) == IF k \in touched
                    THEN AtLeastZero(Count(k) + Times(k, added) - Times(k, removed))
                    ELSE Count(k)
    IN  /\ terms' = (terms \ removed) \cup added
        /\ df' = [k \in {j \in DOMAIN df \cup touched : After(j) > 0} |-> After(k)]
        /\ docs' = AtLeastZero(docs + delta)

----------------------------------------------------------------------------
(* Requests.                                                               *)

Idle == [pc |-> "idle"]
Goto(t, r) == task' = [task EXCEPT ![t] = r]
Finish(t) == Goto(t, Idle)
Cached(t) == cache[ServerOf[t]]

Accept(t, op) ==
    /\ task[t] = Idle
    /\ todo[t] # <<>>
    /\ Head(todo[t]).op = op
    /\ todo' = [todo EXCEPT ![t] = Tail(@)]

\* A request that mutates a record begins with get_schema.
AskSchema(t, r) ==
    Goto(t, [pc |-> IF Cached(t) = NoSchema THEN "latest" ELSE "read",
             req |-> r, schema |-> Cached(t)])

BeginMutation(t) ==
    /\ \E op \in {"create", "update"} : Accept(t, op)
    /\ AskSchema(t, Head(todo[t]))
    /\ UNCHANGED <<registry, record, table>>

\* get_schema without a cached schema: two reads, then the insertion.
ReadLatest(t) ==
    /\ task[t].pc = "latest"
    /\ IF latest = 0 THEN Finish(t)
       ELSE Goto(t, [task[t] EXCEPT !.pc = "version", !.schema.version = latest])
    /\ UNCHANGED <<registry, record, table, todo>>

ReadVersion(t) ==
    /\ task[t].pc = "version"
    /\ LET d == versions[task[t].schema.version]
       IN  IF d = NoDef THEN Finish(t)
           ELSE Goto(t, [task[t] EXCEPT !.pc = "insert", !.schema.def = d])
    /\ UNCHANGED <<registry, record, table, todo>>

InsertSchema(t) ==
    /\ task[t].pc = "insert"
    /\ cache' = [cache EXCEPT ![ServerOf[t]] = task[t].schema]
    /\ Goto(t, [task[t] EXCEPT !.pc = "read"])
    /\ UNCHANGED <<latest, versions, settings, record, table, todo>>

----------------------------------------------------------------------------
(* The mutations of node.rs.                                               *)

\* create_node: defaults, validation, and the check of the unique values; a null
\* has no encoding, and its check fails.
CheckCreate(t) ==
    /\ task[t].pc = "read"
    /\ task[t].req.op = "create"
    /\ LET d == task[t].schema.def
           props == WithDefaults(d, task[t].req.props)
           taken == {p \in UniqueProps(d) \cap DOMAIN props :
                        props[p] = Null \/ Holders(p, props[p]) # {}}
       IN  IF ~Valid(d, props) \/ taken # {} THEN Finish(t)
           ELSE Goto(t, [task[t] EXCEPT !.pc = "write", !.req.props = props])
    /\ UNCHANGED <<registry, record, table, todo>>

\* A write of record n: it no longer is what an earlier job found.
Write(n, props, d) ==
    /\ data' = [data EXCEPT ![n] = props]
    /\ by' = [by EXCEPT ![n] = d]
    /\ owed' = [j \in DOMAIN owed |-> owed[j] \ {n}]

WriteCreate(t) ==
    /\ task[t].pc = "write"
    /\ task[t].req.op = "create"
    /\ \E n \in Ids :
          LET d == task[t].schema.def
              props == task[t].req.props
          IN  /\ data[n] = Unborn
              /\ \A m \in Ids : data[m] = Unborn => n <= m
              /\ Write(n, props, d)
              /\ index' = IndexAfter({}, Entries(d, n, props))
              /\ ApplyTerms({}, Terms(n, props), 1)
    /\ raced' = raced
    /\ Finish(t)
    /\ UNCHANGED <<registry, jobs, todo>>

\* update_node and delete_node read the record in a transaction of their own.
ReadUpdate(t) ==
    /\ task[t].pc = "read"
    /\ task[t].req.op = "update"
    /\ LET n == task[t].req.id
           merged == Merge(data[n], task[t].req.props)
       IN  IF n \notin Live THEN Finish(t)
           ELSE IF ~Valid(task[t].schema.def, merged) THEN Finish(t)
           ELSE Goto(t, [pc |-> "write", req |-> [op |-> "update", id |-> n, props |-> merged],
                         schema |-> task[t].schema, old |-> data[n]])
    /\ UNCHANGED <<registry, record, table, todo>>

WriteUpdate(t) ==
    /\ task[t].pc = "write"
    /\ task[t].req.op = "update"
    /\ LET d == task[t].schema.def
           n == task[t].req.id
           old == task[t].old
           new == task[t].req.props
           changed == {p \in UniqueProps(d) :
                          Has(new, p) /\ ~(p \in DOMAIN old /\ old[p] = new[p])}
       IN  IF \E p \in changed : Holders(p, new[p]) \ {n} # {}
           THEN UNCHANGED <<record, owed>>
           ELSE /\ Write(n, new, d)
                /\ index' = IndexAfter(Removals(d, n, old, new), Additions(d, n, old, new))
                /\ ApplyTerms(Terms(n, old) \ Terms(n, new), Terms(n, new) \ Terms(n, old), 0)
                /\ raced' = IF data[n] = old THEN raced ELSE raced \cup {n}
    /\ Finish(t)
    /\ UNCHANGED <<registry, jobs, todo>>

ReadDelete(t) ==
    /\ task[t].pc = "read"
    /\ task[t].req.op = "delete"
    /\ LET n == task[t].req.id
       IN  IF n \notin Live THEN Finish(t)
           ELSE Goto(t, [pc |-> "write", req |-> task[t].req,
                         schema |-> task[t].schema, old |-> data[n]])
    /\ UNCHANGED <<registry, record, table, todo>>

\* The delete's first transaction; Jobs has the removal of the edges.
Delete(n, d, old) ==
    /\ Write(n, NoRecord, NoDef)
    /\ index' = IndexAfter(Entries(d, n, old), {})
    /\ ApplyTerms(Terms(n, old), {}, -1)
    /\ raced' = IF data[n] = old THEN raced ELSE raced \cup {n}

----------------------------------------------------------------------------
(* The schema registry (schema.rs) and the namespace settings              *)
(* (namespace.rs).                                                         *)

\* register_schema, and apply_replica_schema_register for a remote registration.
BeginRegister(t) ==
    /\ Accept(t, "register")
    /\ IF Head(todo[t]).def.ok
       THEN Goto(t, [pc |-> "owner", req |-> Head(todo[t])])
       ELSE Finish(t)
    /\ UNCHANGED <<registry, record, table>>

CheckOwner(t) ==
    /\ task[t].pc = "owner"
    /\ IF settings.owner \in {NoSite, task[t].req.site}
       THEN Goto(t, [task[t] EXCEPT !.pc = "current"])
       ELSE Finish(t)
    /\ UNCHANGED <<registry, record, table, todo>>

ReadCurrent(t) ==
    /\ task[t].pc = "current"
    /\ latest < MaxVersion
    /\ IF task[t].req.site # Here /\ latest + 1 # task[t].req.version
       THEN Finish(t)
       ELSE Goto(t, [pc |-> "commit", req |-> task[t].req, version |-> latest + 1])
    /\ UNCHANGED <<registry, record, table, todo>>

CommitSchema(t) ==
    /\ task[t].pc = "commit"
    /\ latest' = task[t].version
    /\ versions' = [versions EXCEPT ![task[t].version] = task[t].req.def]
    /\ Goto(t, [task[t] EXCEPT !.pc = "cache"])
    /\ UNCHANGED <<cache, settings, record, table, todo>>

CacheSchema(t) ==
    /\ task[t].pc = "cache"
    /\ cache' = [cache EXCEPT ![ServerOf[t]] =
                    [version |-> task[t].version, def |-> task[t].req.def]]
    /\ IF task[t].version > 1 THEN Goto(t, [task[t] EXCEPT !.pc = "jobs"]) ELSE Finish(t)
    /\ UNCHANGED <<latest, versions, settings, record, table, todo>>

NewJob(kind, arg) ==
    [kind |-> kind, arg |-> arg, status |-> "pending", phase |-> 0, next |-> 0,
     done |-> 0]

\* create_job: the identifiers of jobs are in the order of their creation.
CreateJobs(js) ==
    /\ jobs' = jobs \o js
    /\ owed' = owed \o [i \in DOMAIN js |-> Live]

IndexedProps(d) ==
    IF d = NoDef THEN {} ELSE {p \in DOMAIN d.props : d.props[p].index # "none"}

CreateBackfills(t) ==
    /\ task[t].pc = "jobs"
    /\ LET old == versions[task[t].version - 1]
           fresh == IndexedProps(task[t].req.def) \ IndexedProps(old)
       IN  IF old = NoDef \/ fresh = {} THEN UNCHANGED table
           ELSE \E ps \in [1..Cardinality(fresh) -> fresh] :
                   /\ \A p \in fresh : \E i \in DOMAIN ps : ps[i] = p
                   /\ CreateJobs([i \in DOMAIN ps |-> NewJob("backfill", ps[i])])
    /\ Finish(t)
    /\ UNCHANGED <<registry, record, todo>>

\* set_namespace_schema_owner and transfer_namespace_schema_owner: one transaction.
NewOwner(site) ==
    IF settings.owner = site THEN settings
    ELSE [owner |-> site, epoch |-> settings.epoch + 1]

SetOwner(t) ==
    /\ Accept(t, "setOwner")
    /\ settings' = NewOwner(Head(todo[t]).site)
    /\ UNCHANGED <<latest, versions, cache, record, table, task>>

TransferOwner(t) ==
    /\ Accept(t, "transferOwner")
    /\ settings' = IF settings.owner = Head(todo[t]).expected
                   THEN NewOwner(Head(todo[t]).site)
                   ELSE settings
    /\ UNCHANGED <<latest, versions, cache, record, table, task>>

\* A request ends early: a transaction fails, or the client goes away.
FailRequest(t) ==
    /\ task[t] # Idle
    /\ Finish(t)
    /\ UNCHANGED <<registry, record, table, todo>>

\* From a store whose schema has the versions defs and whose records are indexed by
\* the last of them, with requests to serve and jobs to do; the processes in warm have
\* the last schema cached.
RecordInit(defs, records, requests, pending, warm) ==
    LET d == IF defs = <<>> THEN NoDef ELSE defs[Len(defs)]
        live == {n \in Ids : records[n] # Unborn}
        ts == UNION {Terms(n, records[n]) : n \in live}
    IN  /\ latest = Len(defs)
        /\ versions = [v \in 1..MaxVersion |-> IF v <= Len(defs) THEN defs[v] ELSE NoDef]
        /\ cache = [s \in Servers |-> IF s \in warm THEN [version |-> Len(defs), def |-> d]
                                      ELSE NoSchema]
        /\ settings = [owner |-> NoSite, epoch |-> 0]
        /\ data = records
        /\ index = UNION {Entries(d, n, records[n]) : n \in live}
        /\ terms = ts
        /\ df = [k \in {TermOf(t) : t \in ts} |-> Cardinality({t \in ts : TermOf(t) = k})]
        /\ docs = Cardinality(live)
        /\ jobs = pending
        /\ todo = requests
        /\ task = [t \in Tasks |-> Idle]
        /\ owed = [j \in DOMAIN pending |-> live]
        /\ by = [n \in Ids |-> IF n \in live THEN d ELSE NoDef]
        /\ raced = {}

RecordStep(t) ==
    \/ BeginMutation(t) \/ ReadLatest(t) \/ ReadVersion(t) \/ InsertSchema(t)
    \/ CheckCreate(t) \/ WriteCreate(t) \/ ReadUpdate(t) \/ WriteUpdate(t) \/ ReadDelete(t)
    \/ BeginRegister(t) \/ CheckOwner(t) \/ ReadCurrent(t) \/ CommitSchema(t)
    \/ CacheSchema(t) \/ CreateBackfills(t) \/ SetOwner(t) \/ TransferOwner(t)
    \/ FailRequest(t)

----------------------------------------------------------------------------
(***************************************************************************)
(* A record is found through the equality index by every value that the    *)
(* schema of its last writer indexes, however the requests interleave:     *)
(* update_node reads the old values in an earlier transaction, yet clears  *)
(* their keys first and then sets the keys of everything it writes.        *)
(***************************************************************************)
IndexCovers ==
    \A n \in Live :
       by[n] # NoDef =>
          \A e \in Entries(by[n], n, data[n]) : e.kind = "equality" => e \in index

(***************************************************************************)
(* Term postings and counters are exactly those of the stored records as   *)
(* long as no write replaced a record by something computed from other     *)
(* contents than it had.  The differences that apply_term_posting_changes  *)
(* applies are then the right ones.                                        *)
(***************************************************************************)
TermsExact ==
    raced = {} =>
       LET ts == UNION {Terms(n, data[n]) : n \in Live}
       IN  /\ terms = ts
           /\ df = [k \in {TermOf(t) : t \in ts} |-> Cardinality({t \in ts : TermOf(t) = k})]
           /\ docs = Cardinality(Live)

=============================================================================
