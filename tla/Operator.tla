------------------------------- MODULE Operator -------------------------------
(***************************************************************************)
(* The Kubernetes operator (pelago-operator): PelagoSite objects, their    *)
(* defaults and validation (webhook.rs), the resources a site is made of   *)
(* (resources/mod.rs), leader election (main.rs) and the controller that   *)
(* brings the cluster to what the site asks for (controller.rs).           *)
(*                                                                         *)
(* One site.  Its generation g has the spec specs[g].  Every operator      *)
(* process works from the generation and the status its watch has brought, *)
(* which may be out of date; a pass of reconcile keeps what it began with, *)
(* and every request of it to the Kubernetes API is a step of its own.     *)
(* Passes of one process do not overlap, and another one follows sooner or *)
(* later whatever the last one did: the timers of 5, 15 and 30 seconds.    *)
(* The index of secrets only brings that moment forward and is left out.   *)
(***************************************************************************)
EXTENDS Integers, Sequences, FiniteSets, SequencesExt

CONSTANTS
    Operators,      \* the operator processes
    Scenarios,      \* records [edits, secrets, later, hook, takes, may]
    MaxDisturbances \* bound on what `may` lists, crash, fail and expire, but not scale

VARIABLES
    edits,      \* specs that users will still submit, in order
    hook,       \* the admission webhooks are on
    takes,      \* the Kubernetes client takes the patches of patch_status
    may,        \* what disturbs this behaviour
    specs,      \* the spec of each generation of the site
    status,     \* of the site: [observed, conditions]
    objects,    \* resource -> {what it was last set to}, or {} if there is none
    ready,      \* deployment -> pods that are ready
    secrets,    \* names of the secrets that exist
    later,      \* secrets that are created later on
    lease,      \* [holder, live]: the lease of leader election
    leading,    \* operator -> is_leader
    copy,       \* operator -> [gen, status]: the site as its watch has brought it
    pass,       \* operator -> [pc, gen, status, saw]
    disturbed,  \* counts disturbances
    applied     \* for the properties: resource -> generations it was set to

cluster == <<objects, ready, applied>>
users == <<edits, hook, takes, may, specs, secrets, later>>
vars == <<edits, hook, takes, may, specs, status, objects, ready, secrets, later, lease, leading,
          copy, pass, disturbed, applied>>

None == ""
Nobody == 0
Resources == <<"config", "service", "api", "replicator", "hpa", "pdb">>
Deployments == {"api", "replicator"}
SecretRefs(values) == values \ {None}

-----------------------------------------------------------------------------
(* A spec: fdb and auth name secrets, peers have site, endpoint and key,   *)
(* enabled is {} until it is set, and tls has mode, ca, cert and key.      *)

\* apply_defaults
WithDefaults(spec) ==
    [spec EXCEPT !.enabled = IF @ = {} THEN {spec.peers # <<>>} ELSE @,
                 !.scopes = IF @ = <<>> THEN <<spec.defaults>> ELSE @]

\* validate_tls
ValidTls(tls) ==
    CASE tls.mode = "disabled" -> {tls.ca, tls.cert, tls.key} = {None}
      [] tls.mode = "system" -> {tls.ca, tls.cert, tls.key} = {None}
      [] tls.mode = "ca" -> tls.ca # None /\ {tls.cert, tls.key} = {None}
      [] tls.mode = "mutual" -> None \notin {tls.ca, tls.cert, tls.key}

\* validate_site, validate_peer_api_key_constraints
Valid(spec) ==
    /\ spec.fdb # None
    /\ \A i \in DOMAIN spec.peers :
          /\ spec.peers[i].site # None /\ spec.peers[i].endpoint # None
          /\ spec.peers[i].site # spec.site
          /\ \A j \in DOMAIN spec.peers : spec.peers[i].site = spec.peers[j].site => i = j
    /\ Cardinality(SecretRefs({spec.peers[i].key : i \in DOMAIN spec.peers})) <= 1
    /\ IsInjective(spec.scopes) /\ None \notin ToSet(spec.scopes)
    /\ spec.hpa.min > 0 /\ spec.hpa.min <= spec.hpa.max
    /\ spec.lease.heartbeat > 0 /\ spec.lease.ttl >= 2 * spec.lease.heartbeat
    /\ ValidTls(spec.tls)

\* referenced_secret_keys
References(spec) ==
    SecretRefs({spec.fdb, spec.auth, spec.tls.ca, spec.tls.cert, spec.tls.key}
               \cup {spec.peers[i].key : i \in DOMAIN spec.peers})

\* build_api_hpa, build_api_pdb: absent unless they are enabled
BuildHpa(spec) == IF spec.hpa.on THEN {[min |-> spec.hpa.min, max |-> spec.hpa.max]} ELSE {}
BuildPdb(spec) == IF spec.pdb > 0 THEN {[available |-> spec.pdb]} ELSE {}
BuildConfigMap(spec) == {[site |-> spec.site, scopes |-> spec.scopes, lease |-> spec.lease]}
BuildService(spec) == {[port |-> spec.port]}
BuildApi(spec) == {[replicas |-> spec.api, secrets |-> SecretRefs({spec.fdb, spec.auth})]}
BuildReplicator(spec) ==
    {[replicas |-> spec.replicas, enabled |-> spec.enabled, peers |-> spec.peers,
      scopes |-> spec.scopes, secrets |-> References(spec)]}

Build(spec, r) ==
    CASE r = "config" -> BuildConfigMap(spec)
      [] r = "service" -> BuildService(spec)
      [] r = "api" -> BuildApi(spec)
      [] r = "replicator" -> BuildReplicator(spec)
      [] r = "hpa" -> BuildHpa(spec)
      [] r = "pdb" -> BuildPdb(spec)

\* status.rs
SetConditions(s, new) == [s EXCEPT !.conditions = new @@ @]

-----------------------------------------------------------------------------
(* Users, the Kubernetes API and the rest of the cluster.                  *)

\* The webhooks mutate and validate, or the spec as it was submitted
Edit ==
    /\ edits # <<>>
    /\ edits' = Tail(edits)
    /\ LET spec == IF hook THEN WithDefaults(Head(edits)) ELSE Head(edits)
       IN  specs' = IF hook /\ ~Valid(spec) THEN specs ELSE Append(specs, spec)
    /\ UNCHANGED <<hook, takes, may, status, secrets, later, lease, leading, pass, disturbed, cluster,
                   copy>>

CreateSecret ==
    /\ later # {}
    /\ \E x \in later : secrets' = secrets \cup {x} /\ later' = later \ {x}
    /\ UNCHANGED <<edits, hook, takes, may, specs, status, lease, leading, pass, disturbed, cluster,
                   copy>>

\* The deployment controller (external) brings the pods up or down.
RollOut(d) ==
    /\ \E x \in objects[d] : ready[d] # x.replicas /\ ready' = [ready EXCEPT ![d] = x.replicas]
    /\ UNCHANGED <<users, status, objects, applied, lease, leading, copy, pass, disturbed>>

Disturb(kind) ==
    kind \in may /\ disturbed < MaxDisturbances /\ disturbed' = disturbed + 1

\* The autoscaler (external) sets the number of replicas of the API tier, again
\* and again; a deployment of no replicas is left alone.
Scale ==
    /\ "scale" \in may
    /\ \E h \in objects["hpa"], x \in objects["api"] : \E n \in (h.min..h.max) \ {x.replicas} :
          /\ x.replicas > 0
          /\ objects' = [objects EXCEPT !["api"] = {[x EXCEPT !.replicas = n]}]
    /\ UNCHANGED <<users, status, ready, applied, lease, leading, copy, pass, disturbed>>

\* The watch of the controller (external), sooner or later
Site == [gen |-> Len(specs), status |-> status]
Watch(o) ==
    /\ copy[o] # Site
    /\ copy' = [copy EXCEPT ![o] = Site]
    /\ UNCHANGED <<users, status, cluster, lease, leading, pass, disturbed>>

-----------------------------------------------------------------------------
(* Leader election.                                                        *)

\* try_acquire_or_renew; the flag stays as it is until the next attempt.
Wins(o) == lease.holder = o \/ ~lease.live
Held(o) == IF Wins(o) THEN [holder |-> o, live |-> TRUE] ELSE lease
Renew(o) ==
    /\ lease' = Held(o)
    /\ leading' = [leading EXCEPT ![o] = Wins(o)]
    /\ UNCHANGED <<users, status, cluster, copy, pass, disturbed>>

\* The attempt fails, with or without effect on the lease.
RenewFails(o) ==
    /\ Disturb("fail")
    /\ lease' \in {lease, Held(o)}
    /\ leading' = [leading EXCEPT ![o] = FALSE]
    /\ UNCHANGED <<users, status, cluster, copy, pass>>

\* Its holder did not renew the lease in time, or is gone.
Lapse ==
    /\ lease.live
    /\ lease' = [lease EXCEPT !.live = FALSE]
    /\ UNCHANGED <<users, status, cluster, copy, pass, leading>>
Expire == Lapse /\ Disturb("expire")
ExpireOrphaned == Lapse /\ lease.holder = Nobody /\ UNCHANGED disturbed

-----------------------------------------------------------------------------
(* reconcile.                                                              *)

Order == <<"check", "secrets">> \o Resources \o <<"observe", "status">>
After(pc) == Order[(CHOOSE i \in DOMAIN Order : Order[i] = pc) + 1]
NoStatus == [observed |-> 0, conditions |-> <<>>]
Idle == [pc |-> "idle", gen |-> 0, status |-> NoStatus, saw |-> {}]
Continue(o, fields) == pass' = [pass EXCEPT ![o] = fields @@ @]
Desired(o) == WithDefaults(specs[pass[o].gen])

\* is_leader is looked at here only.
Start(o) ==
    /\ pass[o].pc = "idle" /\ leading[o] /\ copy[o].gen > 0
    /\ Continue(o, [pc |-> "check"] @@ copy[o])
    /\ UNCHANGED <<users, status, cluster, lease, leading, copy, disturbed>>

\* patch_status sends a merge patch with force set, which only an apply patch
\* may have: the client or the API (external) takes it or refuses it, always.
\* A refusal is an error of the pass.
SendStatus(new) == status' = IF takes THEN new ELSE status

\* An invalid spec is reported with what else the copy's status said.
Check(o) ==
    /\ pass[o].pc = "check"
    /\ IF Valid(Desired(o))
       THEN Continue(o, [pc |-> "secrets"]) /\ status' = status
       ELSE /\ SendStatus(SetConditions(pass[o].status, [valid |-> FALSE, degraded |-> TRUE]))
            /\ Continue(o, Idle)
    /\ UNCHANGED <<users, cluster, lease, leading, copy, disturbed>>

\* ensure_referenced_secrets
EnsureSecrets(o) ==
    /\ pass[o].pc = "secrets"
    /\ Continue(o, IF References(Desired(o)) \subseteq secrets THEN [pc |-> After("secrets")]
                   ELSE Idle)
    /\ UNCHANGED <<users, status, cluster, lease, leading, copy, disturbed>>

\* Mutant: what exists is left as it is.
ApplyOnce(o) ==
    /\ pass[o].pc \in ToSet(Resources)
    /\ LET r == pass[o].pc
       IN  /\ objects' = [objects EXCEPT ![r] = IF @ = {} THEN Build(Desired(o), r) ELSE @]
           /\ applied' = [applied EXCEPT ![r] = @ \cup {pass[o].gen}]
           /\ Continue(o, [pc |-> After(r)])
    /\ UNCHANGED <<users, status, ready, lease, leading, copy, disturbed>>

\* apply, by force, or delete_if_exists
Apply(o) ==
    /\ pass[o].pc \in ToSet(Resources)
    /\ LET r == pass[o].pc
       IN  /\ objects' = [objects EXCEPT ![r] = Build(Desired(o), r)]
           /\ applied' = [applied EXCEPT ![r] = @ \cup {pass[o].gen}]
           /\ Continue(o, [pc |-> After(r)])
    /\ UNCHANGED <<users, status, ready, lease, leading, copy, disturbed>>

\* Two reads, of which each sees its own deployment.
Observe(o) ==
    /\ pass[o].pc = "observe"
    /\ Continue(o, [pc |-> "status",
                    saw |-> {d \in Deployments : \A x \in objects[d] : ready[d] >= x.replicas}])
    /\ UNCHANGED <<users, status, cluster, lease, leading, copy, disturbed>>

\* Mutant: the status counts the generation the site has by now.
PatchStatusOfSite(o) ==
    /\ pass[o].pc = "status"
    /\ LET up == pass[o].saw = Deployments
       IN  SendStatus(SetConditions([status EXCEPT !.observed = Len(specs)],
                                  [valid |-> TRUE, api |-> "api" \in pass[o].saw,
                                   replicator |-> "replicator" \in pass[o].saw,
                                   progressing |-> ~up, ready |-> up, degraded |-> FALSE]))
    /\ Continue(o, Idle)
    /\ UNCHANGED <<users, cluster, lease, leading, copy, disturbed>>

PatchStatus(o) ==
    /\ pass[o].pc = "status"
    /\ LET up == pass[o].saw = Deployments
       IN  SendStatus(SetConditions([pass[o].status EXCEPT !.observed = pass[o].gen],
                                  [valid |-> TRUE, api |-> "api" \in pass[o].saw,
                                   replicator |-> "replicator" \in pass[o].saw,
                                   progressing |-> ~up, ready |-> up, degraded |-> FALSE]))
    /\ Continue(o, Idle)
    /\ UNCHANGED <<users, cluster, lease, leading, copy, disturbed>>

\* A request fails: error_policy.  The status is left as it is.
RequestFails(o) ==
    /\ Disturb("fail") /\ pass[o].pc # "idle"
    /\ Continue(o, Idle)
    /\ UNCHANGED <<users, status, cluster, lease, leading, copy>>

\* The process is replaced; it lists the site anew and does not lead yet.  Its
\* holder_id (host and process number) may be the same as before or not.
Crash(o) ==
    /\ Disturb("crash")
    /\ lease' \in {lease, IF lease.holder = o THEN [lease EXCEPT !.holder = Nobody] ELSE lease}
    /\ Continue(o, Idle)
    /\ leading' = [leading EXCEPT ![o] = FALSE]
    /\ copy' = [copy EXCEPT ![o] = Site]
    /\ UNCHANGED <<users, status, cluster>>

-----------------------------------------------------------------------------
Init ==
    /\ \E s \in Scenarios : /\ edits = s.edits /\ hook = s.hook /\ takes = s.takes /\ may = s.may
                            /\ secrets = s.secrets /\ later = s.later
    /\ specs = <<>>
    /\ status = NoStatus
    /\ objects = [r \in ToSet(Resources) |-> {}]
    /\ ready = [d \in Deployments |-> 0]
    /\ lease = [holder |-> CHOOSE o \in Operators : TRUE, live |-> TRUE]
    /\ leading = [o \in Operators |-> o = lease.holder]
    /\ copy = [o \in Operators |-> Site]
    /\ pass = [o \in Operators |-> Idle]
    /\ disturbed = 0
    /\ applied = [r \in ToSet(Resources) |-> {}]

Step(o) ==
    \/ Check(o) \/ EnsureSecrets(o) \/ Apply(o) \/ Observe(o) \/ PatchStatus(o)

Next ==
    \/ Edit \/ CreateSecret \/ Scale \/ Expire \/ ExpireOrphaned \/ \E d \in Deployments : RollOut(d)
    \/ \E o \in Operators : \/ Watch(o) \/ Renew(o) \/ Start(o) \/ Step(o)
                            \/ RenewFails(o) \/ RequestFails(o) \/ Crash(o)

Spec == Init /\ [][Next]_vars

\* The timers of the controller and of leader election, the watch and the
\* deployment controller go on; users and disturbances come to an end.
FairSpec ==
    /\ Spec
    /\ WF_vars(ExpireOrphaned) /\ \A d \in Deployments : WF_vars(RollOut(d))
    /\ \A o \in Operators : /\ WF_vars(Watch(o)) /\ WF_vars(Renew(o))
                            /\ WF_vars(Start(o)) /\ WF_vars(Step(o))

-----------------------------------------------------------------------------
(* Properties.                                                             *)

\* The generation that the status calls observed is one whose spec is valid and
\* to which every resource has been set, although requests fail, processes
\* crash, leadership moves in the middle of a pass and another process with an
\* older copy of the site works at the same time (reconcile).
ObservedIsApplied ==
    status.observed > 0 =>
        /\ Valid(WithDefaults(specs[status.observed]))
        /\ \A r \in ToSet(Resources) : status.observed \in applied[r]

\* The resources are what the spec asks for.  The number of replicas of the API
\* tier is the operator's in each pass and the autoscaler's in between.
AsDesired(spec, r) ==
    IF r = "api" /\ spec.hpa.on
    THEN \E n \in {spec.api} \cup (spec.hpa.min..spec.hpa.max) :
            objects[r] = Build([spec EXCEPT !.api = n], r)
    ELSE objects[r] = Build(spec, r)

\* When nothing is disturbed any more, the cluster comes to what the site asks
\* for and stays there, whether its status can be written or not, and however
\* the autoscaler and the operator go on changing the number of replicas.  If
\* the status can be written it says so, and it comes to say so of an invalid
\* spec too (reconcile, error_policy, spawn_leader_election).
Converged ==
    LET spec == WithDefaults(specs[Len(specs)])
    IN  IF Valid(spec)
        THEN References(spec) \subseteq secrets =>
                /\ \A r \in ToSet(Resources) : AsDesired(spec, r)
                /\ takes => /\ status.observed = Len(specs) /\ status.conditions.valid
                            /\ ~spec.hpa.on => status.conditions.ready
        ELSE takes => "valid" \in DOMAIN status.conditions /\ ~status.conditions.valid
Converges == <>[](specs # <<>> => Converged)
=============================================================================
