---------------------------- MODULE FeatureRefresh ----------------------------
(***************************************************************************)
(* features/refresh.py: a refresh job turns the graph snapshot a workspace *)
(* is pinned to into artifacts and versioned bindings, one commit at a     *)
(* time; server/feature_api.py submits it, server/alpha_api.py saves       *)
(* strategies that name the bindings.                                      *)
(*                                                                         *)
(* One workspace.  The cutoffs are functions of the snapshot, as the route *)
(* computes them, so a snapshot stands for itself and its cutoffs.  The    *)
(* order in which jobs are run is JobRuntime's.                            *)
(***************************************************************************)
EXTENDS Naturals, Sequences

CONSTANTS
    Catalog,        \* the features of default_feature_catalog, in its order
    RequiresGraph,  \* those with required_graph
    Computed,       \* those a snapshot alone suffices for (all but neighbor_lag)
    Graph,          \* published snapshots
    Foreign,        \* those of another workspace or universe
    Bare,           \* those without an entity or instrument
    Job,            \* refreshes somebody may submit
    Name,           \* strategies somebody may save
    None,           \* sentinel
    MaxFailure      \* bound: crashes and database errors of the worker

Feature == {Catalog[i] : i \in DOMAIN Catalog}

ASSUME CatalogAssumption ==
    /\ Catalog \in Seq(Feature)
    /\ \A i, k \in DOMAIN Catalog : Catalog[i] = Catalog[k] => i = k
    /\ Computed \subseteq RequiresGraph /\ RequiresGraph \subseteq Feature
ASSUME GraphAssumption == Foreign \subseteq Graph /\ Bare \subseteq Graph
ASSUME NoneAssumption == None \notin Graph \cup Job \cup Feature

\* The rows of feature-refresh jobs and of workspace_feature_bindings.
Request == [status : {"queued", "running", "failed", "succeeded"}, graph : Graph]
Binding ==
    [feature : Feature, version : Nat, status : {"ready", "unavailable"},
     graph : Graph \cup {None}, source : {<<g>> : g \in Graph}, made : {<<g>> : g \in Graph}]

ASSUME RowAssumption == None \notin Request \cup Binding
ASSUME FailureAssumption == MaxFailure \in Nat

VARIABLES
    pin,        \* graph_version_id of the latest workspace version
    jobs,       \* the feature-refresh jobs: status, and the snapshot of the payload
    artifacts,  \* table feature_artifacts
    bindings,   \* table workspace_feature_bindings
    hand,       \* the job the worker is running
    stage,      \* where it is in refresh_workspace_features
    at,         \* the record it writes next
    prior,      \* by_feature: the bindings it has read
    draft,      \* the request of the API that has read its context
    strategies, \* strategies put
    failures

vars == <<pin, jobs, artifacts, bindings, hand, stage, at, prior, draft, strategies, failures>>
api == <<draft, strategies>>
worker == <<hand, stage, at, prior>>

-----------------------------------------------------------------------------
Owned(g) == g \in Graph \ Foreign

\* created_at of what a refresh writes: the cutoff of the snapshot, not the time of day.
MutMade(g) == <<g, failures>>
Made(g) == <<g>>

Definition(f) == [kind |-> "definition", id |-> <<f>>, made |-> <<"2026-01-01">>]
FeatureSet(g) == [kind |-> "feature_set", id |-> <<g>>, made |-> Made(g)]
Observation(f, g) == [kind |-> "observation", id |-> <<f, g>>, made |-> Made(g)]
Manifest(g) == [kind |-> "manifest", id |-> <<g>>, made |-> Made(g)]

\* build_feature_frame: what a snapshot has values for.  A refresh supplies no frames.
Observed(f, g) == f \in Computed /\ g \notin Bare

-----------------------------------------------------------------------------
(***************************************************************************)
(* Bindings.                                                               *)
(***************************************************************************)
BindingsOf(f) == {b \in bindings : b.feature = f}

\* The version with the greatest number, or None.
MutNewest(bs) ==
    IF bs = {} THEN None ELSE CHOOSE b \in bs : \A c \in bs : b.version <= c.version
Newest(bs) ==
    IF bs = {} THEN None ELSE CHOOSE b \in bs : \A c \in bs : c.version <= b.version

MutProposed(f, g, v) ==
    [feature |-> f, version |-> v, status |-> IF f \in Computed THEN "ready" ELSE "unavailable",
     graph |-> IF f \in RequiresGraph THEN g ELSE None, source |-> Manifest(g).id, made |-> Made(g)]
Proposed(f, g, v) ==
    [feature |-> f, version |-> v, status |-> IF Observed(f, g) THEN "ready" ELSE "unavailable",
     graph |-> IF f \in RequiresGraph THEN g ELSE None, source |-> Manifest(g).id, made |-> Made(g)]

\* _binding_semantics: everything but version and created_at.
SameMeaning(b, c) == [b EXCEPT !.version = c.version, !.made = c.made] = c

\* WorkspaceFeatureBinding.ready_for, and the digest the route compares.
MutReadyFor(b, g) == b.status = "ready"
ReadyFor(b, g) == b.status = "ready" /\ (b.graph = None \/ b.graph = g)

-----------------------------------------------------------------------------
(***************************************************************************)
(* The API.                                                                *)
(***************************************************************************)

\* No operation of the repository pins a snapshot; its tests put such a version.
Pin(g) ==
    /\ pin' = g
    /\ UNCHANGED <<jobs, artifacts, bindings, worker, api, failures>>

\* refresh_features: the payload names the snapshot that is pinned now.
RefreshFeatures(j) ==
    /\ jobs[j] = None
    /\ pin # None /\ Owned(pin)
    /\ jobs' = [jobs EXCEPT ![j] = [status |-> "queued", graph |-> pin]]
    /\ UNCHANGED <<pin, artifacts, bindings, worker, api, failures>>

\* list_features: what it shows as ready, by the newest binding of each feature.
Listed(f, g) == Newest(BindingsOf(f)) # None /\ ReadyFor(Newest(BindingsOf(f)), g)

\* _strategy_from_request: the features and their newest bindings.
Strategy(n, g, fs) == [name |-> n, graph |-> g, refs |-> {Newest(BindingsOf(f)) : f \in fs}]

\* _pinned_context
PinnedContext(n, g, fs) ==
    /\ draft = None /\ \A s \in strategies : s.name # n
    /\ Owned(g)
    /\ \A f \in fs : Listed(f, g)
    /\ draft' = Strategy(n, g, fs)
    /\ UNCHANGED <<pin, jobs, artifacts, bindings, worker, strategies, failures>>

\* save_strategy
SaveStrategy ==
    /\ draft # None
    /\ strategies' = strategies \cup {draft}
    /\ draft' = None
    /\ UNCHANGED <<pin, jobs, artifacts, bindings, worker, failures>>

-----------------------------------------------------------------------------
(***************************************************************************)
(* The worker.                                                             *)
(***************************************************************************)
Idle == hand' = None /\ stage' = "idle" /\ at' = 0 /\ prior' = [f \in Feature |-> None]
End(status) ==
    /\ jobs' = [jobs EXCEPT ![hand].status = status]
    /\ Idle
    /\ UNCHANGED <<pin, artifacts, bindings, api, failures>>
Go(s, i) == stage' = s /\ at' = i /\ UNCHANGED <<pin, jobs, hand, api, failures>>

Take(j) ==
    /\ hand = None
    /\ jobs[j] # None /\ jobs[j].status = "queued"
    /\ jobs' = [jobs EXCEPT ![j].status = "running"]
    /\ hand' = j /\ stage' = "check"
    /\ UNCHANGED <<pin, artifacts, bindings, at, prior, api, failures>>

Target == jobs[hand].graph

Stale == pin # Target \/ ~ Owned(pin)

CheckPin ==
    /\ stage = "check"
    /\ IF Stale THEN End("failed")
       ELSE Go("define", 1) /\ UNCHANGED <<artifacts, bindings, prior>>

\* PostgresFeatureRepository._put: what is there must be the same.
Conflict(a) == \E b \in artifacts : b.kind = a.kind /\ b.id = a.id /\ b # a

Put(a, s, i) ==
    IF Conflict(a) THEN End("failed")
    ELSE artifacts' = artifacts \cup {a} /\ Go(s, i) /\ UNCHANGED <<bindings, prior>>

\* The records a refresh writes before its bindings, in order.
PutDefinition ==
    /\ stage = "define" /\ at <= Len(Catalog)
    /\ Put(Definition(Catalog[at]), "define", at + 1)

PutFeatureSet ==
    /\ stage = "define" /\ at > Len(Catalog)
    /\ Put(FeatureSet(Target), "observe", 1)

PutObservation ==
    /\ stage = "observe" /\ at <= Len(Catalog)
    /\ IF Observed(Catalog[at], Target)
       THEN Put(Observation(Catalog[at], Target), "observe", at + 1)
       ELSE Go("observe", at + 1) /\ UNCHANGED <<artifacts, bindings, prior>>

PutManifest ==
    /\ stage = "observe" /\ at > Len(Catalog)
    /\ Put(Manifest(Target), "list", 1)

ListBindings ==
    /\ stage = "list"
    /\ prior' = [f \in Feature |-> Newest(BindingsOf(f))]
    /\ Go("bind", 1)
    /\ UNCHANGED <<artifacts, bindings>>

\* put_binding: a version is immutable.
Clash(new) == \E b \in BindingsOf(new.feature) : b.version = new.version /\ b # new

\* The binding of one feature, unless it says what the newest one says.
PutBinding ==
    /\ stage = "bind" /\ at <= Len(Catalog)
    /\ LET f == Catalog[at]
           old == prior[f]
           new == Proposed(f, Target, IF old = None THEN 1 ELSE old.version + 1)
       IN  IF old # None /\ SameMeaning(new, old)
           THEN Go("bind", at + 1) /\ UNCHANGED <<artifacts, bindings, prior>>
           ELSE IF Clash(new)
                THEN End("failed")
                ELSE /\ bindings' = bindings \cup {new}
                     /\ Go("bind", at + 1)
                     /\ UNCHANGED <<artifacts, prior>>

Return ==
    /\ stage = "bind" /\ at > Len(Catalog)
    /\ End("succeeded")

\* An error of PostgreSQL ends the job, the death of the worker does not.
Fault ==
    /\ hand # None /\ failures < MaxFailure
    /\ failures' = failures + 1
    /\ \E s \in {"failed", "queued"} : jobs' = [jobs EXCEPT ![hand].status = s]
    /\ Idle
    /\ UNCHANGED <<pin, artifacts, bindings, api>>

-----------------------------------------------------------------------------
Init ==
    /\ pin = None
    /\ jobs = [j \in Job |-> None]
    /\ artifacts = {} /\ bindings = {}
    /\ hand = None /\ stage = "idle" /\ at = 0 /\ prior = [f \in Feature |-> None]
    /\ draft = None /\ strategies = {} /\ failures = 0

WorkerStep ==
    \/ \E j \in Job : Take(j)
    \/ CheckPin \/ PutDefinition \/ PutFeatureSet \/ PutObservation \/ PutManifest
    \/ ListBindings \/ PutBinding \/ Return

Next ==
    \/ \E g \in Graph : Pin(g)
    \/ \E j \in Job : RefreshFeatures(j)
    \/ \E n \in Name, g \in Graph, fs \in SUBSET Feature \ {{}} : PinnedContext(n, g, fs)
    \/ SaveStrategy
    \/ WorkerStep
    \/ Fault

Spec == Init /\ [][Next]_vars

-----------------------------------------------------------------------------
(* What a reader of the bindings relies on: whatever dies between two of   *)
(* the commits, a ready binding has behind it the manifest it names, the   *)
(* set, its definition and its observations                                *)
(* (refresh_workspace_features writes the bindings last).                  *)
ReadyIsBacked ==
    \A b \in bindings : b.status = "ready" =>
        \A a \in {Manifest(b.graph), FeatureSet(b.graph), Definition(b.feature),
                  Observation(b.feature, b.graph)} : a \in artifacts

(* A refresh that finds its snapshot still pinned does not fail, whatever  *)
(* earlier attempts have left behind ("restart-safe"): none of the         *)
(* immutability checks ever fires.                                         *)
OnlyPinsFail ==
    [][\A j \in Job :
          /\ jobs[j] # None /\ jobs[j].status = "running" /\ jobs'[j].status = "failed"
          /\ failures' = failures
          => stage = "check" /\ (pin # jobs[j].graph \/ pin \in Foreign)]_vars

(* A refresh that succeeded leaves every feature bound to its snapshot,    *)
(* also where the workspace has come back to an older one.                 *)
SuccessBindsAll ==
    [][\A j \in Job : jobs[j] # jobs'[j] /\ jobs'[j].status = "succeeded" =>
          \A f \in Feature : \E b \in BindingsOf(f) :
              /\ b.source = <<jobs[j].graph>>
              /\ \A c \in BindingsOf(f) : c.version <= b.version]_vars

(* A saved strategy names, for each of its features, a stored binding that *)
(* was computed from the strategy's own snapshot, although the bindings    *)
(* may have moved on between the reading and the writing.                  *)
StrategyIsGrounded ==
    \A s \in strategies : \A b \in s.refs :
        b \in bindings /\ Observation(b.feature, s.graph) \in artifacts
=============================================================================
