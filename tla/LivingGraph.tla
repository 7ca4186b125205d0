------------------------------ MODULE LivingGraph ------------------------------
(***************************************************************************)
(* The reviewed semiconductor graph: agents/graph_adjudicator.py turns     *)
(* ledger evidence into the next snapshot, graph_registry.py writes it     *)
(* once, and two readers choose one by time: SnapshotTimeline of           *)
(* historical/replay.py and _select_snapshot of historical_panel.py.       *)
(*                                                                         *)
(* The caller names the snapshot to start from and, at night, the as-of    *)
(* time; nothing checks either.  DuckDB lets one process in, so evidence   *)
(* is read while no collection runs.  Of an edge's numbers only the        *)
(* evidence they were moved by is kept.                                    *)
(***************************************************************************)
EXTENDS EvidenceIntake, FiniteSets

CONSTANTS
    Entities,    \* of each observation: the registered entities it resolves to
    Mentioned,   \* of each observation: the entities its adapter says it mentions
    Textual,     \* observations with a text or an event: they can support an edge
    Edge,        \* what a decision may name: upstream, downstream and type
    Pair,        \* of each edge: its two entities
    Seed,        \* the edges of the first snapshot
    None,        \* sentinel
    MaxWork      \* bound: collections and snapshot files together

ASSUME GraphAssumption ==
    /\ Textual \subseteq Obs /\ Seed \subseteq Edge /\ Seed # {}
    /\ MaxWork \in Nat

\* effective_to of an edge that is in force.
Open == None

\* An edge of a snapshot.  because is not in the files: all the evidence that moved it.
ReviewedEdge ==
    [from : Nat, to : Nat \cup {Open}, filed : Nat, reviewed : Nat, because : SUBSET Obs]

ASSUME EdgeAssumption == None \notin Nat \cup ReviewedEdge

VARIABLES
    snapshots,  \* the files, in the order they were written; base: what each was built from
    draft       \* the next one as it is made in memory, or None

vars == <<clock, intake, snapshots, draft>>

-----------------------------------------------------------------------------
(***************************************************************************)
(* GraphAdjudicatorAgent.                                                  *)
(***************************************************************************)

\* Everything the model may answer for a cluster that _decide_cluster accepts, but
\* to hold.  cited is _strongest_evidence: which it is depends on tiers and ages.
Decisions(cluster) ==
    {d \in [action : {"approve_edge", "update_state", "retire_edge"}, edge : Edge,
            supporting : SUBSET (cluster \cap Textual), cited : cluster] :
        d.cited \in d.supporting}

\* The review is dated by the as-of time, not by the time of day.
MutReviewedAt(t) == clock
ReviewedAt(t) == t

NewEdge(d, t) ==
    [from |-> t, to |-> Open, filed |-> Available[d.cited], reviewed |-> ReviewedAt(t),
     because |-> d.supporting]
UpdatedEdge(x, d, t) ==
    [x EXCEPT !.filed = Available[d.cited], !.reviewed = ReviewedAt(t),
              !.because = @ \cup d.supporting]

\* _apply_decision.  An edge that is there, a retired one too, is not approved again.
Moved(es, d, t) ==
    CASE d.action = "retire_edge" /\ es[d.edge] # None -> [es EXCEPT ![d.edge].to = t]
      [] d.action = "update_state" /\ es[d.edge] # None ->
            [es EXCEPT ![d.edge] = UpdatedEdge(@, d, t)]
      [] OTHER -> es
Approved(es, d, t) == [es EXCEPT ![d.edge] = NewEdge(d, t)]

MutApplied(es, d, t) == IF d.action = "approve_edge" THEN Approved(es, d, t) ELSE Moved(es, d, t)
Applied(es, d, t) ==
    IF d.action = "approve_edge" /\ es[d.edge] = None THEN Approved(es, d, t) ELSE Moved(es, d, t)

\* Held: what is not available yet, and what resolves to fewer than two entities.
Eligible(os, t) == {o \in os : Available[o] <= t /\ Cardinality(Entities[o]) >= 2}
Clusters(os) == {{p \in os : Entities[p] = Entities[o]} : o \in os}

\* adjudicate, from its first statement to the loop over the clusters.
BeginAdjudication(os, base, t) ==
    /\ draft = None /\ begun + Len(snapshots) < MaxWork
    /\ draft' = [created |-> t, base |-> base, edges |-> snapshots[base].edges,
                 left |-> Clusters(Eligible(os, t))]
    /\ UNCHANGED <<clock, intake, snapshots>>

\* One round of the loop.
Decide(c) ==
    /\ draft # None /\ c \in draft.left
    /\ \E es \in {draft.edges} \cup {Applied(draft.edges, d, draft.created) : d \in Decisions(c)} :
          draft' = [draft EXCEPT !.left = @ \ {c}, !.edges = es]
    /\ UNCHANGED <<clock, intake, snapshots>>

\* build_snapshot wants an edge, publish_new a new path.
PublishNew ==
    /\ draft # None /\ draft.left = {}
    /\ \E e \in Edge : draft.edges[e] # None
    /\ snapshots' = Append(snapshots, [created |-> draft.created, base |-> draft.base,
                                       edges |-> draft.edges])
    /\ draft' = None
    /\ UNCHANGED <<clock, intake>>

\* The model raises, or its answer is refused, or the process dies: nothing is written.
AdjudicationRaises ==
    /\ draft # None
    /\ draft' = None
    /\ UNCHANGED <<clock, intake, snapshots>>

-----------------------------------------------------------------------------
(***************************************************************************)
(* Its callers.                                                            *)
(***************************************************************************)

\* observations_as_of
AsOf(t) == {o \in Known : Available[o] <= t}

\* NightlyGraphConsolidator.consolidate
Consolidate(base, t) ==
    /\ collect.at = "idle"
    /\ BeginAdjudication(AsOf(t), base, t)

\* observations_for_run: those the run was the first to emit.
ForRun(r) == {o.obs : o \in {x \in ledger : x.run = r}}

\* select_graph_build_observations: one text for each mentioned pair the graph has no
\* edge of, a retired one included; which edges follow is the workflow's to say.
Selections(os, base) ==
    LET existing == {Pair[e] : e \in {x \in Edge : snapshots[base].edges[x] # None}}
        fresh == {o \in os \cap Textual : Cardinality(Mentioned[o]) = 2 /\ Mentioned[o] \notin existing}
    IN  {s \in SUBSET fresh \ {{}} : \A o, p \in s : Mentioned[o] = Mentioned[p] => o = p}

\* build-graph-from-evidence
BuildFromRun(r, base) ==
    /\ collect.at = "idle"
    /\ \E os \in Selections(ForRun(r), base) : BeginAdjudication(os, base, clock)

\* Nothing reads the clock in the middle of an adjudication.
Tick ==
    /\ clock < LastTime /\ draft = None
    /\ clock' = clock + 1
    /\ UNCHANGED <<intake, snapshots, draft>>

Init ==
    /\ clock = 0 /\ IntakeInit /\ draft = None
    /\ snapshots = <<[created |-> 0, base |-> 0,
          edges |-> [e \in Edge |->
              IF e \in Seed
              THEN [from |-> 0, to |-> Open, filed |-> 0, reviewed |-> 0, because |-> {}]
              ELSE None]]>>

Next ==
    \/ /\ IntakeStep /\ draft = None /\ begun' + Len(snapshots) <= MaxWork
       /\ UNCHANGED <<clock, snapshots, draft>>
    \/ \E base \in DOMAIN snapshots, t \in 0 .. clock : Consolidate(base, t)
    \/ \E base \in DOMAIN snapshots, r \in Run : BuildFromRun(r, base)
    \/ (\E c \in SUBSET Obs : Decide(c)) \/ PublishNew \/ AdjudicationRaises
    \/ Tick

Spec == Init /\ [][Next]_vars

-----------------------------------------------------------------------------
(***************************************************************************)
(* The readers.  Either may meet several newest snapshots.                 *)
(***************************************************************************)
Newest(is, by) == {i \in is : \A k \in is : by[k] <= by[i]}

CreatedAt(i) == snapshots[i].created
Creation == [i \in DOMAIN snapshots |-> CreatedAt(i)]

\* SnapshotTimeline.select_as_of
MutSelectAsOf(t) == Newest(DOMAIN snapshots, Creation)
SelectAsOf(t) == Newest({i \in DOMAIN snapshots : CreatedAt(i) <= t}, Creation)

\* _snapshot_available_at, _select_snapshot
AvailableAt(i) ==
    LET es == {snapshots[i].edges[e] : e \in Edge} \ {None}
    IN  CHOOSE t \in {CreatedAt(i)} \cup {x.filed : x \in es} \cup {x.reviewed : x \in es} :
            /\ CreatedAt(i) <= t
            /\ \A x \in es : x.filed <= t /\ x.reviewed <= t
Availability == [i \in DOMAIN snapshots |-> AvailableAt(i)]
SelectSnapshot(t) == Newest({i \in DOMAIN snapshots : Availability[i] <= t}, Availability)

\* SupplyChainEdge.is_effective: the day it ends on is part of it.
IsEffective(x, t) == x.from <= t /\ (x.to = Open \/ t <= x.to)
Scored(i, t) ==
    {e \in Edge : snapshots[i].edges[e] # None /\ IsEffective(snapshots[i].edges[e], t)}

Row(i, t) == [at |-> t, snapshot |-> i, scored |-> Scored(i, t)]

\* HistoricalScenarioReplayer.replay, of an event as old as the graph; t may be ahead.
Replay(t) == {Row(i, t) : i \in SelectAsOf(t)}

\* build_historical_graph_panel, with a price for each time; static keeps one snapshot.
Refused(asOf) == \E i \in DOMAIN snapshots : AvailableAt(i) > asOf
Panel(asOf) ==
    IF Refused(asOf) THEN {} ELSE UNION {{Row(i, t) : i \in SelectSnapshot(t)} : t \in 0 .. asOf}
StaticPanel(i, asOf) ==
    IF Refused(asOf) THEN {} ELSE {Row(i, t) : t \in AvailableAt(i) .. asOf}

\* Every snapshot of the lineage was created no earlier than what it starts from.
InOrder(i) ==
    \E lineage \in SUBSET DOMAIN snapshots :
        /\ i \in lineage
        /\ \A k \in lineage :
              LET base == snapshots[k].base IN
              base # 0 => base \in lineage /\ CreatedAt(base) <= CreatedAt(k)

\* Every snapshot starts from the newest one and is created later.
Straight ==
    \A i \in DOMAIN snapshots :
        i > 1 => snapshots[i].base = i - 1 /\ CreatedAt(i - 1) < CreatedAt(i)

-----------------------------------------------------------------------------
(* No hindsight: what a replay or a panel row at some time is scored on    *)
(* was moved only by evidence available at that time, however late it was  *)
(* collected and consolidated, while as-of times in the lineage of the     *)
(* snapshot do not move back ("Leakage-safe historical panels").           *)
NoHindsight ==
    \A row \in (UNION {Replay(t) \cup Panel(t) : t \in Time}) \cup
                (UNION {StaticPanel(i, LastTime + 1) : i \in DOMAIN snapshots}) :
        InOrder(row.snapshot) =>
            \A e \in row.scored : \A o \in snapshots[row.snapshot].edges[e].because :
                Available[o] <= row.at

(* The two readers agree: replays go by when a snapshot was created,       *)
(* panels by the latest date in it, and both choose the same one, while    *)
(* every snapshot starts from the newest.                                  *)
ReadersAgree == Straight => \A t \in Time : SelectAsOf(t) = SelectSnapshot(t)

(* A retired relationship is scored no more after the snapshot that        *)
(* retired it, whatever is decided, at night or from a run, about it or    *)
(* its entities later.                                                     *)
RetiredIsFinal ==
    Straight =>
        \A i \in DOMAIN snapshots \ {1} : \A e \in Edge :
            LET earlier == snapshots[i - 1].edges[e] IN
            (earlier # None /\ earlier.to # Open) =>
                \A t \in Time : t > CreatedAt(i) => e \notin Scored(i, t)
=============================================================================
