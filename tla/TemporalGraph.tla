---------------------------- MODULE TemporalGraph ----------------------------
(***************************************************************************)
(* The bitemporal contracts of temporal_graph: edge rows with an effective *)
(* and a knowledge interval, what is visible at two clocks, which sets of  *)
(* rows a snapshot accepts, and which snapshot of a workspace is latest.   *)
(*                                                                         *)
(* One workspace, with the universe it locked.  Nodes, relationship        *)
(* definitions and coefficients are left out; a confidence is the number   *)
(* of clock units it stays at or above 0.20 (-1: it is below already).     *)
(***************************************************************************)
EXTENDS Integers, FiniteSets

CONSTANTS
    Edge,       \* logical edges: source, target and relationship
    Horizon,    \* bound: clocks stay below it
    MaxMargin,  \* bound: clock units until the best confidence sinks below 0.20
    Id,         \* snapshot identifiers, in their string order
    None        \* "no snapshot"

ASSUME HorizonAssumption == Horizon \in Nat \ {0}
ASSUME MarginAssumption == MaxMargin \in Nat
ASSUME IdAssumption == Id \subseteq Nat

Clock  == 0 .. Horizon - 1
Open   == Horizon               \* an interval end of None
Margin == -1 .. MaxMargin
Status == {"eligible", "ineligible", "review_required"}

\* ef, et: effective_from, effective_to; kf, kt: knowledge_from, knowledge_to;
\* sup: attributes.last_supported_at; by: what computed the row's content.
EdgeRow == [edge : Edge, ef : Clock, et : Clock \cup {Open}, kf : Clock,
            kt : Clock \cup {Open}, life : {"active", "retracted"}, elig : Status,
            margin : Margin, sup : Clock, by : {"new", "assessed", "decayed"}]

-----------------------------------------------------------------------------
Visible(rows, x, k) == {r \in rows : r.ef <= x /\ x < r.et /\ r.kf <= k /\ k < r.kt}

Overlap(r, s) ==
    /\ r.ef < s.et /\ s.ef < r.et
    /\ r.kf < s.kt /\ s.kf < r.kt

\* validate_graph accepts no two rows of an edge that overlap on both axes.
WellFormed(rows) ==
    \A r, s \in rows : r # s /\ r.edge = s.edge => ~ Overlap(r, s)

\* list() sorts by (published_at, snapshot_id); published_at is the knowledge time.
Before(s, t) == s.known < t.known \/ (s.known = t.known /\ s.id < t.id)

Latest(snaps) == CHOOSE s \in snaps : \A t \in snaps \ {s} : Before(t, s)

\* replay: the latest snapshot published by the knowledge time, if there is one.
KnownBy(snaps, k) == {s \in snaps : s.known <= k}
Replay(snaps, x, k) ==
    IF KnownBy(snaps, k) = {} THEN {} ELSE Visible(Latest(KnownBy(snaps, k)).rows, x, k)
=============================================================================
