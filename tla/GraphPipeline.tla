---------------------------- MODULE GraphPipeline ----------------------------
(***************************************************************************)
(* graph_pipeline.service: bootstrap and update of one workspace's graph.  *)
(* A run reads the repository, computes the rows of a whole snapshot and   *)
(* publishes it, in one step: the worker is the only caller.               *)
(*                                                                         *)
(* A request carries, for each edge its evidence names, the verdict of the *)
(* edge policy (module EdgePolicy); one verdict stands for one batch of    *)
(* observations.  Evidence the cutoffs exclude is not in the request.      *)
(***************************************************************************)
EXTENDS TemporalGraph

CONSTANTS
    Verdict,    \* what assess_edge can conclude
    Triggers,   \* the triggers the callers use
    Lag,        \* bound: how far an as-of time trails its knowledge time
    RetireAge   \* clock units without support until retirement (4 half-lives)

ASSUME VerdictAssumption ==
    Verdict \subseteq [status : Status, margin : Margin, retire : BOOLEAN, supported : BOOLEAN]
\* assess_edge makes nothing eligible without support (_replace_state: support_count).
ASSUME SupportAssumption == \A v \in Verdict : v.status = "eligible" => v.supported
ASSUME TriggerAssumption == Triggers \subseteq {"bootstrap", "nightly", "event"}
ASSUME RetireAssumption == RetireAge \in Nat /\ Lag \in Nat

VARIABLE snapshots      \* table temporal_graph_snapshots

Assessment == UNION {[es -> Verdict] : es \in SUBSET Edge}
Request == [id : Id, asof : Clock, known : Clock, trigger : Triggers \cup {"nightly"},
            verdicts : Assessment]

Prior     == Latest(snapshots)
PriorRows == IF snapshots = {} THEN {} ELSE Prior.rows
Named(q)  == DOMAIN q.verdicts

-----------------------------------------------------------------------------
(***************************************************************************)
(* The rows of the next snapshot.                                          *)
(***************************************************************************)

\* _active_states
Active(rows, q) == {r \in Visible(rows, q.asof, q.known) : r.life = "active"}

\* _new_state
NewRow(e, q) ==
    [edge |-> e, ef |-> q.asof, et |-> Open, kf |-> q.known, kt |-> Open,
     life |-> "active", elig |-> q.verdicts[e].status, margin |-> q.verdicts[e].margin,
     sup |-> q.asof, by |-> "new"]

\* _replace_state with expired=True
Retired(r, q, m) ==
    [r EXCEPT !.ef = q.asof, !.et = Open, !.kf = q.known, !.kt = Open,
              !.life = "retracted", !.elig = "ineligible", !.margin = m]

\* _replace_state with new observations
Assessed(r, q) ==
    LET v == q.verdicts[r.edge] IN
    IF v.retire THEN Retired(r, q, v.margin)
    ELSE [NewRow(r.edge, q) EXCEPT !.sup = IF v.supported THEN q.asof ELSE r.sup,
                                   !.by = "assessed"]

\* Nightly decay runs from the last revision, for the row holds what was left then.
MutElapsed(r, q) == q.asof - r.sup
Elapsed(r, q) == q.asof - r.ef

\* Retirement counts from the last support, which a revision keeps.
MutExpired(r, q) == q.asof - r.ef >= RetireAge
Expired(r, q) == q.asof - r.sup >= RetireAge

Decayed(r, q) ==
    LET left == r.margin - Elapsed(r, q)
        m == IF left < 0 THEN -1 ELSE left
    IN  IF Expired(r, q) THEN Retired(r, q, m)
        ELSE [edge |-> r.edge, ef |-> q.asof, et |-> Open, kf |-> q.known, kt |-> Open,
              life |-> "active", elig |-> IF m < 0 THEN "ineligible" ELSE r.elig,
              margin |-> m, sup |-> r.sup, by |-> "decayed"]

Replacement(r, q) == IF r.edge \in Named(q) THEN Assessed(r, q) ELSE Decayed(r, q)

\* An event looks at the edges its evidence names, a nightly run at all active ones.
Affected(r, q) == r.edge \in Named(q) \/ q.trigger = "nightly"

Revised(rows, q) ==
    {r \in Active(rows, q) : Affected(r, q) /\ Replacement(r, q) # r}

\* New edges; retirement evidence for an edge that is not active is dropped.
Added(rows, q) ==
    {NewRow(e, q) : e \in {e \in Named(q) : /\ ~ q.verdicts[e].retire
                                            /\ \A r \in Active(rows, q) : r.edge # e}}

\* _close_and_append: the revised row is closed, its past is stated anew as known
\* now, and the replacement holds from the as-of time on.
MutClosed(r, q) == [r EXCEPT !.et = q.asof, !.kt = q.known]
Closed(r, q) == [r EXCEPT !.kt = q.known]
MutPast(r, q) == [r EXCEPT !.et = q.asof]
Past(r, q) == [r EXCEPT !.et = q.asof, !.kf = q.known, !.kt = Open]

NextRows(rows, q) ==
    LET revised == Revised(rows, q) IN
    (rows \ revised)
        \cup {Closed(r, q) : r \in revised}
        \cup {Past(r, q) : r \in {s \in revised : q.asof > s.ef}}
        \cup {Replacement(r, q) : r \in revised}
        \cup Added(rows, q)

-----------------------------------------------------------------------------
(***************************************************************************)
(* _run                                                                    *)
(***************************************************************************)

\* _close_and_append raises unless the knowledge time moves on.
Timely(rows, q) == \A r \in Revised(rows, q) : q.known > r.kf

\* The knowledge time may equal the latest snapshot's, but not precede it.
InOrder(q) == snapshots # {} => q.known >= Prior.known

Replayed(q) == \E s \in snapshots : s.req = q

Publishable(q) ==
    /\ q.asof <= q.known /\ q.known - q.asof <= Lag
    /\ \A s \in snapshots : s.id # q.id
    /\ InOrder(q)
    /\ ~ Replayed(q)
    /\ Timely(PriorRows, q)
    /\ WellFormed(NextRows(PriorRows, q))

(* A request that is not publishable is a replay or a ValueError: neither  *)
(* changes the repository.                                                 *)
Run(q) ==
    /\ Publishable(q)
    /\ snapshots' = snapshots \cup
         {[id |-> q.id, asof |-> q.asof, known |-> q.known,
           parent |-> IF snapshots = {} THEN None ELSE Prior.id,
           rows |-> NextRows(PriorRows, q), req |-> q]}

\* bootstrap_graph: with a prior snapshot, an exact replay is looked for before
\* anything else, and everything else becomes a nightly update.
BootstrapGraph(q) ==
    /\ q.trigger = "bootstrap"
    /\ IF snapshots = {} THEN Run(q)
       ELSE ~ Replayed(q) /\ Run([q EXCEPT !.trigger = "nightly"])

UpdateGraph(q) == q.trigger # "bootstrap" /\ Run(q)

Init == snapshots = {}

Next == \E q \in Request : q.trigger \in Triggers /\ (BootstrapGraph(q) \/ UpdateGraph(q))

Spec == Init /\ [][Next]_snapshots

-----------------------------------------------------------------------------
(***************************************************************************)
(* Properties.                                                             *)
(***************************************************************************)

Snapshot == [id : Id, asof : Clock, known : Clock, parent : Id \cup {None},
             rows : SUBSET EdgeRow, req : Request]

(* Snapshots are typed and their identifiers unique.  The intervals of      *)
(* every row are ordered: model_copy does not run the contract's validator. *)
TypeOK ==
    /\ snapshots \subseteq Snapshot
    /\ \A s, t \in snapshots : s.id = t.id => s = t
    /\ \A s \in snapshots : \A r \in s.rows : r.ef < r.et /\ r.kf < r.kt

\* What a row says, whether or not it has been closed since.
Claim(r) == [r EXCEPT !.kt = Open]
Claims(rows) == {Claim(r) : r \in rows}

(* "Historical effective and knowledge-time views can be replayed": a later *)
(* snapshot says of every earlier knowledge time exactly what a replay at   *)
(* that time says, whatever has been revised, decayed or retired since.     *)
HistoryKept ==
    \A s \in snapshots : \A x, k \in Clock :
        k < s.known => Claims(Visible(s.rows, x, k)) = Claims(Replay(snapshots, x, k))

(* Strategy eligibility is earned: the visible row of an eligible edge goes *)
(* back to a published request whose evidence made it eligible, and its     *)
(* confidence has decayed by the time since that evidence, no more and no   *)
(* less, however many nightly runs there were in between.                   *)
EligibleIsEarned ==
    \A s \in snapshots : \A r \in Active(s.rows, s) : r.elig = "eligible" =>
        \E u \in snapshots :
            /\ u.asof = r.sup
            /\ r.edge \in Named(u.req)
            /\ u.req.verdicts[r.edge].status = "eligible"
            /\ r.margin = u.req.verdicts[r.edge].margin - (r.ef - r.sup)

(* "Retires an edge after four half-lives without support": after a nightly *)
(* run no edge is active that was last supported that long ago, unless the  *)
(* run itself saw evidence on it.                                           *)
NightlyRetires ==
    \A s \in snapshots : s.req.trigger = "nightly" =>
        \A r \in Active(s.rows, s) : r.edge \notin Named(s.req) => s.asof - r.sup < RetireAge

(* "Changed logical edges close their prior knowledge interval and append a *)
(* new state": whatever has been revised and decayed, a request whose clocks *)
(* have both moved on, the as-of clock past every earlier run, is not        *)
(* refused, while no edge is retired.                                        *)
UpdatesSucceedUntilRetirement ==
    snapshots # {} /\ (\A r \in PriorRows : r.life = "active") =>
        \A x, k \in Clock : (\A s \in snapshots : s.asof <= x) /\ Prior.known < k =>
            \A t \in {"event", "nightly"}, v \in Assessment :
                LET q == [Prior.req EXCEPT !.asof = x, !.known = k, !.trigger = t,
                                           !.verdicts = v]
                IN  Timely(PriorRows, q) /\ WellFormed(NextRows(PriorRows, q))
=============================================================================
