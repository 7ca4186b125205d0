------------------------------- MODULE Research -------------------------------
(***************************************************************************)
(* alpha/pipeline.py: one formula is scored, backtested before and after a *)
(* cutoff, gated and, if it is accepted, turned into paper targets.  The   *)
(* features come from a file (alpha-run) or from a reviewed snapshot and   *)
(* the bars of the ledger (alpha-run-graph).                               *)
(*                                                                         *)
(* A day is Tick ticks long and starts at its midnight; a bar is dated by  *)
(* the midnight of its day.  Prices and scores are data: a report keeps    *)
(* how many periods it has and which thresholds its numbers pass.  All     *)
(* tickers are priced and scored on the same days, and at least two are:   *)
(* every joined date has enough symbols for a long and a short side.       *)
(***************************************************************************)
EXTENDS Integers, FiniteSets

CONSTANTS
    Tick,       \* bound: what is told apart within a day
    LastDay,    \* bound: days of a price file
    GraphDay,   \* bound: days of bars in the ledger
    MinPeriods  \* periods the gate asks for, 20

ASSUME ResearchAssumption ==
    /\ Tick \in Nat \ {0, 1} /\ MinPeriods \in Nat \ {0}
    /\ LastDay \in Nat /\ GraphDay \in Nat

VARIABLES
    input,      \* what the command is given
    at,         \* how far it has come
    signals,    \* the scored dates: each with when its score was available
    split,      \* the dates before the cutoff and those after
    reports,    \* the backtests of the two
    verdict,    \* the gate's decision, and why
    targets     \* the dates whose scores the paper portfolio holds

research == <<input, at, signals, split, reports, verdict, targets>>

Midnight(d) == Tick * d
Close(d) == Tick * d + 1

NoReport == [periods |-> 0]

\* A file's signal of a day is known by its midnight, or a day late.
FileInput ==
    [kind : {"file"}, bars : SUBSET (1 .. LastDay), featured : SUBSET (1 .. LastDay),
     late : {{}} \cup {{d} : d \in 1 .. LastDay}, asOf : {Close(LastDay - 1), Close(LastDay)},
     costs : BOOLEAN]
FileBars == [d \in input.bars |-> Close(d)]
FileSignals ==
    {[date |-> Midnight(d), known |-> Midnight(IF d \in input.late THEN d + 1 ELSE d)] : d \in input.featured}

\* A ledger bar is available once it is collected, and not before its day is over.
GraphInput ==
    [kind : {"graph"},
     bars : {b \in UNION {[ds -> 0 .. Midnight(GraphDay + 2)] : ds \in SUBSET (1 .. GraphDay)} :
                \A d \in DOMAIN b : Midnight(d + 1) <= b[d]},
     snapshot : 0 .. Midnight(GraphDay + 2), asOf : {Midnight(GraphDay + 1), Close(GraphDay + 2)},
     costs : {TRUE}]

\* market_bars_to_prices, _prices_available_at_snapshot
Kept == {d \in DOMAIN input.bars : input.snapshot <= input.bars[d] /\ input.bars[d] <= input.asOf}
Bars == IF input.kind = "file" THEN FileBars ELSE [d \in Kept |-> input.bars[d]]

\* run_graph_pipeline, graph_ripple_factors: a row is dated by when its bars were there.
MutFeatureDate(d) == Midnight(d)
FeatureDate(d) == input.bars[d]
GraphSignals == {[date |-> FeatureDate(d), known |-> input.snapshot] : d \in Kept}

-----------------------------------------------------------------------------
Init0(i) ==
    /\ input = i /\ at = "load" /\ signals = {}
    /\ split = [train |-> {}, holdout |-> {}] /\ reports = [train |-> NoReport, holdout |-> NoReport]
    /\ verdict = [decision |-> "none", because |-> {}] /\ targets = {}

Raise == at' = "raised" /\ UNCHANGED <<input, signals, split, reports, verdict, targets>>

\* load_prices: everything in the file must have been available.
LoadFile ==
    /\ at = "load" /\ input.kind = "file"
    /\ IF \E d \in DOMAIN Bars : Bars[d] > input.asOf THEN Raise
       ELSE at' = "score" /\ signals' = FileSignals /\ UNCHANGED <<input, split, reports, verdict, targets>>

LoadGraph ==
    /\ at = "load" /\ input.kind = "graph"
    /\ IF Kept = {} THEN Raise
       ELSE at' = "score" /\ signals' = GraphSignals /\ UNCHANGED <<input, split, reports, verdict, targets>>

\* generate: the formula may be refused; evaluate_factor_expression.
Refuse == at = "score" /\ Raise

HoldoutSize(n) == IF MinPeriods * 10 >= n * 3 THEN MinPeriods ELSE (n * 3 + 9) \div 10
Dates == {s.date : s \in signals}
Since(t) == {s \in signals : s.date >= t}

\* _chronological_split
MutBefore(t) == signals
Before(t) == signals \ Since(t)
Splits ==
    IF Cardinality(Dates) < 2 * MinPeriods THEN [train |-> signals, holdout |-> {}]
    ELSE LET cutoff == CHOOSE t \in Dates : Cardinality({u \in Dates : u >= t}) = HoldoutSize(Cardinality(Dates))
         IN  [train |-> Before(cutoff), holdout |-> Since(cutoff)]

Score ==
    /\ at = "score"
    /\ IF signals = {} \/ \E s \in signals : s.known > input.asOf THEN Raise
       ELSE at' = "train" /\ split' = Splits /\ UNCHANGED <<input, signals, reports, verdict, targets>>

-----------------------------------------------------------------------------
(***************************************************************************)
(* backtest_long_short                                                     *)
(***************************************************************************)

\* Rows that meet a price and have a next one; the signal must be the older.
NextBar(s, d) == d \in DOMAIN Bars /\ \E e \in DOMAIN Bars : e > d
Joined(ss) == {s \in ss : \E d \in DOMAIN Bars : Midnight(d) = s.date /\ NextBar(s, d)}
Day(s) == s.date \div Tick
Unknown(ss) == \E s \in Joined(ss) : s.known > Bars[Day(s)]
Ahead(ss) == \E s \in ss : s.date > Midnight(input.asOf \div Tick)

\* What the gate asks of a report: it beats the baseline, or gains, and loses too much.
Report(n) == [periods : {n}, good : BOOLEAN, deep : BOOLEAN]

Starved(why) ==
    IF input.kind = "file" THEN Raise
    ELSE /\ at' = "done" /\ verdict' = [decision |-> "rejected", because |-> {why}]
         /\ UNCHANGED <<input, signals, split, reports, targets>>

Evaluate(part, next) ==
    LET ss == split[part] IN
    /\ at = part
    /\ \/ Ahead(ss) /\ Raise
       \/ ~ Ahead(ss) /\ Joined(ss) = {} /\ Starved("history")
       \/ ~ Ahead(ss) /\ Unknown(ss) /\ Raise
       \/ /\ ~ Ahead(ss) /\ Joined(ss) # {} /\ ~ Unknown(ss)
          /\ at' = next
          /\ \E r \in Report(Cardinality(Joined(ss))) : reports' = [reports EXCEPT ![part] = r]
          /\ UNCHANGED <<input, signals, split, verdict, targets>>

EvaluateTrain == Evaluate("train", IF split.holdout = {} THEN "gate" ELSE "holdout")
EvaluateHoldout == Evaluate("holdout", "gate")

-----------------------------------------------------------------------------
(***************************************************************************)
(* GatekeeperAgent.decide, on both reports of the candidate and the        *)
(* baseline of the first; PortfolioOptimiserAgent.build_targets.           *)
(***************************************************************************)
Tested == reports.holdout # NoReport

Failures ==
    LET r == reports.train  o == reports.holdout IN
    {f \in {"periods"} : r.periods < MinPeriods} \cup {f \in {"costs"} : ~ input.costs} \cup
    {f \in {"drawdown"} : r.deep} \cup {f \in {"baseline"} : ~ r.good} \cup
    IF ~ Tested THEN {}
    ELSE {f \in {"unseen periods"} : o.periods < MinPeriods} \cup
         {f \in {"unseen costs"} : ~ input.costs} \cup
         {f \in {"unseen drawdown"} : o.deep} \cup {f \in {"unseen return"} : ~ o.good}
Review == {f \in {"unseen evidence"} : ~ Tested}

Gate ==
    /\ at = "gate"
    /\ at' = IF Failures \cup Review = {} THEN "paper" ELSE "done"
    /\ verdict' = [because |-> Failures \cup Review,
                   decision |-> IF Failures # {} THEN "rejected"
                                ELSE IF Review # {} THEN "needs_review" ELSE "accepted"]
    /\ UNCHANGED <<input, signals, split, reports, targets>>

\* _paper: the last score of each ticker, wherever its last date lies.
Paper ==
    /\ at = "paper" /\ at' = "done"
    /\ targets' = {t \in Dates : \A u \in Dates : u <= t}
    /\ UNCHANGED <<input, signals, split, reports, verdict>>

ResearchInit == \E i \in FileInput \cup GraphInput : Init0(i)
ResearchNext ==
    \/ LoadFile \/ LoadGraph \/ Refuse \/ Score
    \/ EvaluateTrain \/ EvaluateHoldout \/ Gate \/ Paper
ResearchSpec == ResearchInit /\ [][ResearchNext]_research

-----------------------------------------------------------------------------
(* "A single in-sample report never passes": what has paper targets was    *)
(* tested, with costs, on two sets of dates that lie apart; each has       *)
(* enough periods, and no score is younger than the price it was traded    *)
(* at, nor that price than the time the run is as of.  (As all tickers are *)
(* priced on the same days here, the later set begins where the last       *)
(* return of the other ends; a ticker with gaps carries its return over.)  *)
AcceptedIsUnseen ==
    targets # {} =>
        LET train == Joined(split.train)
            holdout == Joined(split.holdout)
        IN  /\ input.costs /\ Cardinality(train) >= MinPeriods /\ Cardinality(holdout) >= MinPeriods
            /\ \A s \in train, h \in holdout : Day(s) < Day(h)
            /\ \A s \in train \cup holdout : s.known <= Bars[Day(s)] /\ Bars[Day(s)] <= input.asOf

(* A run from a graph dates its features by the time of day their bars     *)
(* were collected and its prices by midnight: unless a collection hits a   *)
(* midnight none is ever scored, however long the history is, and the      *)
(* reason it gives is that history is missing.                             *)
GraphRunsStarve ==
    /\ input.kind = "graph" /\ (\A d \in DOMAIN input.bars : input.bars[d] % Tick # 0)
    /\ at = "done"
    => verdict = [decision |-> "rejected", because |-> {"history"}]
=============================================================================
