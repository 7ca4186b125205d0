------------------------------ MODULE EdgePolicy ------------------------------
(***************************************************************************)
(* graph_pipeline.policy: what the evidence gathered on one edge makes of  *)
(* it.  Qualities are kept exactly, as multiples of 1/Scale; ages are      *)
(* counted in half-lives of the source tier.                               *)
(***************************************************************************)
EXTENDS Integers, FiniteSets, Functions, FiniteSetsExt

CONSTANTS
    Host,       \* source identities: the host of a URL, or the adapter
    Tier,       \* the source tiers in use
    MaxAge,     \* bound: age of an observation, in half-lives (at most 1)
    MaxGather   \* bound: observations on the edge

ASSUME TierAssumption == Tier \subseteq {"primary", "official", "discovery", "market_data"}
ASSUME GatherAssumption == MaxAge \in 0 .. 1 /\ MaxGather \in Nat

VARIABLE obs    \* the observations that name the edge; n tells equal ones apart

Stance == {"support", "contradict", "retire"}
Observation == [host : Host, tier : Tier, age : 0 .. MaxAge, stance : Stance, n : 1 .. MaxGather]

-----------------------------------------------------------------------------
Scale == 40
SourceReliability == [primary |-> 36, official |-> 30, discovery |-> 14, market_data |-> 20]

Quality(o) == SourceReliability[o.tier] \div (2 ^ o.age)

With(os, s) == {o \in os : o.stance = s}
Hosts(os)   == {o.host : o \in os}

\* Everything but a contradiction supports; each host counts once, with its best.
Supporting(os) == os \ With(os, "contradict")
MutBest(os, h) == Min({Quality(o) : o \in {p \in Supporting(os) : p.host = h}})
Best(os, h) == Max({Quality(o) : o \in {p \in Supporting(os) : p.host = h}})

\* Support confidence is 1 - Doubt / Unit, the product over hosts taken over Scale each.
Product(q) == FoldFunction(LAMBDA a, b : a * b, 1, q)
Doubt(os)  == Product([h \in Hosts(Supporting(os)) |-> Scale - Best(os, h)])
Unit(os)   == Product([h \in Hosts(Supporting(os)) |-> Scale])

\* confidence >= p/q, with the contradictions' share taken off.
Confident(os, p, q) ==
    q * (Unit(os) - Doubt(os)) * Cardinality(Supporting(os)) >= p * Unit(os) * Cardinality(os)

\* The share of contradictions among the observations exceeds 30%.
MutConflicting(os) == Cardinality(With(os, "contradict")) * 2 > Cardinality(os)
Conflicting(os) == Cardinality(With(os, "contradict")) * 10 > Cardinality(os) * 3

Retiring(os) ==
    /\ Cardinality(Hosts(With(os, "retire"))) >= 2
    /\ With(os, "contradict") = {}

Corroborated(os) == Cardinality(Hosts(Supporting(os))) >= 2 /\ Confident(os, 1, 2)

\* assess_edge
Assess(os) ==
    CASE Retiring(os) -> "ineligible"
      [] ~ Retiring(os) /\ Corroborated(os) ->
            IF Conflicting(os) THEN "review_required" ELSE "eligible"
      [] OTHER ->
            IF Conflicting(os) THEN "review_required" ELSE "ineligible"

-----------------------------------------------------------------------------
Alike(o, p) == [o EXCEPT !.n = 1] = [p EXCEPT !.n = 1]

Gather(o) ==
    /\ Cardinality(obs) < MaxGather
    /\ o.n = 1 + Cardinality({p \in obs : Alike(o, p)})
    /\ obs' = obs \cup {o}

Init == obs = {}
Next == \E o \in Observation : Gather(o)
Spec == Init /\ [][Next]_obs

-----------------------------------------------------------------------------
(* "Contradictions above a 30% share require review", on every branch of   *)
(* the policy and whatever else the evidence says.                         *)
ConflictIsReviewed ==
    10 * Cardinality({o \in obs : o.stance = "contradict"}) > 3 * Cardinality(obs)
        => Assess(obs) = "review_required"

(* One more observation pulls the verdict its own way only: a supporting   *)
(* one, of any tier, age or host, never costs an edge its eligibility, and *)
(* a contradiction never earns it, where nobody asks for its retirement.   *)
VerdictFollowsEvidence ==
    [][\A o \in obs' \ obs :
         /\ o.stance = "support" /\ Assess(obs) = "eligible" => Assess(obs') = "eligible"
         /\ /\ o.stance = "contradict" /\ With(obs, "retire") = {}
            /\ Assess(obs') = "eligible"
            => Assess(obs) = "eligible"]_obs
=============================================================================
