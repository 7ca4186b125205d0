------------------------------- MODULE Scenario -------------------------------
(***************************************************************************)
(* SupplyChainGraph.scenario: a shock is passed along the edges of a       *)
(* snapshot that are effective, breadth first and at most MaxHops far, and *)
(* each entity keeps the strongest path that reached it.                   *)
(*                                                                         *)
(* An edge weakens what it passes on by the factor weight * (1 -           *)
(* substitutability): it is given here by its loss, -log of that, so that  *)
(* a path's loss is the sum of its edges' and the strongest has the least. *)
(* An edge that passes nothing on (a factor of zero) and the rounding of   *)
(* floats are left out.                                                    *)
(***************************************************************************)
EXTENDS Integers, Sequences, FiniteSetsExt

CONSTANTS
    Node, Shock,    \* entities, and the one that is shocked
    Links,          \* the ordered pairs that may have an edge, in file order
    MaxLoss,        \* bound: the loss of an edge
    MaxHops,        \* hops a shock is followed, 3 unless asked otherwise
    NoPath          \* sentinel

ASSUME ScenarioAssumption ==
    /\ Shock \in Node /\ Links \in Seq(Node \X Node)
    /\ MaxLoss \in Nat /\ MaxHops \in Nat \ {0}
    /\ NoPath \notin Int /\ NoPath \notin [at : Node, loss : Nat, path : Seq(DOMAIN Links)]

VARIABLES
    loss,       \* of each link; NoPath: no edge, or none that is effective
    best,       \* of each entity: what is known to reach it
    frontier,   \* the loop's queue
    hand,       \* what was taken from it last
    todo        \* the links the inner loop has yet to follow

scenario == <<loss, best, frontier, hand, todo>>

Reach(n, l, p) == [at |-> n, loss |-> l, path |-> p]
Start == Reach(Shock, 0, <<>>)

\* RippleRiskScorer.score and is_effective: which edges take part, and their factors.
Inert ==
    /\ loss = [i \in DOMAIN Links |-> NoPath] /\ best = [n \in Node |-> NoPath]
    /\ frontier = <<>> /\ hand = NoPath /\ todo = {}

ScenarioInit ==
    /\ loss \in [DOMAIN Links -> 0 .. MaxLoss \cup {NoPath}]
    /\ best = [n \in Node |-> IF n = Shock THEN Start ELSE NoPath]
    /\ frontier = <<Start>> /\ hand = NoPath /\ todo = {}

\* active, and adjacency.get(entity, [])
Effective == {i \in DOMAIN Links : loss[i] # NoPath}
Leaving(n) == {i \in Effective : Links[i][1] = n}

\* frontier.pop(0): what has come MaxHops far goes no further.
Pop ==
    /\ todo = {} /\ frontier # <<>>
    /\ hand' = Head(frontier) /\ frontier' = Tail(frontier)
    /\ todo' = IF Len(hand'.path) >= MaxHops THEN {} ELSE Leaving(hand'.at)
    /\ UNCHANGED <<loss, best>>

MutQueued(f, x) == <<x>> \o f
Queued(f, x) == Append(f, x)

Candidate(i) == Reach(Links[i][2], hand.loss + loss[i], Append(hand.path, i))
Beaten(y)    == best[y.at] # NoPath /\ best[y.at].loss <= y.loss

\* The body of the inner loop, in the order of the file: what reaches the target
\* no stronger is passed over.
Follow(i) ==
    /\ i \in todo /\ \A j \in todo : i <= j
    /\ todo' = todo \ {i}
    /\ \/ Beaten(Candidate(i)) /\ UNCHANGED <<best, frontier>>
       \/ /\ ~ Beaten(Candidate(i))
          /\ best' = [best EXCEPT ![Links[i][2]] = Candidate(i)]
          /\ frontier' = Queued(frontier, Candidate(i))
    /\ UNCHANGED <<loss, hand>>

ScenarioNext == Pop \/ \E i \in todo : Follow(i)

-----------------------------------------------------------------------------
\* The losses of all walks from the shock of at most h edges, by where they end.
Further(reached) ==
    [n \in Node |-> reached[n] \cup
        UNION {{l + loss[i] : l \in reached[Links[i][1]]} : i \in {j \in Effective : Links[j][2] = n}}]
Losses[h \in 0 .. MaxHops] ==
    IF h = 0 THEN [n \in Node |-> IF n = Shock THEN {0} ELSE {}] ELSE Further(Losses[h - 1])

\* What the links of a path add up to, and where it goes.
LossOf(p) ==
    LET upTo[k \in 0 .. Len(p)] == IF k = 0 THEN 0 ELSE upTo[k - 1] + loss[p[k]]
    IN  upTo[Len(p)]
End(p, k) == IF k = 0 THEN Shock ELSE Links[p[k]][2]
Leads(p, n) ==
    /\ \A k \in DOMAIN p : p[k] \in Effective /\ Links[p[k]][1] = End(p, k - 1)
    /\ End(p, Len(p)) = n

(* "Propagate a shock through effective edges while preserving the         *)
(* strongest path": when the queue is empty, an entity has an impact       *)
(* exactly if a walk of at most MaxHops reaches it, and the path it has    *)
(* leads to it and is as strong as the strongest of those walks, although  *)
(* the search passes over walks that arrive no stronger and might have     *)
(* gone further.                                                           *)
StrongestPaths ==
    (frontier = <<>> /\ todo = {} /\ best[Shock] # NoPath) =>
        \A n \in Node :
            /\ (best[n] = NoPath) = (Losses[MaxHops][n] = {})
            /\ best[n] # NoPath =>
                  /\ best[n].loss = Min(Losses[MaxHops][n])
                  /\ best[n].loss = LossOf(best[n].path) /\ Leads(best[n].path, n)
                  /\ Len(best[n].path) <= MaxHops
=============================================================================
