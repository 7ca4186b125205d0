------------------------------ MODULE DomainPlan ------------------------------
(***************************************************************************)
(* One plan of domain_api: the selection a user reviews, changes by        *)
(* replacing instruments and locks into a stored universe.  The routes are *)
(* synchronous, so each request runs on a thread of its own: it reads      *)
(* state.plan at the start and writes it back at the end.                          *)
(***************************************************************************)
EXTENDS Naturals, FiniteSets, Sequences, SequencesExt

CONSTANTS
    Thread,
    Instrument,  \* eligible candidates
    Target,      \* target_count
    Nil,         \* no plan: the process has restarted
    MaxLock      \* bound: universes stored

ASSUME TargetAssumption == Target \in Nat \ {0}
ASSUME LockAssumption == MaxLock \in Nat

VARIABLES
    plan, excluded,   \* _PlanState
    pc, read, swap,   \* of each request: where it is, the plan it read, its body
    stored,           \* universes put_workspace_with_universe has committed
    shown,            \* history: selections some reply carried
    raced             \* history: two requests have been under way at once

vars == <<plan, excluded, pc, read, swap, stored, shown, raced>>

\* spare: the rejected whose reason starts with "Not selected:".
Plan == [selected : SUBSET Instrument, spare : SUBSET Instrument,
         status : {"ready", "insufficient_candidates", "locked"}]

MutComplete(p) == TRUE
Complete(p) == Cardinality(p.selected) = Target

\* DomainPlanner.plan, whatever the scores: spares only when there are enough.
Proposed == {p \in Plan :
    /\ Cardinality(p.selected) <= Target
    /\ p.selected \cap p.spare = {}
    /\ p.status = IF Complete(p) THEN "ready" ELSE "insufficient_candidates"
    /\ p.spare # {} => Complete(p)}

\* The one removed stays among the rejected, but its reason is overwritten.
Revised(p, out, in) ==
    [p EXCEPT !.selected = (@ \ {out}) \cup {in}, !.spare = @ \ {in}]

-----------------------------------------------------------------------------
Overlap(t) == raced' = (raced \/ \E u \in Thread \ {t} : pc[u] # "idle")

\* 404 without a plan, 409 when it is locked.
Read(t, next) ==
    /\ pc[t] = "idle" /\ plan # Nil
    /\ plan.status # "locked"
    /\ read' = [read EXCEPT ![t] = plan]
    /\ pc' = [pc EXCEPT ![t] = next]
    /\ Overlap(t)
    /\ UNCHANGED <<plan, excluded, stored, shown>>

Return(t) ==
    /\ pc' = [pc EXCEPT ![t] = "idle"]
    /\ read' = [read EXCEPT ![t] = Nil]
    /\ swap' = [swap EXCEPT ![t] = Nil]

BeginReplace(t) ==
    /\ Read(t, "choose")
    /\ \E out, in \in Instrument :
        swap' = [swap EXCEPT ![t] = [out |-> out, in |-> in]]

Choose(t) ==
    LET s == swap[t] IN
    /\ pc[t] = "choose"
    /\ IF s.out \in read[t].selected /\ s.in \in read[t].spare \ excluded
       THEN /\ excluded' = (excluded \cup {s.out}) \ {s.in}
            /\ pc' = [pc EXCEPT ![t] = "swap"]
            /\ UNCHANGED <<read, swap>>
       ELSE Return(t) /\ UNCHANGED excluded
    /\ UNCHANGED <<plan, stored, shown, raced>>

Swap(t) ==
    /\ pc[t] = "swap"
    /\ plan' = Revised(read[t], swap[t].out, swap[t].in)
    /\ shown' = shown \cup {plan'.selected}
    /\ Return(t)
    /\ UNCHANGED <<excluded, stored, raced>>

BeginLock(t) ==
    /\ plan # Nil /\ Complete(plan)
    /\ Read(t, "store") /\ UNCHANGED swap

\* A fresh workspace and universe; ProductStore has the transaction.
Store(t) ==
    /\ pc[t] = "store" /\ Len(stored) < MaxLock
    /\ stored' = Append(stored, read[t].selected)
    /\ pc' = [pc EXCEPT ![t] = "mark"]
    /\ UNCHANGED <<plan, excluded, read, swap, shown, raced>>
StoreFails(t) ==
    /\ pc[t] = "store"
    /\ Return(t)
    /\ UNCHANGED <<plan, excluded, stored, shown, raced>>

MutMark(t) ==
    /\ pc[t] = "mark"
    /\ plan' = [plan EXCEPT !.status = "locked"]
    /\ Return(t)
    /\ UNCHANGED <<excluded, stored, shown, raced>>
MutForgetMark(t) ==
    /\ pc[t] = "mark"
    /\ Return(t)
    /\ UNCHANGED <<plan, excluded, stored, shown, raced>>
Mark(t) ==
    /\ pc[t] = "mark"
    /\ plan' = [read[t] EXCEPT !.status = "locked"]
    /\ Return(t)
    /\ UNCHANGED <<excluded, stored, shown, raced>>

\* Plans live in a dictionary of the process.
Restart ==
    /\ plan' = Nil /\ excluded' = {}
    /\ pc' = [t \in Thread |-> "idle"]
    /\ read' = [t \in Thread |-> Nil]
    /\ swap' = [t \in Thread |-> Nil]
    /\ UNCHANGED <<stored, shown, raced>>

-----------------------------------------------------------------------------
Init ==
    /\ plan \in Proposed /\ excluded = {}
    /\ pc = [t \in Thread |-> "idle"]
    /\ read = [t \in Thread |-> Nil]
    /\ swap = [t \in Thread |-> Nil]
    /\ stored = <<>>
    /\ shown = {plan.selected} /\ raced = FALSE

Request(t) ==
    \/ BeginReplace(t) \/ Choose(t) \/ Swap(t)
    \/ BeginLock(t) \/ Store(t) \/ StoreFails(t) \/ Mark(t)
Next == Restart \/ \E t \in Thread : Request(t)

Spec == Init /\ [][Next]_vars

-----------------------------------------------------------------------------
\* Everything has its type; replacing changes who is selected, never how many.
TypeOK ==
    /\ plan \in Plan \cup {Nil} /\ excluded \subseteq Instrument
    /\ plan # Nil => /\ plan.selected \cap plan.spare = {}
                     /\ Complete(plan) <=> plan.status # "insufficient_candidates"
    /\ pc \in [Thread -> {"idle", "choose", "swap", "store", "mark"}]
    /\ \A t \in Thread : pc[t] # "idle" => read[t] \in Plan
    /\ stored \in Seq(SUBSET Instrument)
    /\ shown \subseteq SUBSET Instrument /\ raced \in BOOLEAN

\* Whatever races, a universe is stored only if some reply showed exactly that
\* selection and it has target_count instruments (lock_plan).
StoredWasShown ==
    \A u \in ToSet(stored) : u \in shown /\ Cardinality(u) = Target

\* Whatever races, a plan that says locked is a plan whose universe is stored
\* (lock_plan marks the plan it read, not the one it finds).
LockedIsStored ==
    plan # Nil /\ plan.status = "locked" => plan.selected \in ToSet(stored)

\* "plan is already locked": a plan becomes at most one universe (lock_plan), if
\* no two requests on it overlap.
OneLock == ~ raced => Len(stored) <= 1

=============================================================================
