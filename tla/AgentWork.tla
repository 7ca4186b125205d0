------------------------------- MODULE AgentWork -------------------------------
(***************************************************************************)
(* The users of cloud models together: an orchestrated workflow and        *)
(* requests for alpha candidates, all of whose calls reserve from one      *)
(* ledger (create_llm gives every client the same file).                   *)
(***************************************************************************)
EXTENDS Orchestrator, AlphaGeneration

CONSTANT Together   \* bound: which callers are at work at the same time

VARIABLE working

ASSUME TogetherAssumption == Together \subseteq SUBSET (Request \cup {Router})
ASSUME LimitsAssumption ==     \* one trial_limit is the greatest
    \E r \in Request : \A s \in Request : TrialLimit[s] <= TrialLimit[r]

vars == <<working, budget, generation, workflow>>

Init ==
    /\ BudgetInit /\ GenerationInit /\ WorkflowInit
    /\ working \in Together

Workflow == Router \in working /\ (WorkflowStep \/ Expire \/ Resume) /\ UNCHANGED generation
Generation ==
    /\ \E r \in working \cap Request : GenerationStep(r) \/ Die(r)
    /\ UNCHANGED workflow
Ledger ==
    /\ (\E c \in Caller : BudgetStep(c)) \/ Midnight
    /\ UNCHANGED <<generation, workflow>>

Next == (Workflow \/ Generation \/ Ledger) /\ UNCHANGED working

\* A step of the workflow's own thread, its model call included.
RouterStep ==
    /\ \/ Router \in working /\ WorkflowStep
       \/ BudgetStep(Router) /\ UNCHANGED workflow
    /\ UNCHANGED <<generation, working>>
\* A step of a request's own thread; dying is nobody's duty.
RequestStep(r) ==
    /\ \/ r \in working /\ GenerationStep(r)
       \/ BudgetStep(r) /\ UNCHANGED generation
    /\ UNCHANGED <<workflow, working>>

Spec ==
    /\ Init /\ [][Next]_vars
    /\ WF_vars(RouterStep)
    /\ \A r \in Request : WF_vars(RequestStep(r))

-----------------------------------------------------------------------------
(* Both ledgers are allowances: a day's reservations and an experiment's   *)
(* trials only grow, by one, and stop at the daily limit and at the        *)
(* greatest trial_limit, whatever races, midnights and deaths come between *)
(* the reading of a count and the writing of it.                           *)
Greatest == CHOOSE n \in {TrialLimit[r] : r \in Request} : \A r \in Request : TrialLimit[r] <= n
\* Account 0 is the experiment.
Granted == [a \in 0 .. LastDay |-> IF a = 0 THEN counter ELSE reserved[a]]
Caps == [a \in 0 .. LastDay |-> IF a = 0 THEN Greatest ELSE DailyCap]
Allowances == INSTANCE Allowance WITH Account <- 0 .. LastDay, Cap <- Caps, granted <- Granted
AllowanceSpec == Allowances!Spec

(* No lock and no model keeps anybody waiting for ever: every generation   *)
(* request is answered, refused, failed or lost, and the workflow ends, or *)
(* raises, each time it is invoked.                                        *)
CallersEnd ==
    /\ \A r \in Request :
          r \in working ~> req[r].at \in {"answered", "refused", "failed", "lost"}
    /\ Router \in working => []<>(node.at \in {"end", "raised"})
=============================================================================
