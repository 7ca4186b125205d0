----------------------------- MODULE Orchestrator -----------------------------
(***************************************************************************)
(* agents/orchestrator.py and agents/orchestrator_runtime.py: one research *)
(* workflow.  A model proposes the next agent, the policy checks the       *)
(* proposal, the run records it, the agent's handler runs, and so on until *)
(* the run completes, pauses or is caught in a loop.                       *)
(*                                                                         *)
(* The context of a workflow does not change, so a recorded action is told *)
(* by its name and by which of the texts of record_action was hashed.      *)
(***************************************************************************)
EXTENDS LLMBudget, Sequences, FiniteSets

CONSTANTS
    Router,     \* the Caller whose model routes
    Missing,    \* actions without a handler
    MaxSteps, MaxLLMCalls,  \* RunBudget
    MaxResume   \* bound: resumes

Runnable == {"extraction", "graph_adjudicator", "alpha_generator", "backtester",
             "gatekeeper", "portfolio_optimiser", "monitor", "research"}
Closing == {"complete", "pause_for_review"}
ActionName == Runnable \cup Closing

ASSUME OrchestratorAssumption ==
    /\ Router \in Caller /\ Missing \subseteq Runnable
    /\ MaxSteps \in Nat \ {0} /\ MaxLLMCalls \in Nat /\ MaxResume \in Nat

Start == "start"

\* _TRANSITIONS
Follow ==
    [a \in ActionName \cup {Start} |->
        CASE a = Start -> {"extraction", "alpha_generator", "monitor", "research"} \cup Closing
          [] a = "extraction" -> {"graph_adjudicator", "alpha_generator"} \cup Closing
          [] a = "graph_adjudicator" -> {"alpha_generator"} \cup Closing
          [] a = "alpha_generator" -> {"backtester"} \cup Closing
          [] a = "backtester" -> {"gatekeeper"} \cup Closing
          [] a = "gatekeeper" -> {"portfolio_optimiser", "alpha_generator"} \cup Closing
          [] a = "portfolio_optimiser" -> Closing
          [] a = "monitor" -> {"gatekeeper", "research"} \cup Closing
          [] a = "research" -> {"extraction", "monitor"} \cup Closing
          [] a \in Closing -> {}]

VARIABLES
    run,        \* AgentRun: status, steps, llm_calls, events
    node,       \* where the graph is, and the action it carries
    failure,    \* state["failure"] is not empty
    late,       \* max_runtime_seconds have passed
    rows,       \* orchestrator_events
    visits,     \* nodes entered since the invocation began
    asked,      \* how often the model was asked
    handled,    \* how often each handler was called
    finished,   \* the last handler that completed
    resumes

workflow == <<run, node, failure, late, rows, visits, asked, handled, finished, resumes>>
observed == <<asked, handled, finished>>

-----------------------------------------------------------------------------
(***************************************************************************)
(* The policy.                                                             *)
(***************************************************************************)
Previous(r) == IF r.events = <<>> THEN Start ELSE r.events[Len(r.events)].action

\* validate_transition; a retry must repeat the action before it.
Approved(previous, a, again) == IF again THEN previous = a ELSE a \in Follow[previous]

\* budget_reason
OverBudget(r) == r.steps >= MaxSteps \/ r.calls >= MaxLLMCalls \/ late

Repeats(r, a, text) ==
    Cardinality({i \in DOMAIN r.events : r.events[i] = [action |-> a, text |-> text]})

\* record_action stops before it records: what the run becomes then, or "".
Stopped(r, a, text, retry) ==
    IF r.status \in {"completed", "failed", "loop_detected"} THEN r.status
    ELSE IF Repeats(r, a, text) >= 2 THEN "loop_detected"
    ELSE IF ~ Approved(Previous(r), a, retry \/ Previous(r) = a) \/ OverBudget(r) THEN "paused"
    ELSE ""

\* record_action
MutRecorded(r, a, text, retry) ==
    IF Stopped(r, a, text, retry) # "" THEN [r EXCEPT !.status = Stopped(r, a, text, retry)]
    ELSE [status |-> CASE a = "complete" -> "completed" [] a = "pause_for_review" -> "paused"
                       [] OTHER -> "running",
          steps |-> r.steps + 1,
          calls |-> IF retry \/ a = "pause_for_review" THEN r.calls ELSE r.calls + 1,
          events |-> Append(r.events, [action |-> a, text |-> text])]
Recorded(r, a, text, retry) ==
    IF Stopped(r, a, text, retry) # "" THEN [r EXCEPT !.status = Stopped(r, a, text, retry)]
    ELSE [status |-> CASE a = "complete" -> "completed" [] a = "pause_for_review" -> "paused"
                       [] OTHER -> "running",
          steps |-> r.steps + 1,
          calls |-> IF retry THEN r.calls ELSE r.calls + 1,
          events |-> Append(r.events, [action |-> a, text |-> text])]

\* RunEventLedger.append: a second event with the same key is dropped.
Entered(r, a, text, retry) ==
    IF Stopped(r, a, text, retry) # "" THEN rows
    ELSE rows \cup {[action |-> a, text |-> text]}

-----------------------------------------------------------------------------
(***************************************************************************)
(* The route node.                                                         *)
(***************************************************************************)
Enter(at, a) == node' = [at |-> at, action |-> a] /\ visits' = visits + 1
Move(at, a) == node' = [at |-> at, action |-> a] /\ UNCHANGED visits

\* route_next
Ends(r, a) == r.status \in {"paused", "completed", "loop_detected", "failed"} \/ a \notin Runnable
Onward(r, a) == IF Ends(r, a) THEN Move("end", a) ELSE Enter("act", a)

\* A failed action that may be retried is not put to the model again.
RetryAction ==
    /\ node.at = "route" /\ failure /\ node.action \in Runnable
    /\ Onward(run, node.action)
    /\ UNCHANGED <<run, failure, late, rows, observed, resumes, budget>>

ChooseNext ==
    /\ node.at = "route" /\ ~ (failure /\ node.action \in Runnable)
    /\ IF OverBudget(run)
       THEN /\ Move("record", "pause_for_review")
            /\ UNCHANGED <<asked, budget>>
       ELSE /\ Move("ask", node.action)
            /\ asked' = asked + 1
            /\ CompleteJson(Router)
    /\ UNCHANGED <<run, failure, late, rows, handled, finished, resumes>>

\* Whatever the model says becomes an approved action or a pause.
Chosen(a) == IF Approved(Previous(run), a, FALSE) THEN a ELSE "pause_for_review"
ModelRoutes ==
    /\ node.at = "ask" /\ Ended(Router)
    /\ Forget(Router)
    /\ \E a \in IF call[Router].at = "answered" THEN ActionName ELSE {"pause_for_review"} :
          Move("record", Chosen(a))
    /\ UNCHANGED <<run, failure, late, rows, observed, resumes>>

\* The reason of a pause has at most 500 characters: an error that does not fit
\* raises out of the node, and the run is lost with the invocation.
Raise == node' = [node EXCEPT !.at = "raised"] /\ UNCHANGED visits
RouteRaises ==
    /\ node.at = "ask" /\ Ended(Router)
    /\ Forget(Router)
    /\ Raise
    /\ UNCHANGED <<run, failure, late, rows, observed, resumes>>

RecordRoute ==
    /\ node.at = "record"
    /\ LET a == node.action
           r == Recorded(run, a, "context", FALSE)
       IN  /\ run' = r
           /\ rows' = Entered(run, a, "context", FALSE)
           /\ Onward(r, a)
    /\ UNCHANGED <<failure, late, observed, resumes, budget>>

-----------------------------------------------------------------------------
(***************************************************************************)
(* The action nodes.                                                       *)
(***************************************************************************)
Act(a) ==
    /\ node.at = "act" /\ node.action = a
    /\ Enter("route", a)
    /\ UNCHANGED <<late, asked, resumes, budget>>
Called(a) == handled' = [handled EXCEPT ![a] = @ + 1]

\* The only pause that is not entered in the ledger.
MissingHandler(a) ==
    /\ Act(a) /\ a \in Missing
    /\ run' = Recorded(run, "pause_for_review", "missing", FALSE)
    /\ UNCHANGED <<failure, rows, handled, finished>>

HandlerCompletes(a) ==
    /\ Act(a) /\ a \notin Missing
    /\ Called(a) /\ finished' = a
    /\ failure' = FALSE
    /\ UNCHANGED <<run, rows>>

\* RetryableActionError
HandlerRetries(a) ==
    /\ Act(a) /\ a \notin Missing
    /\ Called(a)
    /\ run' = Recorded(run, a, "context", TRUE)
    /\ rows' = Entered(run, a, "context", TRUE)
    /\ failure' = TRUE
    /\ UNCHANGED finished

\* Any other exception; its text may be empty.
MutHandlerRaises(a) ==
    /\ Act(a) /\ a \notin Missing
    /\ Called(a)
    /\ failure' \in BOOLEAN
    /\ UNCHANGED <<run, rows, finished>>
HandlerRaises(a) ==
    /\ Act(a) /\ a \notin Missing
    /\ Called(a)
    /\ run' = Recorded(run, "pause_for_review", "failure", FALSE)
    /\ rows' = Entered(run, "pause_for_review", "failure", FALSE)
    /\ failure' \in BOOLEAN
    /\ UNCHANGED finished

\* A result that is not completed pauses, and leaves the failure as it was.
HandlerReturns(a) ==
    /\ Act(a) /\ a \notin Missing
    /\ Called(a)
    /\ run' = Recorded(run, "pause_for_review", "result", FALSE)
    /\ rows' = Entered(run, "pause_for_review", "result", FALSE)
    /\ UNCHANGED <<failure, finished>>

HandlerRaisesAtLength(a) ==
    /\ node.at = "act" /\ node.action = a /\ a \notin Missing
    /\ Called(a)
    /\ Raise
    /\ UNCHANGED <<run, failure, late, rows, asked, finished, resumes, budget>>

-----------------------------------------------------------------------------
Expire ==
    /\ ~ late
    /\ node.at \notin {"end", "raised"}
    /\ late' = TRUE
    /\ UNCHANGED <<run, node, failure, rows, visits, observed, resumes, budget>>

\* resume, and the graph invoked again with the run it returns.
Resume ==
    /\ node.at = "end" /\ run.status = "paused" /\ resumes < MaxResume
    /\ run' = [run EXCEPT !.status = "running"]
    /\ node' = [at |-> "route", action |-> Start] /\ visits' = 1
    /\ failure' = FALSE
    /\ resumes' = resumes + 1
    /\ UNCHANGED <<late, rows, observed, budget>>

WorkflowInit ==
    /\ run = [status |-> "pending", steps |-> 0, calls |-> 0, events |-> <<>>]
    /\ node = [at |-> "route", action |-> Start]
    /\ failure = FALSE /\ late = FALSE /\ rows = {} /\ visits = 1
    /\ asked = 0 /\ handled = [a \in Runnable |-> 0] /\ finished = Start /\ resumes = 0

HandlerStep ==
    \E a \in Runnable :
        \/ MissingHandler(a) \/ HandlerCompletes(a) \/ HandlerRetries(a)
        \/ HandlerRaises(a) \/ HandlerReturns(a) \/ HandlerRaisesAtLength(a)

WorkflowStep == RetryAction \/ ChooseNext \/ ModelRoutes \/ RouteRaises \/ RecordRoute \/ HandlerStep

-----------------------------------------------------------------------------
(* The model is asked at most max_llm_calls times, agents run at most      *)
(* max_steps times and no agent more than twice, although llm_calls counts *)
(* recorded actions and not calls, a run that has just paused is put to the*)
(* model once more, and retries, revisits and resumes mix; the recursion   *)
(* limit of an invocation, which would raise, is never reached.            *)
BudgetsHold ==
    /\ asked <= MaxLLMCalls
    /\ run.steps <= MaxSteps
    /\ \A a \in Runnable :
          handled[a] <= Cardinality({i \in DOMAIN run.events : run.events[i].action = a})
    /\ visits <= 3 * MaxSteps + 4
    /\ \A a \in Runnable : handled[a] <= 2

(* No portfolio without a gate: a handler runs only when the handler of an *)
(* action it may follow was the last to complete (a retry included), so    *)
(* the portfolio optimiser runs right after a gatekeeper that completed    *)
(* ("rejects gate skipping").                                              *)
GateIsPassed ==
    node.at = "act" =>
        /\ node.action \in Follow[finished]
        /\ node.action = "portfolio_optimiser" => finished = "gatekeeper"
=============================================================================
