---------------------------- MODULE AgentWorkProofs ----------------------------
(***************************************************************************)
(* What a workflow of Orchestrator keeps for any budget, any number of     *)
(* retries, failures and resumes, and any answer of the model; and the two *)
(* ledgers of AgentWork, for any callers, limits and number of days: the   *)
(* lock each of them takes makes the read and the write of its count one   *)
(* grant of an allowance.                                                  *)
(***************************************************************************)
EXTENDS AgentWork, FiniteSetTheorems, TLAPS

(***************************************************************************)
(* The workflow: which agent may run.                                      *)
(***************************************************************************)
Text == {"context", "missing", "failure", "result"}
Event == [action : ActionName, text : Text]
Final == {"completed", "failed", "loop_detected"}
RunType ==
    [status : {"pending", "running", "paused"} \cup Final, steps : Nat, calls : Nat,
     events : Seq(Event)]

Typed ==
    /\ run \in RunType
    /\ node \in [at : {"route", "ask", "record", "act", "end", "raised"},
                 action : ActionName \cup {Start}]
    /\ failure \in BOOLEAN /\ late \in BOOLEAN
    /\ finished \in Runnable \cup {Start}

(* No agent can run any more: the budget is spent, the run is over, or its *)
(* last event is a pause or the end, which nothing may follow.             *)
Dead == OverBudget(run) \/ run.status \in Final \/ Previous(run) \in Closing

(* The last event is the agent that completed last, or nothing can run.    *)
InStep == finished = Previous(run) \/ Dead

(* An agent asked for a retry: it is the last event, and may run again.    *)
Retrying ==
    /\ failure /\ run.status = "running"
    /\ node.action = Previous(run) /\ node.action \in Runnable
    /\ node.action \in Follow[finished]

Where ==
    /\ node.at = "act" =>
          /\ node.action = Previous(run) /\ node.action \in Runnable
          /\ node.action \in Follow[finished] /\ run.status = "running"
    /\ node.at = "route" =>
          \/ Retrying
          \/ InStep /\ (failure => run.status \in Final \cup {"paused"} /\ Dead)
    /\ node.at \in {"ask", "record"} => InStep
    /\ node.at = "record" =>
          node.action \in Follow[Previous(run)] \cup {"pause_for_review"}
    /\ node.at = "end" /\ run.status = "paused" => InStep

WorkflowInv == Typed /\ Where

-----------------------------------------------------------------------------
LEMMA Names ==
    /\ Runnable \subseteq ActionName /\ Closing \subseteq ActionName
    /\ Runnable \cap Closing = {} /\ Start \notin ActionName
    /\ ActionName = Runnable \cup Closing
BY DEF Runnable, Closing, ActionName, Start

(* The table of the transitions: it leads to actions, never from an action *)
(* to itself or out of a closing one; every agent may be followed by a     *)
(* pause, and only the gatekeeper by the portfolio optimiser.              *)
LEMMA Table ==
    ASSUME NEW a \in ActionName \cup {Start}
    PROVE  /\ Follow[a] \subseteq ActionName
           /\ a \notin Follow[a]
           /\ a \in Closing => Follow[a] = {}
           /\ a \notin Closing => "pause_for_review" \in Follow[a]
           /\ "portfolio_optimiser" \in Follow[a] => a = "gatekeeper"
<1> USE DEF Follow, Start, ActionName, Runnable, Closing
<1>1. CASE a = Start BY <1>1
<1>2. CASE a = "extraction" BY <1>2
<1>3. CASE a = "graph_adjudicator" BY <1>3
<1>4. CASE a = "alpha_generator" BY <1>4
<1>5. CASE a = "backtester" BY <1>5
<1>6. CASE a = "gatekeeper" BY <1>6
<1>7. CASE a = "portfolio_optimiser" BY <1>7
<1>8. CASE a = "monitor" BY <1>8
<1>9. CASE a = "research" BY <1>9
<1>10. CASE a \in Closing BY <1>10
<1> QED BY <1>1, <1>2, <1>3, <1>4, <1>5, <1>6, <1>7, <1>8, <1>9, <1>10

LEMMA PreviousIsName ==
    ASSUME NEW r \in RunType
    PROVE  Previous(r) \in ActionName \cup {Start}
<1> DEFINE e == r.events
<1>1. e \in Seq(Event) BY DEF RunType
<1>2. CASE e = <<>> BY <1>2 DEF Previous
<1>3. CASE e # <<>>
  <2>1. Len(e) \in 1 .. Len(e) /\ e[Len(e)] \in Event BY <1>1, <1>3
  <2> QED BY <1>3, <2>1 DEF Previous, Event
<1> QED BY <1>2, <1>3

(* record_action stops, and leaves all but the status alone, or appends:   *)
(* what q may be when it has recorded a, a retry or not, for r.            *)
MayBecome(q, r, a, retry) ==
    /\ q \in RunType
    /\ OverBudget(r) => OverBudget(q)
    /\ \/ q.status \in Final /\ Previous(q) = Previous(r)
       \/ /\ q.status = "paused" /\ Previous(q) = Previous(r)
          /\ \/ OverBudget(r)
             \/ Previous(r) # a /\ (a \notin Follow[Previous(r)] \/ retry)
       \/ /\ r.status \notin Final /\ ~ OverBudget(r)
          /\ Previous(q) = a
          /\ a \in Runnable => q.status = "running"
          /\ a \in Closing => q.status \in Final \cup {"paused"}

LEMMA Recording ==
    ASSUME NEW r \in RunType, NEW a \in ActionName, NEW text \in Text, NEW retry \in BOOLEAN,
           late \in BOOLEAN, NEW q, q = Recorded(r, a, text, retry)
    PROVE  MayBecome(q, r, a, retry)
<1> USE DEF MayBecome
<1> DEFINE s == Stopped(r, a, text, retry)
<1>1. \/ s \in Final
      \/ /\ s = "paused"
         /\ \/ OverBudget(r)
            \/ Previous(r) # a /\ (a \notin Follow[Previous(r)] \/ retry)
      \/ s = "" /\ r.status \notin Final /\ ~ OverBudget(r)
  BY DEF Stopped, Final, Approved
<1>2. CASE s # ""
  <2>1. q = [r EXCEPT !.status = s] BY <1>2 DEF Recorded
  <2>2. s \in Final \cup {"paused"} BY <1>1, <1>2
  <2> HIDE DEF s
  <2>3. q \in RunType /\ q.status = s /\ q.events = r.events /\ q.steps = r.steps
        /\ q.calls = r.calls
    BY <2>1, <2>2 DEF RunType
  <2> QED BY <1>1, <1>2, <2>2, <2>3 DEF Previous, OverBudget, s
<1>3. CASE s = ""
  <2> DEFINE st == CASE a = "complete" -> "completed" [] a = "pause_for_review" -> "paused"
                     [] OTHER -> "running"
  <2> DEFINE n == IF retry THEN r.calls ELSE r.calls + 1
  <2> DEFINE e == Append(r.events, [action |-> a, text |-> text])
  <2>1. q = [status |-> st, steps |-> r.steps + 1, calls |-> n, events |-> e]
    BY <1>3 DEF Recorded
  <2>2. /\ st \in {"running", "paused"} \cup Final
        /\ a \in Runnable => st = "running"
        /\ a \in Closing => st \in Final \cup {"paused"}
    <3>1. CASE a = "complete" BY <3>1 DEF Final, Runnable
    <3>2. CASE a = "pause_for_review" BY <3>2 DEF Final, Runnable
    <3>3. CASE a \notin {"complete", "pause_for_review"} BY <3>3 DEF Closing
    <3> QED BY <3>1, <3>2, <3>3
  <2>3. n \in Nat /\ n >= r.calls BY DEF RunType
  <2>4. /\ e \in Seq(Event) /\ e # <<>> /\ e[Len(e)].action = a
    BY DEF RunType, Event
  <2> HIDE DEF s, st, n, e
  <2>5. q \in RunType /\ Previous(q) = a /\ q.status = st /\ q.steps = r.steps + 1 /\ q.calls = n
    BY <2>1, <2>2, <2>3, <2>4 DEF RunType, Previous
  <2> QED BY <1>1, <1>3, <2>2, <2>5 DEF OverBudget, s, Final
<1> QED BY <1>2, <1>3

-----------------------------------------------------------------------------
LEMMA WorkflowInvInit == Init => WorkflowInv
<1> SUFFICES ASSUME Init PROVE WorkflowInv OBVIOUS
<1>1. run \in RunType /\ Previous(run) = Start
  BY DEF Init, WorkflowInit, RunType, Previous, Final
<1> QED BY <1>1 DEF Init, WorkflowInit, WorkflowInv, Typed, Where, InStep

(* Time only makes the budget smaller.                                     *)
LEMMA StillDead ==
    ASSUME Typed, run' = run, late => late', Dead
    PROVE  Dead'
BY DEF Dead, OverBudget, Previous

(* A node that is entered or left by Onward.                               *)
LEMMA GoesOnward ==
    ASSUME NEW r \in RunType, NEW a \in ActionName, Onward(r, a)
    PROVE  \/ /\ node' = [at |-> "end", action |-> a]
              /\ r.status \in Final \cup {"paused"} \/ a \in Closing
           \/ /\ node' = [at |-> "act", action |-> a]
              /\ a \in Runnable /\ r.status \notin Final \cup {"paused"}
BY Names DEF Onward, Ends, Move, Enter, Final

LEMMA RouteSteps ==
    ASSUME WorkflowInv, RetryAction \/ ChooseNext \/ ModelRoutes \/ RouteRaises
    PROVE  WorkflowInv'
<1> USE DEF WorkflowInv, Typed
<1>0. run' = run /\ failure' = failure /\ late' = late /\ finished' = finished
  BY DEF RetryAction, ChooseNext, ModelRoutes, RouteRaises, observed
<1>1. InStep => InStep' BY <1>0, StillDead DEF InStep, Previous
<1>2. CASE RetryAction
  <2>1. failure /\ node.at = "route" /\ node.action \in Runnable /\ Onward(run, node.action)
    BY <1>2 DEF RetryAction
  <2>2. CASE node' = [at |-> "end", action |-> node.action]
             /\ (run.status \in Final \cup {"paused"} \/ node.action \in Closing)
    <3>1. run.status \in Final \cup {"paused"} BY <2>1, <2>2, Names
    <3>2. ~ Retrying BY <3>1 DEF Retrying, Final
    <3>3. InStep BY <2>1, <3>2 DEF Where
    <3> QED BY <1>0, <1>1, <2>1, <2>2, <3>3, Names DEF Where
  <2>3. CASE node' = [at |-> "act", action |-> node.action]
             /\ node.action \in Runnable /\ run.status \notin Final \cup {"paused"}
    <3>1. Retrying BY <2>1, <2>3 DEF Where
    <3> QED BY <1>0, <2>3, <3>1, Names DEF Where, Retrying, Previous
  <2> QED BY <2>1, <2>2, <2>3, GoesOnward, Names
<1>3. CASE ChooseNext
  <2>1. node.at = "route" /\ ~ (failure /\ node.action \in Runnable) BY <1>3 DEF ChooseNext
  <2>2. InStep BY <2>1 DEF Where, Retrying
  <2>3. \/ node' = [at |-> "record", action |-> "pause_for_review"]
        \/ node' = [at |-> "ask", action |-> node.action]
    BY <1>3 DEF ChooseNext, Move
  <2>4. "pause_for_review" \in ActionName BY DEF ActionName, Closing
  <2> QED BY <1>0, <1>1, <2>2, <2>3, <2>4 DEF Where
<1>4. CASE ModelRoutes
  <2>1. node.at = "ask" BY <1>4 DEF ModelRoutes
  <2>2. PICK a \in ActionName : node' = [at |-> "record", action |-> Chosen(a)]
    <3>1. "pause_for_review" \in ActionName BY DEF ActionName, Closing
    <3> QED BY <1>4, <3>1 DEF ModelRoutes, Move
  <2>3. Chosen(a) \in Follow[Previous(run)] \cup {"pause_for_review"} BY DEF Chosen, Approved
  <2>4. Chosen(a) \in ActionName BY DEF Chosen, ActionName, Closing
  <2> QED BY <1>0, <1>1, <2>1, <2>2, <2>3, <2>4 DEF Where, Previous
<1>5. CASE RouteRaises
  <2>1. node' = [node EXCEPT !.at = "raised"] BY <1>5 DEF RouteRaises, Raise
  <2>2. node'.at = "raised" /\ node' \in [at : {"route", "ask", "record", "act", "end", "raised"},
                                           action : ActionName \cup {Start}]
    BY <2>1
  <2> QED BY <1>0, <2>2 DEF Where
<1> QED BY <1>2, <1>3, <1>4, <1>5

(* What is recorded after the route runs only if it follows the agent that *)
(* completed last.                                                         *)
LEMMA RecordStep == ASSUME WorkflowInv, RecordRoute PROVE WorkflowInv'
<1> USE DEF WorkflowInv, Typed
<1> SUFFICES ASSUME NEW a, NEW r, NEW p, a = node.action, p = Previous(run),
                    r = Recorded(run, a, "context", FALSE)
             PROVE  WorkflowInv'
  OBVIOUS
<1>0. /\ node.at = "record" /\ InStep
      /\ a \in Follow[p] \cup {"pause_for_review"}
  BY DEF RecordRoute, Where
<1>1. p \in ActionName \cup {Start} BY PreviousIsName
<1>2. a \in ActionName BY <1>0, <1>1, Table DEF ActionName, Closing
<1>3. run' = r /\ Onward(r, a) /\ failure' = failure /\ late' = late /\ finished' = finished
  BY DEF RecordRoute, observed
<1>4. /\ r \in RunType
      /\ OverBudget(run) => OverBudget(r)
      /\ \/ r.status \in Final /\ Previous(r) = p
         \/ /\ r.status = "paused" /\ Previous(r) = p
            /\ OverBudget(run) \/ (p # a /\ a \notin Follow[p])
         \/ /\ run.status \notin Final /\ ~ OverBudget(run)
            /\ Previous(r) = a /\ (a \in Runnable => r.status = "running")
  <2>1. "context" \in Text /\ FALSE \in BOOLEAN BY DEF Text
  <2>2. MayBecome(r, run, a, FALSE) BY <1>2, <2>1, Recording
  <2> QED BY <2>2 DEF MayBecome
<1>5. \/ /\ node' = [at |-> "end", action |-> a]
         /\ r.status \in Final \cup {"paused"} \/ a \in Closing
      \/ /\ node' = [at |-> "act", action |-> a]
         /\ a \in Runnable /\ r.status \notin Final \cup {"paused"}
  BY <1>2, <1>3, <1>4, GoesOnward
<1>6. OverBudget(r) <=> OverBudget(run)' BY <1>3 DEF OverBudget
<1>7. Previous(r) = Previous(run)' BY <1>3 DEF Previous
<1>8. CASE r.status \in Final /\ Previous(r) = p
  <2>1. node' = [at |-> "end", action |-> a] BY <1>5, <1>8 DEF Final
  <2> QED BY <1>2, <1>3, <1>4, <1>8, <2>1 DEF Where, Final
<1>9. CASE /\ r.status = "paused" /\ Previous(r) = p
           /\ OverBudget(run) \/ (p # a /\ a \notin Follow[p])
  <2>1. OverBudget(run) \/ p \in Closing BY <1>0, <1>1, <1>9, Table
  <2>2. Dead' BY <1>3, <1>4, <1>6, <1>7, <1>9, <2>1 DEF Dead
  <2>3. node' = [at |-> "end", action |-> a] BY <1>5, <1>9
  <2> QED BY <1>2, <1>3, <1>4, <2>2, <2>3 DEF Where, InStep
<1>10. CASE /\ run.status \notin Final /\ ~ OverBudget(run)
            /\ Previous(r) = a /\ (a \in Runnable => r.status = "running")
  <2>1. CASE a \in Closing
    <3>1. Dead' BY <1>7, <1>10, <2>1 DEF Dead
    <3>2. node' = [at |-> "end", action |-> a] BY <1>5, <2>1, Names
    <3> QED BY <1>2, <1>3, <1>4, <3>1, <3>2 DEF Where, InStep
  <2>2. CASE a \in Runnable
    <3>1. node' = [at |-> "act", action |-> a] BY <1>5, <1>10, <2>2, Names DEF Final
    <3>2. a \in Follow[p] BY <1>0, <2>2, Names DEF Closing
    <3>3. p \notin Closing BY <1>1, <3>2, Table
    <3>4. finished = p BY <1>0, <1>10, <3>3 DEF InStep, Dead
    <3>5. Previous(run)' = a BY <1>7, <1>10
    <3> QED BY <1>2, <1>3, <1>4, <1>10, <2>2, <3>1, <3>2, <3>4, <3>5 DEF Where
  <2> QED BY <1>2, <2>1, <2>2, Names
<1> QED BY <1>4, <1>8, <1>9, <1>10

(* A pause recorded after an agent leaves a run in which nothing can run.  *)
LEMMA PauseKills ==
    ASSUME Typed, Previous(run) \in Runnable, late' = late, NEW text \in Text,
           run' = Recorded(run, "pause_for_review", text, FALSE)
    PROVE  run' \in RunType /\ Dead' /\ run'.status \in Final \cup {"paused"}
<1> SUFFICES ASSUME NEW p, p = "pause_for_review", NEW q, q = run' ,
                    q = Recorded(run, p, text, FALSE)
             PROVE  q \in RunType /\ Dead' /\ q.status \in Final \cup {"paused"}
  OBVIOUS
<1>1. p \in ActionName /\ p \in Closing BY DEF ActionName, Closing
<1>2. run \in RunType /\ late \in BOOLEAN /\ FALSE \in BOOLEAN BY DEF Typed
<1>3. MayBecome(q, run, p, FALSE) BY <1>1, <1>2, Recording
<1>4. p \in Follow[Previous(run)] BY Names, Table
<1>5. OverBudget(q) => OverBudget(run)' BY DEF OverBudget
<1>6. Previous(q) = Previous(run)' BY DEF Previous
<1> QED BY <1>1, <1>3, <1>4, <1>5, <1>6, Names DEF MayBecome, Dead

LEMMA HandlerSteps == ASSUME WorkflowInv, HandlerStep PROVE WorkflowInv'
<1> USE DEF WorkflowInv, Typed
<1>1. PICK a \in Runnable :
        \/ MissingHandler(a) \/ HandlerCompletes(a) \/ HandlerRetries(a)
        \/ HandlerRaises(a) \/ HandlerReturns(a) \/ HandlerRaisesAtLength(a)
  BY DEF HandlerStep
<1>2. node.at = "act" /\ node.action = a
  BY <1>1 DEF MissingHandler, HandlerCompletes, HandlerRetries, HandlerRaises, HandlerReturns,
              HandlerRaisesAtLength, Act
<1>3. Previous(run) = a /\ run.status = "running" /\ a \in Follow[finished] /\ a \in ActionName
  BY <1>2, Names DEF Where
<1>4. CASE MissingHandler(a) \/ HandlerRaises(a) \/ HandlerReturns(a)
  <2>1. /\ node' = [at |-> "route", action |-> a] /\ late' = late
        /\ failure' \in BOOLEAN /\ finished' = finished
    BY <1>4 DEF MissingHandler, HandlerRaises, HandlerReturns, Act, Enter
  <2>2. PICK text \in Text : run' = Recorded(run, "pause_for_review", text, FALSE)
    BY <1>4 DEF MissingHandler, HandlerRaises, HandlerReturns, Text
  <2>3. run' \in RunType /\ Dead' /\ run'.status \in Final \cup {"paused"}
    BY <1>3, <2>1, <2>2, PauseKills
  <2> QED BY <1>3, <2>1, <2>3 DEF Where, InStep
<1>5. CASE HandlerCompletes(a)
  <2>1. /\ node' = [at |-> "route", action |-> a] /\ late' = late
        /\ failure' = FALSE /\ finished' = a /\ run' = run
    BY <1>5 DEF HandlerCompletes, Act, Enter
  <2>2. InStep' BY <1>3, <2>1 DEF InStep, Previous
  <2> QED BY <1>3, <2>1, <2>2 DEF Where
<1>6. CASE HandlerRetries(a)
  <2> SUFFICES ASSUME NEW q, q = run', q = Recorded(run, a, "context", TRUE) PROVE WorkflowInv'
    BY <1>6 DEF HandlerRetries
  <2>1. /\ node' = [at |-> "route", action |-> a] /\ late' = late
        /\ failure' = TRUE /\ finished' = finished
    BY <1>6 DEF HandlerRetries, Act, Enter
  <2>2. "context" \in Text /\ TRUE \in BOOLEAN BY DEF Text
  <2>3. MayBecome(q, run, a, TRUE) BY <1>3, <2>2, Recording
  <2>4. OverBudget(q) => OverBudget(run)' BY <2>1 DEF OverBudget
  <2>5. Previous(q) = Previous(run)' BY DEF Previous
  <2>6. \/ q.status \in Final \cup {"paused"} /\ Dead'
        \/ q.status = "running" /\ Previous(run)' = a
    BY <1>3, <2>3, <2>4, <2>5 DEF MayBecome, Dead
  <2>7. q \in RunType BY <2>3 DEF MayBecome
  <2> QED BY <1>3, <2>1, <2>6, <2>7 DEF Where, InStep, Retrying
<1>7. CASE HandlerRaisesAtLength(a)
  <2>1. /\ node' = [node EXCEPT !.at = "raised"]
        /\ UNCHANGED <<run, failure, late, finished>>
    BY <1>7 DEF HandlerRaisesAtLength, Raise
  <2>2. node'.at = "raised" /\ node' \in [at : {"route", "ask", "record", "act", "end", "raised"},
                                           action : ActionName \cup {Start}]
    BY <2>1
  <2> QED BY <2>1, <2>2 DEF Where
<1> QED BY <1>1, <1>4, <1>5, <1>6, <1>7

(* Time passes, or a paused workflow is taken up with its events.          *)
LEMMA OutsideSteps == ASSUME WorkflowInv, Expire \/ Resume PROVE WorkflowInv'
<1> USE DEF WorkflowInv, Typed
<1>1. CASE Expire
  <2>1. late' = TRUE /\ UNCHANGED <<run, node, failure, finished>>
    BY <1>1 DEF Expire, observed
  <2>2. InStep => InStep' BY <2>1, StillDead DEF InStep, Previous
  <2>3. Dead => Dead' BY <2>1, StillDead
  <2>4. Retrying => Retrying' BY <2>1 DEF Retrying, Previous
  <2>5. Previous(run)' = Previous(run) BY <2>1 DEF Previous
  <2> QED BY <2>1, <2>2, <2>3, <2>4, <2>5 DEF Where
<1>2. CASE Resume
  <2>1. /\ node.at = "end" /\ run.status = "paused"
        /\ run' = [run EXCEPT !.status = "running"]
        /\ node' = [at |-> "route", action |-> Start]
        /\ failure' = FALSE /\ UNCHANGED <<late, finished>>
    BY <1>2 DEF Resume, observed
  <2>2. /\ run' \in RunType /\ run'.events = run.events
        /\ run'.steps = run.steps /\ run'.calls = run.calls
    BY <2>1 DEF RunType
  <2>3. InStep BY <2>1 DEF Where
  <2>4. Previous(run)' = Previous(run) BY <2>2 DEF Previous
  <2>5. OverBudget(run)' <=> OverBudget(run) BY <2>1, <2>2 DEF OverBudget
  <2>6. InStep' BY <2>1, <2>3, <2>4, <2>5 DEF InStep, Dead, Final
  <2> QED BY <2>1, <2>2, <2>6 DEF Where
<1> QED BY <1>1, <1>2

LEMMA WorkflowInvStep == WorkflowInv /\ [Next]_vars => WorkflowInv'
<1> SUFFICES ASSUME WorkflowInv, [Next]_vars PROVE WorkflowInv' OBVIOUS
<1>1. CASE Workflow
  BY <1>1, RouteSteps, RecordStep, HandlerSteps, OutsideSteps DEF Workflow, WorkflowStep
<1>2. CASE UNCHANGED workflow
  BY <1>2 DEF workflow, WorkflowInv, Typed, Where, InStep, Dead, Retrying, OverBudget, Previous
<1> QED BY <1>1, <1>2 DEF Next, Generation, Ledger, vars

(* No portfolio without a gate ("rejects gate skipping"): an agent runs    *)
(* only right after one it may follow, or after its own failed attempt,    *)
(* whatever the model proposes and whenever the run pauses and resumes.    *)
THEOREM GateIsAlwaysPassed == Spec => []GateIsPassed
<1>1. WorkflowInv => GateIsPassed
  <2> SUFFICES ASSUME WorkflowInv, node.at = "act"
               PROVE  /\ node.action \in Follow[finished]
                      /\ node.action = "portfolio_optimiser" => finished = "gatekeeper"
    BY DEF GateIsPassed
  <2>1. node.action \in Follow[finished] BY DEF WorkflowInv, Where
  <2>2. finished \in ActionName \cup {Start} BY Names DEF WorkflowInv, Typed
  <2> QED BY <2>1, <2>2, Table
<1> QED BY <1>1, WorkflowInvInit, WorkflowInvStep, PTL DEF Spec

-----------------------------------------------------------------------------
(***************************************************************************)
(* The workflow: how often, within which budgets.                          *)
(***************************************************************************)
(* An agent that has been recorded has not been called yet.                *)
Owed == node.at = "act" \/ (node.at = "route" /\ Retrying)

Asking ==
    /\ asked \in Nat /\ asked <= MaxLLMCalls
    /\ \/ asked <= run.calls
       \/ node.at \in {"ask", "record"} /\ asked <= run.calls + 1
       \/ node.at = "raised"
       \/ node.at = "end" /\ run.status \in Final
       \/ OverBudget(run)

(* The run r has recorded its agent a at least n times, and at most twice. *)
Covers(r, a, n) == n <= Repeats(r, a, "context") /\ Repeats(r, a, "context") <= 2

Calling ==
    /\ handled \in [Runnable -> Nat]
    /\ \A a \in Runnable : Covers(run, a, handled[a])
    /\ Owed => Covers(run, node.action, handled[node.action] + 1)

Visiting ==
    /\ visits \in Nat /\ run.steps <= MaxSteps
    /\ visits <= 2 * run.steps + 1
    /\ node.at = "act" => visits <= 2 * run.steps
    /\ (node.at = "route" /\ Retrying) => visits < 2 * run.steps

Counts ==
    /\ Asking /\ Calling /\ Visiting
    /\ Previous(run) = "complete" => run.status \in Final

LEMMA SegmentIsFinite == ASSUME NEW n \in Nat PROVE IsFiniteSet(1 .. n)
<1> 1 \in Int /\ n \in Int OBVIOUS
<1> QED BY FS_Interval

(* One more event is counted among those like it.                          *)
LEMMA EventsCounted ==
    ASSUME NEW e \in Seq(Event), NEW x \in Event, NEW y \in Event
    PROVE  /\ Cardinality({i \in DOMAIN e : e[i] = x}) \in Nat
           /\ Cardinality({i \in DOMAIN Append(e, y) : Append(e, y)[i] = x}) =
              Cardinality({i \in DOMAIN e : e[i] = x}) + (IF y = x THEN 1 ELSE 0)
<1> DEFINE f == Append(e, y)
           old == {i \in DOMAIN e : e[i] = x}
           new == {i \in DOMAIN f : f[i] = x}
<1>1. /\ Len(e) \in Nat /\ DOMAIN e = 1 .. Len(e) /\ DOMAIN f = 1 .. Len(e) + 1
      /\ f[Len(e) + 1] = y /\ \A i \in 1 .. Len(e) : f[i] = e[i]
  OBVIOUS
<1>2. IsFiniteSet(old) /\ Cardinality(old) \in Nat
  <2>1. IsFiniteSet(1 .. Len(e)) BY <1>1, SegmentIsFinite
  <2>2. old \in SUBSET (1 .. Len(e)) BY <1>1
  <2> QED BY <2>1, <2>2, FS_Subset, FS_CardinalityType
<1>3. ASSUME y = x PROVE Cardinality(new) = Cardinality(old) + 1
  <2>1. new = old \cup {Len(e) + 1} BY <1>1, <1>3
  <2>2. Len(e) + 1 \notin old BY <1>1
  <2> QED BY <1>2, <1>3, <2>1, <2>2, FS_AddElement
<1>4. ASSUME y # x PROVE Cardinality(new) = Cardinality(old) + 0
  <2>1. new = old BY <1>1, <1>4
  <2> HIDE DEF old, new
  <2> QED BY <1>2, <1>4, <2>1
<1>5. Cardinality(new) = Cardinality(old) + (IF y = x THEN 1 ELSE 0) BY <1>3, <1>4
<1> QED BY <1>2, <1>5

(* The events of an action include those with one of its texts.            *)
LEMMA RepeatsAreEvents ==
    ASSUME NEW r \in RunType, NEW a \in ActionName, NEW text \in Text
    PROVE  /\ Repeats(r, a, text) <= Cardinality({i \in DOMAIN r.events : r.events[i].action = a})
           /\ Cardinality({i \in DOMAIN r.events : r.events[i].action = a}) \in Nat
<1> DEFINE e == r.events
           part == {i \in DOMAIN e : e[i] = [action |-> a, text |-> text]}
           all == {i \in DOMAIN e : e[i].action = a}
<1>1. e \in Seq(Event) BY DEF RunType
<1>2. Len(e) \in Nat /\ DOMAIN e = 1 .. Len(e) BY <1>1
<1>3. IsFiniteSet(1 .. Len(e)) BY <1>2, SegmentIsFinite
<1>4. all \in SUBSET (1 .. Len(e)) /\ part \in SUBSET all BY <1>2
<1>5. IsFiniteSet(all) BY <1>3, <1>4, FS_Subset
<1> QED BY <1>4, <1>5, FS_Subset, FS_CardinalityType DEF Repeats

(* record_action to the number: q is what it makes of r.                   *)
Counted(q, r, a, text, retry) ==
    \/ /\ q.steps = r.steps /\ q.calls = r.calls /\ q.events = r.events
       /\ q.status \in Final \cup {"paused"}
       /\ r.status \in Final => q.status \in Final
       /\ q.status = "paused" =>
             OverBudget(r) \/ (Previous(r) # a /\ (a \notin Follow[Previous(r)] \/ retry))
    \/ /\ ~ OverBudget(r) /\ r.status \notin Final /\ Repeats(r, a, text) < 2
       /\ q.steps = r.steps + 1 /\ q.calls = r.calls + (IF retry THEN 0 ELSE 1)
       /\ q.events = Append(r.events, [action |-> a, text |-> text])
       /\ a = "complete" => q.status \in Final

LEMMA Counting ==
    ASSUME NEW r \in RunType, NEW a \in ActionName, NEW text \in Text, NEW retry \in BOOLEAN,
           late \in BOOLEAN, NEW q, q = Recorded(r, a, text, retry)
    PROVE  Counted(q, r, a, text, retry)
<1> USE DEF Counted
<1> DEFINE s == Stopped(r, a, text, retry)
<1>0. Repeats(r, a, text) \in Nat
  <2> DEFINE x == [action |-> a, text |-> text]
             e == r.events
  <2>1. e \in Seq(Event) /\ x \in Event BY DEF RunType, Event
  <2>2. Repeats(r, a, text) = Cardinality({i \in DOMAIN e : e[i] = x}) BY DEF Repeats
  <2> HIDE DEF x, e
  <2> QED BY <2>1, <2>2, EventsCounted
<1>1. \/ s \in Final /\ (r.status \in Final => s \in Final)
      \/ /\ s = "paused" /\ r.status \notin Final
         /\ \/ OverBudget(r)
            \/ Previous(r) # a /\ (a \notin Follow[Previous(r)] \/ retry)
      \/ s = "" /\ r.status \notin Final /\ ~ OverBudget(r) /\ Repeats(r, a, text) < 2
  <2>1. CASE r.status \in Final
    <3>1. s = r.status BY <2>1 DEF Stopped, Final
    <3> QED BY <2>1, <3>1
  <2>2. CASE r.status \notin Final /\ Repeats(r, a, text) >= 2
    <3>1. s = "loop_detected" BY <2>2 DEF Stopped, Final
    <3> QED BY <2>2, <3>1 DEF Final
  <2>3. CASE r.status \notin Final /\ ~ (Repeats(r, a, text) >= 2)
    <3>1. s = IF ~ Approved(Previous(r), a, retry \/ Previous(r) = a) \/ OverBudget(r)
              THEN "paused" ELSE ""
      BY <2>3 DEF Stopped, Final
    <3>2. Repeats(r, a, text) < 2 BY <1>0, <2>3
    <3> QED BY <2>3, <3>1, <3>2 DEF Approved
  <2> QED BY <2>1, <2>2, <2>3
<1>2. CASE s # ""
  <2>1. q = [r EXCEPT !.status = s] BY <1>2 DEF Recorded
  <2>2. s \in Final \cup {"paused"} BY <1>1, <1>2
  <2> HIDE DEF s
  <2>3. q.status = s /\ q.events = r.events /\ q.steps = r.steps /\ q.calls = r.calls
    BY <2>1, <2>2 DEF RunType
  <2>4. r.status \in Final => q.status \in Final BY <1>1, <2>3 DEF Final
  <2>5. q.status = "paused" =>
           OverBudget(r) \/ (Previous(r) # a /\ (a \notin Follow[Previous(r)] \/ retry))
    BY <1>1, <2>3 DEF Final
  <2> QED BY <2>2, <2>3, <2>4, <2>5
<1>3. CASE s = ""
  <2> DEFINE st == CASE a = "complete" -> "completed" [] a = "pause_for_review" -> "paused"
                     [] OTHER -> "running"
  <2> DEFINE n == IF retry THEN r.calls ELSE r.calls + 1
  <2> DEFINE e == Append(r.events, [action |-> a, text |-> text])
  <2>1. q = [status |-> st, steps |-> r.steps + 1, calls |-> n, events |-> e]
    BY <1>3 DEF Recorded
  <2>2. a = "complete" => st \in Final
    <3>1. CASE a = "complete" BY <3>1 DEF Final
    <3> QED BY <3>1
  <2>3. n = r.calls + (IF retry THEN 0 ELSE 1) BY DEF RunType
  <2> HIDE DEF s, st, n, e
  <2>4. q.status = st /\ q.steps = r.steps + 1 /\ q.calls = n /\ q.events = e BY <2>1
  <2>5. ~ OverBudget(r) /\ r.status \notin Final /\ Repeats(r, a, text) < 2
    <3>1. s # "paused" /\ s \notin Final BY <1>3 DEF Final
    <3> QED BY <1>1, <3>1
  <2> QED BY <2>2, <2>3, <2>4, <2>5 DEF e
<1> QED BY <1>2, <1>3

LEMMA RepeatsNumber ==
    ASSUME NEW r \in RunType, NEW a \in ActionName, NEW text \in Text
    PROVE  Repeats(r, a, text) \in Nat
<1> DEFINE x == [action |-> a, text |-> text]
           e == r.events
<1>1. e \in Seq(Event) /\ x \in Event BY DEF RunType, Event
<1>2. Repeats(r, a, text) = Cardinality({i \in DOMAIN e : e[i] = x}) BY DEF Repeats
<1> HIDE DEF x, e
<1> QED BY <1>1, <1>2, EventsCounted

(* Recording keeps what an agent's own events cover, and covers one call   *)
(* more of the agent that it records.                                      *)
LEMMA RecordingCovers ==
    ASSUME NEW r \in RunType, NEW q \in RunType, NEW a \in ActionName, NEW text \in Text,
           NEW retry \in BOOLEAN, Counted(q, r, a, text, retry), NEW b \in Runnable,
           NEW n \in Nat, Covers(r, b, n)
    PROVE  /\ Covers(q, b, n)
           /\ a = b /\ text = "context" /\ q.steps # r.steps => Covers(q, b, n + 1)
<1> DEFINE x == [action |-> b, text |-> "context"]
           y == [action |-> a, text |-> text]
           e == r.events
           f == q.events
<1>1. b \in ActionName /\ "context" \in Text BY Names DEF Text
<1>2. Repeats(r, b, "context") \in Nat BY <1>1, RepeatsNumber
<1>3. CASE q.steps = r.steps /\ f = e
  BY <1>2, <1>3 DEF Repeats, Covers
<1>4. CASE f = Append(e, y) /\ Repeats(r, a, text) < 2
  <2>1. e \in Seq(Event) /\ x \in Event /\ y \in Event BY <1>1 DEF RunType, Event
  <2>2. /\ Repeats(r, b, "context") = Cardinality({i \in DOMAIN e : e[i] = x})
        /\ Repeats(q, b, "context") = Cardinality({i \in DOMAIN f : f[i] = x})
    BY DEF Repeats
  <2>3. y = x <=> (a = b /\ text = "context") OBVIOUS
  <2> HIDE DEF x, y, e, f
  <2>4. Repeats(q, b, "context") = Repeats(r, b, "context") + (IF y = x THEN 1 ELSE 0)
    BY <1>4, <2>1, <2>2, EventsCounted
  <2> QED BY <1>2, <1>4, <2>3, <2>4 DEF Covers
<1> QED BY <1>3, <1>4 DEF Counted

-----------------------------------------------------------------------------
LEMMA CountsInit == Init => Counts
<1> SUFFICES ASSUME Init PROVE Counts OBVIOUS
<1> USE DEF Init, WorkflowInit
<1>1. Previous(run) = Start /\ DOMAIN run.events = {} BY DEF Previous
<1>2. \A a \in Runnable : Repeats(run, a, "context") = 0
  <2> SUFFICES ASSUME NEW a \in Runnable PROVE Repeats(run, a, "context") = 0 OBVIOUS
  <2>1. {i \in DOMAIN run.events : run.events[i] = [action |-> a, text |-> "context"]} = {}
    BY <1>1
  <2> QED BY <2>1, FS_EmptySet DEF Repeats
<1>3. Asking BY OrchestratorAssumption DEF Asking
<1>4. ~ Owed BY DEF Owed, Retrying
<1>5. Calling BY <1>2, <1>4 DEF Calling, Covers
<1>6. Visiting BY <1>4, OrchestratorAssumption DEF Visiting, Owed
<1> QED BY <1>1, <1>3, <1>5, <1>6 DEF Counts, Start

(* The counts when the run, and what the agents were called, stay.         *)
LEMMA SameRun ==
    ASSUME WorkflowInv, WorkflowInv', Counts, run' = run, late => late', handled' = handled,
           Asking', Visiting', Owed' => Owed /\ node'.action = node.action
    PROVE  Counts'
<1>1. Previous(run)' = Previous(run) BY DEF Previous
<1>3. Owed => node.action \in Runnable BY DEF Owed, WorkflowInv, Where, Retrying
<1>4. Calling' BY <1>3 DEF Counts, Calling, Covers, Repeats
<1> QED BY <1>1, <1>4 DEF Counts

LEMMA RouteCounts ==
    ASSUME WorkflowInv, WorkflowInv', Counts,
           RetryAction \/ ChooseNext \/ ModelRoutes \/ RouteRaises
    PROVE  Counts'
<1> USE DEF WorkflowInv, Typed
<1>0. run' = run /\ failure' = failure /\ late' = late /\ handled' = handled
  BY DEF RetryAction, ChooseNext, ModelRoutes, RouteRaises, observed
<1>a. run.steps \in Nat /\ run.calls \in Nat BY DEF RunType
<1>1. Previous(run)' = Previous(run) /\ (OverBudget(run)' <=> OverBudget(run))
  BY <1>0 DEF Previous, OverBudget
<1>2. CASE RetryAction
  <2>1. failure /\ node.at = "route" /\ node.action \in Runnable /\ Onward(run, node.action)
        /\ asked' = asked
    BY <1>2 DEF RetryAction, observed
  <2>2. Asking' BY <1>0, <1>1, <2>1 DEF Counts, Asking
  <2>3. CASE Move("end", node.action)
    <3>1. node'.at = "end" /\ visits' = visits BY <2>3 DEF Move
    <3> QED BY <1>0, <2>2, <3>1, SameRun DEF Counts, Visiting, Owed
  <2>4. CASE Enter("act", node.action) /\ run.status \notin Final \cup {"paused"}
    <3>1. node'.at = "act" /\ node'.action = node.action /\ visits' = visits + 1
      BY <2>4 DEF Enter
    <3>2. Retrying BY <2>1, <2>4 DEF Where
    <3>3. Visiting' BY <1>0, <1>a, <2>1, <3>1, <3>2 DEF Counts, Visiting
    <3> QED BY <1>0, <2>1, <2>2, <3>1, <3>2, <3>3, SameRun DEF Owed
  <2> QED BY <2>1, <2>3, <2>4 DEF Onward, Ends, Final
<1>3. CASE ChooseNext
  <2>1. node.at = "route" /\ ~ (failure /\ node.action \in Runnable) BY <1>3 DEF ChooseNext
  <2>2. /\ node'.at \in {"ask", "record"} /\ visits' = visits
        /\ \/ asked' = asked
           \/ ~ OverBudget(run) /\ asked' = asked + 1
    BY <1>3 DEF ChooseNext, Move
  <2>3. asked <= run.calls \/ OverBudget(run) BY <2>1 DEF Counts, Asking
  <2>4. Asking'
    <3>1. CASE asked' = asked BY <1>0, <1>1, <2>3, <3>1 DEF Counts, Asking
    <3>2. CASE ~ OverBudget(run) /\ asked' = asked + 1
      <4>1. ~ (run.calls >= MaxLLMCalls) BY <3>2 DEF OverBudget
      <4>2. asked \in Nat BY DEF Counts, Asking
      <4> QED BY <1>0, <1>a, <2>2, <2>3, <3>2, <4>1, <4>2, OrchestratorAssumption DEF Asking
    <3> QED BY <2>2, <3>1, <3>2
  <2>5. Visiting' BY <1>0, <2>1, <2>2 DEF Counts, Visiting
  <2> QED BY <1>0, <2>2, <2>4, <2>5, SameRun DEF Owed
<1>4. CASE ModelRoutes \/ RouteRaises
  <2>1. node.at = "ask" /\ asked' = asked /\ visits' = visits
        /\ node'.at \in {"record", "raised"}
    BY <1>4 DEF ModelRoutes, RouteRaises, Move, Raise, observed
  <2>2. Asking' BY <1>0, <1>1, <2>1 DEF Counts, Asking
  <2>3. Visiting' BY <1>0, <2>1 DEF Counts, Visiting
  <2> QED BY <1>0, <2>1, <2>2, <2>3, SameRun DEF Owed
<1> QED BY <1>2, <1>3, <1>4

(* Recording never makes a budget whole, and leaves a completed run so.    *)
LEMMA RecordingKeeps ==
    ASSUME NEW r \in RunType, NEW q \in RunType, NEW a \in ActionName, NEW text \in Text,
           NEW retry \in BOOLEAN, Counted(q, r, a, text, retry), late \in BOOLEAN,
           Previous(r) = "complete" => r.status \in Final
    PROVE  /\ OverBudget(r) => OverBudget(q)
           /\ Previous(q) = "complete" => q.status \in Final
           /\ q.steps \in {r.steps, r.steps + 1} /\ q.calls \in {r.calls, r.calls + 1}
<1>0. r.steps \in Nat /\ r.calls \in Nat BY DEF RunType
<1>1. CASE /\ q.steps = r.steps /\ q.calls = r.calls /\ q.events = r.events
           /\ r.status \in Final => q.status \in Final
  BY <1>1 DEF OverBudget, Previous
<1>2. CASE /\ ~ OverBudget(r) /\ q.steps = r.steps + 1
           /\ q.calls = r.calls + (IF retry THEN 0 ELSE 1)
           /\ q.events = Append(r.events, [action |-> a, text |-> text])
           /\ a = "complete" => q.status \in Final
  <2> DEFINE e == r.events
             f == q.events
             y == [action |-> a, text |-> text]
  <2>1. e \in Seq(Event) /\ y \in Event BY DEF RunType, Event
  <2>2. f # <<>> /\ f[Len(f)] = y
    <3> HIDE DEF e, f, y
    <3>1. f = Append(e, y) BY <1>2 DEF e, f, y
    <3> QED BY <2>1, <3>1
  <2>3. Previous(q) = a BY <2>2 DEF Previous
  <2> QED BY <1>0, <1>2, <2>3
<1> QED BY <1>1, <1>2 DEF Counted

LEMMA OnwardVisits ==
    ASSUME NEW r \in RunType, NEW a \in ActionName, Onward(r, a)
    PROVE  \/ node'.at = "end" /\ visits' = visits
           \/ /\ node'.at = "act" /\ node'.action = a /\ visits' = visits + 1
              /\ a \in Runnable /\ r.status \notin Final \cup {"paused"}
<1>1. CASE Ends(r, a)
  <2>1. node' = [at |-> "end", action |-> a] /\ visits' = visits BY <1>1 DEF Onward, Move
  <2> QED BY <2>1
<1>2. CASE ~ Ends(r, a)
  <2>1. node' = [at |-> "act", action |-> a] /\ visits' = visits + 1 BY <1>2 DEF Onward, Enter
  <2>2. a \in Runnable /\ r.status \notin Final \cup {"paused"} BY <1>2 DEF Ends, Final
  <2> QED BY <2>1, <2>2
<1> QED BY <1>1, <1>2

LEMMA RecordCounts == ASSUME WorkflowInv, WorkflowInv', Counts, RecordRoute PROVE Counts'
<1>a. run \in RunType /\ late \in BOOLEAN BY DEF WorkflowInv, Typed
<1> SUFFICES ASSUME NEW a, NEW r, NEW p, a = node.action, p = Previous(run), r = run'
             PROVE  Counts'
  OBVIOUS
<1>0. node.at = "record" /\ a \in Follow[p] \cup {"pause_for_review"}
  BY DEF RecordRoute, WorkflowInv, Where
<1>1. p \in ActionName \cup {Start} BY <1>a, PreviousIsName
<1>2. a \in ActionName BY <1>0, <1>1, Table DEF ActionName, Closing
<1>3. run' = r /\ Onward(r, a) /\ late' = late /\ asked' = asked /\ handled' = handled
  BY DEF RecordRoute, observed
<1>4. Counted(r, run, a, "context", FALSE) /\ r \in RunType /\ "context" \in Text
      /\ FALSE \in BOOLEAN
  <2>1. "context" \in Text /\ FALSE \in BOOLEAN BY DEF Text
  <2>2. r \in RunType /\ r = Recorded(run, a, "context", FALSE)
    BY DEF RecordRoute, WorkflowInv, Typed
  <2> QED BY <1>a, <1>2, <2>1, <2>2, Counting
<1>5. /\ OverBudget(run) => OverBudget(r)
      /\ Previous(r) = "complete" => r.status \in Final
      /\ r.steps \in {run.steps, run.steps + 1} /\ r.calls \in {run.calls, run.calls + 1}
  BY <1>a, <1>2, <1>4, RecordingKeeps DEF Counts
<1>6. \A b \in Runnable :
         /\ Covers(r, b, handled[b])
         /\ a = b /\ r.steps # run.steps => Covers(r, b, handled[b] + 1)
  <2> SUFFICES ASSUME NEW b \in Runnable, NEW n, n = handled[b]
               PROVE  /\ Covers(r, b, n)
                      /\ a = b /\ r.steps # run.steps => Covers(r, b, n + 1)
    OBVIOUS
  <2>1. Covers(run, b, n) /\ n \in Nat BY DEF Counts, Calling
  <2> QED BY <1>a, <1>2, <1>4, <2>1, RecordingCovers
<1>7. /\ OverBudget(run)' <=> OverBudget(r)
      /\ Previous(run)' = Previous(r)
  BY <1>3 DEF OverBudget, Previous
<1>8. run.steps \in Nat /\ run.calls \in Nat BY <1>a DEF RunType
<1>10. asked <= run.calls + 1 \/ OverBudget(run) BY <1>0, <1>8 DEF Counts, Asking
<1>11. CASE /\ r.status \in Final \cup {"paused"} /\ r.steps = run.steps
            /\ run.status \in Final => r.status \in Final
            /\ r.status = "paused" =>
                  OverBudget(run) \/ (p # a /\ (a \notin Follow[p] \/ FALSE))
  <2>1. node'.at = "end" /\ visits' = visits
    BY <1>2, <1>3, <1>4, <1>11, OnwardVisits
  <2>2. r.status \in Final \/ OverBudget(run)
    <3> SUFFICES ASSUME r.status = "paused", r.status \notin Final, p # a, a \notin Follow[p]
                 PROVE  FALSE
      BY <1>11
    <3>1. a = "pause_for_review" BY <1>0
    <3>2. p \in Closing BY <1>1, <3>1, Table
    <3>3. p = "complete" BY <3>1, <3>2 DEF Closing
    <3> QED BY <1>11, <3>3 DEF Counts
  <2>3. Asking' BY <1>3, <1>5, <1>7, <2>1, <2>2 DEF Counts, Asking
  <2>4. Visiting' BY <1>3, <1>11, <2>1 DEF Counts, Visiting
  <2>5. Calling'
    <3>1. ~ Owed' BY <2>1 DEF Owed
    <3>2. handled' \in [Runnable -> Nat] BY <1>3 DEF Counts, Calling
    <3> QED BY <1>3, <1>6, <3>1, <3>2 DEF Calling, Covers, Repeats
  <2> QED BY <1>3, <1>5, <1>7, <2>3, <2>4, <2>5 DEF Counts
<1>12. CASE /\ ~ OverBudget(run) /\ r.steps = run.steps + 1 /\ r.calls = run.calls + 1
  <2>1. \/ node'.at = "end" /\ visits' = visits
        \/ node'.at = "act" /\ node'.action = a /\ visits' = visits + 1 /\ a \in Runnable
    BY <1>2, <1>3, <1>4, OnwardVisits
  <2>2. Asking' BY <1>3, <1>8, <1>10, <1>12 DEF Counts, Asking
  <2>3. run.steps < MaxSteps BY <1>8, <1>12, OrchestratorAssumption DEF OverBudget
  <2>4. Visiting'
    <3>1. visits \in Nat /\ visits <= 2 * run.steps + 1 BY DEF Counts, Visiting
    <3>2. run'.steps = run.steps + 1 /\ run'.steps <= MaxSteps
      BY <1>3, <1>8, <1>12, <2>3, OrchestratorAssumption
    <3>3. visits' \in Nat /\ visits' <= 2 * run'.steps /\ node'.at # "route"
      BY <1>8, <2>1, <3>1, <3>2
    <3> QED BY <1>8, <3>2, <3>3 DEF Visiting
  <2>5. Calling'
    <3>1. handled' \in [Runnable -> Nat] BY <1>3 DEF Counts, Calling
    <3>2. Owed' => node'.action = a /\ a \in Runnable BY <2>1 DEF Owed
    <3>3. r.steps # run.steps BY <1>8, <1>12
    <3> QED BY <1>3, <1>6, <3>1, <3>2, <3>3 DEF Calling, Covers, Repeats
  <2> QED BY <1>3, <1>5, <1>7, <2>2, <2>4, <2>5 DEF Counts
<1> QED BY <1>4, <1>11, <1>12 DEF Counted

(* After an agent, whatever was recorded of it: it was called once more at *)
(* most, and it is owed a call only when its retry is recorded.            *)
LEMMA AfterAgent ==
    ASSUME WorkflowInv, WorkflowInv', Counts, NEW a \in Runnable, node.at = "act", node.action = a,
           node'.at = "route", node'.action = a, visits' = visits + 1,
           late' = late, asked' = asked,
           handled' = handled \/ handled' = [handled EXCEPT ![a] = @ + 1],
           NEW q, q = run', NEW b \in ActionName, NEW text \in Text, NEW retry \in BOOLEAN,
           q = run \/ Counted(q, run, b, text, retry),
           Retrying' => q # run /\ b = a /\ text = "context" /\ q.steps # run.steps
    PROVE  Counts'
<1>1. run \in RunType /\ q \in RunType /\ late \in BOOLEAN BY DEF WorkflowInv, Typed
<1>2. run.steps \in Nat /\ run.calls \in Nat BY <1>1 DEF RunType
<1>3. /\ OverBudget(run) => OverBudget(q)
      /\ Previous(q) = "complete" => q.status \in Final
      /\ q.steps \in {run.steps, run.steps + 1} /\ q.calls \in {run.calls, run.calls + 1}
  <2>1. CASE q = run BY <2>1 DEF Counts
  <2>2. CASE Counted(q, run, b, text, retry)
    BY <1>1, <2>2, RecordingKeeps DEF Counts
  <2> QED BY <2>1, <2>2
<1>4. q.steps <= MaxSteps
  <2>1. CASE q = run BY <2>1 DEF Counts, Visiting
  <2>2. CASE q.steps = run.steps BY <2>2 DEF Counts, Visiting
  <2>3. CASE ~ OverBudget(run) /\ q.steps = run.steps + 1
    BY <1>2, <2>3, OrchestratorAssumption DEF OverBudget
  <2> QED BY <2>1, <2>2, <2>3 DEF Counted
<1>5. (OverBudget(run)' <=> OverBudget(q)) /\ Previous(run)' = Previous(q)
  BY DEF OverBudget, Previous
<1>6. Asking' BY <1>2, <1>3, <1>5 DEF Counts, Asking
<1>7. Visiting'
  <2>1. visits \in Nat /\ visits <= 2 * run.steps BY DEF Counts, Visiting
  <2>2. visits' \in Nat /\ visits' <= 2 * q.steps + 1 BY <1>2, <1>3, <2>1
  <2>3. Retrying' => visits' < 2 * q.steps BY <1>2, <1>3, <2>1
  <2> QED BY <1>4, <2>2, <2>3 DEF Visiting
<1>8. \A c \in Runnable : Covers(q, c, handled'[c])
  <2> SUFFICES ASSUME NEW c \in Runnable, NEW n, n = handled'[c] PROVE Covers(q, c, n)
    OBVIOUS
  <2>1. Covers(run, c, n) /\ n \in Nat
    <3>1. Covers(run, c, handled[c]) /\ handled[c] \in Nat BY DEF Counts, Calling
    <3>2. Covers(run, a, handled[a] + 1) /\ handled[a] + 1 \in Nat
      BY DEF Counts, Calling, Owed
    <3>3. n = handled[c] \/ (c = a /\ n = handled[a] + 1) BY DEF Counts, Calling
    <3> QED BY <3>1, <3>2, <3>3
  <2>2. CASE q = run BY <2>1, <2>2
  <2>3. CASE Counted(q, run, b, text, retry) BY <1>1, <2>1, <2>3, RecordingCovers
  <2> QED BY <2>2, <2>3
<1>9. Retrying' => Covers(q, a, handled'[a] + 1)
  <2> SUFFICES ASSUME Retrying', NEW n, n = handled'[a] PROVE Covers(q, a, n + 1)
    OBVIOUS
  <2>1. Covers(run, a, n) /\ n \in Nat
    <3>1. Covers(run, a, handled[a]) /\ handled[a] \in Nat BY DEF Counts, Calling
    <3>2. Covers(run, a, handled[a] + 1) /\ handled[a] + 1 \in Nat
      BY DEF Counts, Calling, Owed
    <3>3. n = handled[a] \/ n = handled[a] + 1 BY DEF Counts, Calling
    <3> QED BY <3>1, <3>2, <3>3
  <2>2. Counted(q, run, a, text, retry) /\ text = "context" /\ q.steps # run.steps OBVIOUS
  <2>3. a \in ActionName BY Names
  <2> QED BY <1>1, <2>1, <2>2, <2>3, RecordingCovers
<1>10. Calling'
  <2>1. handled' \in [Runnable -> Nat] BY DEF Counts, Calling
  <2>2. Owed' <=> Retrying' BY DEF Owed
  <2> QED BY <1>8, <1>9, <2>1, <2>2 DEF Calling, Covers, Repeats
<1> QED BY <1>3, <1>5, <1>6, <1>7, <1>10 DEF Counts

LEMMA HandlerCounts == ASSUME WorkflowInv, WorkflowInv', Counts, HandlerStep PROVE Counts'
<1>a. run \in RunType /\ late \in BOOLEAN BY DEF WorkflowInv, Typed
<1>1. PICK a \in Runnable :
        \/ MissingHandler(a) \/ HandlerCompletes(a) \/ HandlerRetries(a)
        \/ HandlerRaises(a) \/ HandlerReturns(a) \/ HandlerRaisesAtLength(a)
  BY DEF HandlerStep
<1>2. node.at = "act" /\ node.action = a
  BY <1>1 DEF MissingHandler, HandlerCompletes, HandlerRetries, HandlerRaises, HandlerReturns,
              HandlerRaisesAtLength, Act
<1>3. a \in ActionName /\ "pause_for_review" \in ActionName
  BY Names DEF ActionName, Closing
<1>b. "context" \in Text /\ TRUE \in BOOLEAN /\ FALSE \in BOOLEAN BY DEF Text
<1>4. CASE MissingHandler(a) \/ HandlerRaises(a) \/ HandlerReturns(a)
  <2>1. /\ node'.at = "route" /\ node'.action = a /\ late' = late
        /\ visits' = visits + 1 /\ asked' = asked
        /\ handled' = handled \/ handled' = [handled EXCEPT ![a] = @ + 1]
    <3>1. Act(a) /\ (handled' = handled \/ Called(a))
      BY <1>4 DEF MissingHandler, HandlerRaises, HandlerReturns
    <3> QED BY <3>1 DEF Act, Enter, Called
  <2>2. PICK text \in Text : run' = Recorded(run, "pause_for_review", text, FALSE)
    BY <1>4 DEF MissingHandler, HandlerRaises, HandlerReturns, Text
  <2>3. Counted(run', run, "pause_for_review", text, FALSE)
    BY <1>a, <1>b, <1>3, <2>2, Counting
  <2>4. run'.status \in Final \cup {"paused"}
    <3>1. Previous(run) \in Runnable BY <1>2 DEF WorkflowInv, Where
    <3> QED BY <2>1, <2>2, <3>1, PauseKills DEF WorkflowInv
  <2>5. ~ Retrying' BY <2>4 DEF Retrying, Final
  <2> QED BY <1>b, <1>2, <1>3, <2>1, <2>3, <2>5, AfterAgent
<1>5. CASE HandlerCompletes(a)
  <2>1. /\ node'.at = "route" /\ node'.action = a /\ late' = late
        /\ visits' = visits + 1 /\ asked' = asked
        /\ handled' = [handled EXCEPT ![a] = @ + 1]
        /\ failure' = FALSE /\ run' = run
    BY <1>5 DEF HandlerCompletes, Act, Enter, Called
  <2>2. ~ Retrying' BY <2>1 DEF Retrying
  <2> QED BY <1>b, <1>2, <1>3, <2>1, <2>2, AfterAgent
<1>6. CASE HandlerRetries(a)
  <2>1. /\ node'.at = "route" /\ node'.action = a /\ late' = late
        /\ visits' = visits + 1 /\ asked' = asked
        /\ handled' = [handled EXCEPT ![a] = @ + 1]
        /\ run' = Recorded(run, a, "context", TRUE)
    BY <1>6 DEF HandlerRetries, Act, Enter, Called
  <2>2. Counted(run', run, a, "context", TRUE) BY <1>a, <1>b, <1>3, <2>1, Counting
  <2>3. Retrying' => run'.steps = run.steps + 1
    BY <2>2 DEF Counted, Retrying, Final
  <2>4. run.steps \in Nat BY <1>a DEF RunType
  <2>5. Retrying' => run'.steps # run.steps BY <2>3, <2>4
  <2> QED BY <1>b, <1>2, <1>3, <2>1, <2>2, <2>5, AfterAgent
<1>7. CASE HandlerRaisesAtLength(a)
  <2>1. /\ node'.at = "raised" /\ visits' = visits
        /\ UNCHANGED <<run, failure, late, asked>>
        /\ handled' = [handled EXCEPT ![a] = @ + 1]
    <3>1. node' = [node EXCEPT !.at = "raised"] BY <1>7 DEF HandlerRaisesAtLength, Raise
    <3>2. node'.at = "raised" BY <3>1 DEF WorkflowInv, Typed
    <3> QED BY <1>7, <3>2 DEF HandlerRaisesAtLength, Raise, Called
  <2>2. run.steps \in Nat BY <1>a DEF RunType
  <2>3. Asking' BY <2>1 DEF Counts, Asking
  <2>4. Visiting' BY <1>2, <2>1, <2>2 DEF Counts, Visiting
  <2>5. Calling'
    <3>1. \A c \in Runnable : Covers(run, c, handled'[c])
      BY <1>2, <2>1 DEF Counts, Calling, Owed
    <3>2. handled' \in [Runnable -> Nat] BY <2>1 DEF Counts, Calling
    <3>3. ~ Owed' BY <2>1 DEF Owed
    <3> QED BY <2>1, <3>1, <3>2, <3>3 DEF Calling, Covers, Repeats
  <2> QED BY <2>1, <2>3, <2>4, <2>5 DEF Counts, Previous
<1> QED BY <1>1, <1>4, <1>5, <1>6, <1>7

LEMMA OutsideCounts == ASSUME WorkflowInv, WorkflowInv', Counts, Expire \/ Resume PROVE Counts'
<1>1. CASE Expire
  <2>1. late' = TRUE /\ UNCHANGED <<run, node, failure, finished, asked, handled, visits>>
    BY <1>1 DEF Expire, observed
  <2>2. Asking' BY <2>1 DEF Counts, Asking, OverBudget
  <2>3. Retrying' <=> Retrying BY <2>1 DEF Retrying, Previous
  <2>4. Visiting' BY <2>1, <2>3 DEF Counts, Visiting
  <2>5. Owed' => Owed BY <2>1, <2>3 DEF Owed
  <2> QED BY <2>1, <2>2, <2>4, <2>5, SameRun
<1>2. CASE Resume
  <2>1. /\ node.at = "end" /\ run.status = "paused"
        /\ run' = [run EXCEPT !.status = "running"]
        /\ node'.at = "route" /\ visits' = 1 /\ failure' = FALSE
        /\ UNCHANGED <<late, asked, handled>>
    BY <1>2 DEF Resume, observed
  <2>2. /\ run'.events = run.events /\ run'.steps = run.steps /\ run'.calls = run.calls
        /\ run.steps \in Nat
    BY <2>1 DEF WorkflowInv, Typed, RunType
  <2>3. Previous(run)' = Previous(run) /\ (OverBudget(run)' <=> OverBudget(run))
    BY <2>1, <2>2 DEF Previous, OverBudget
  <2>4. Asking' BY <2>1, <2>2, <2>3 DEF Counts, Asking, Final
  <2>5. ~ Retrying' BY <2>1 DEF Retrying
  <2>6. Visiting' BY <2>1, <2>2, <2>5 DEF Counts, Visiting
  <2>7. Calling'
    <3>1. ~ Owed' BY <2>1, <2>5 DEF Owed
    <3> QED BY <2>1, <2>2, <3>1 DEF Counts, Calling, Covers, Repeats
  <2> QED BY <2>1, <2>3, <2>4, <2>6, <2>7 DEF Counts, Final
<1> QED BY <1>1, <1>2

LEMMA CountsStep == ASSUME WorkflowInv, WorkflowInv', Counts, [Next]_vars PROVE Counts'
<1>1. CASE Workflow
  BY <1>1, RouteCounts, RecordCounts, HandlerCounts, OutsideCounts DEF Workflow, WorkflowStep
<1>2. CASE UNCHANGED workflow
  <2>1. /\ UNCHANGED <<run, node, failure, late, finished, asked, handled, visits>>
    BY <1>2 DEF workflow
  <2>2. Asking' BY <2>1 DEF Counts, Asking, OverBudget
  <2>3. Retrying' <=> Retrying BY <2>1 DEF Retrying, Previous
  <2>4. Visiting' BY <2>1, <2>3 DEF Counts, Visiting
  <2>5. Owed' => Owed BY <2>1, <2>3 DEF Owed
  <2> QED BY <2>1, <2>2, <2>4, <2>5, SameRun
<1> QED BY <1>1, <1>2 DEF Next, Generation, Ledger, vars

(* The budgets of a workflow hold for any budget and any mix of retries,   *)
(* failures, late deadlines and resumes: the model is asked at most        *)
(* max_llm_calls times, at most max_steps actions are recorded, no agent   *)
(* is called more than twice or more often than it is recorded, and the    *)
(* recursion limit of an invocation is out of reach.                       *)
THEOREM BudgetsAlwaysHold == Spec => []BudgetsHold
<1>1. WorkflowInv /\ Counts => BudgetsHold
  <2> SUFFICES ASSUME WorkflowInv, Counts PROVE BudgetsHold OBVIOUS
  <2>1. run \in RunType BY DEF WorkflowInv, Typed
  <2>2. run.steps \in Nat BY <2>1 DEF RunType
  <2>3. visits <= 3 * MaxSteps + 4
    BY <2>2, OrchestratorAssumption DEF Counts, Visiting
  <2>4. \A a \in Runnable :
           /\ handled[a] <= Cardinality({i \in DOMAIN run.events : run.events[i].action = a})
           /\ handled[a] <= 2
    <3> SUFFICES ASSUME NEW a \in Runnable
                 PROVE  /\ handled[a] <=
                              Cardinality({i \in DOMAIN run.events : run.events[i].action = a})
                        /\ handled[a] <= 2
      OBVIOUS
    <3> DEFINE n == Cardinality({i \in DOMAIN run.events : run.events[i].action = a})
               m == Repeats(run, a, "context")
    <3>1. a \in ActionName /\ "context" \in Text BY Names DEF Text
    <3>2. m <= n /\ m \in Nat /\ n \in Nat BY <2>1, <3>1, RepeatsAreEvents, RepeatsNumber
    <3>3. handled[a] \in Nat /\ handled[a] <= m /\ m <= 2 BY DEF Counts, Calling, Covers
    <3> HIDE DEF n, m
    <3>4. handled[a] <= n /\ handled[a] <= 2 BY <3>2, <3>3
    <3> QED BY <3>4 DEF n
  <2> QED BY <2>3, <2>4 DEF BudgetsHold, Counts, Asking, Visiting
<1>2. WorkflowInv /\ Counts /\ [Next]_vars => (WorkflowInv /\ Counts)'
  BY WorkflowInvStep, CountsStep
<1> QED BY <1>1, <1>2, WorkflowInvInit, CountsInit, PTL DEF Spec

-----------------------------------------------------------------------------
(***************************************************************************)
(* The ledgers.                                                            *)
(***************************************************************************)
\* What one step of anybody does to the reservations, and to the trials.
BudgetMoves ==
    \/ Midnight
    \/ \E c \in Caller : CompleteJson(c) \/ BudgetStep(c) \/ Forget(c) \/ Abandon(c)
    \/ UNCHANGED budget
TrialsMove ==
    \/ \E r \in Request : GenerationStep(r) \/ Die(r)
    \/ UNCHANGED generation

(* A caller that is to insert holds the write lock, and its day has room.  *)
Progress == {"none", "dated", "under", "over", "sent", "answered", "failed"}
BudgetInv ==
    /\ today \in Day
    /\ reserved \in [Day -> Nat]
    /\ \A d \in Day : reserved[d] <= DailyCap
    /\ call \in [Caller -> [at : Progress, day : 0 .. LastDay]]
    /\ \A c \in Caller : call[c].at = "dated" => call[c].day \in Day
    /\ \A c \in Caller : call[c].at = "under" =>
          writer = c /\ call[c].day \in Day /\ reserved[call[c].day] < DailyCap

(* A request that has read the counter holds the advisory lock, and what   *)
(* it read is still so.                                                    *)
Phase == {"new", "calling", "reading", "recording", "counted", "answered", "refused", "failed",
          "lost"}
Shape(V) ==
    req \in [Request -> [at : Phase, todo : V, recorded : V, row : Nat, known : BOOLEAN]]
ReadIsFresh ==
    \A r \in Request : req[r].at = "counted" =>
        advisory = r /\ req[r].row = counter /\ (req[r].known <=> Proposal(r) \in trials)
TrialsInv ==
    /\ \E V : Shape(V)
    /\ counter \in Nat /\ IsFiniteSet(trials)
    /\ TrialsAreCounted
    /\ ReadIsFresh

LedgersInv == BudgetInv /\ TrialsInv

-----------------------------------------------------------------------------
LEMMA LedgersInit == Init => LedgersInv
<1> SUFFICES ASSUME Init PROVE LedgersInv OBVIOUS
<1> USE BudgetAssumption, GenerationAssumption
<1>1. BudgetInv
  BY DEF Init, BudgetInit, BudgetInv, Day, Progress, NoCall
<1>2. Shape({<<>>}) BY DEF Init, GenerationInit, Fresh, Shape, Phase
<1>3. TrialsAreCounted BY FS_EmptySet DEF Init, GenerationInit, TrialsAreCounted
<1>4. ReadIsFresh BY DEF Init, GenerationInit, Fresh, ReadIsFresh
<1>5. TrialsInv BY <1>2, <1>3, <1>4, FS_EmptySet DEF TrialsInv, Init, GenerationInit
<1> QED BY <1>1, <1>5 DEF LedgersInv

(* The workflow and the requests touch the reservations through a call of  *)
(* the model only, and the workflow does not touch the trials at all.      *)
LEMMA MovesAreFew == [Next]_vars => BudgetMoves /\ TrialsMove
<1> SUFFICES ASSUME [Next]_vars PROVE BudgetMoves /\ TrialsMove OBVIOUS
<1> USE OrchestratorAssumption, GenerationAssumption
<1>1. CASE Workflow
  <2>1. UNCHANGED generation BY <1>1 DEF Workflow
  <2>2. CASE RetryAction BY <2>1, <2>2 DEF RetryAction, BudgetMoves, TrialsMove
  <2>3. CASE ChooseNext BY <2>1, <2>3 DEF ChooseNext, BudgetMoves, TrialsMove
  <2>4. CASE ModelRoutes BY <2>1, <2>4 DEF ModelRoutes, BudgetMoves, TrialsMove
  <2>5. CASE RouteRaises BY <2>1, <2>5 DEF RouteRaises, BudgetMoves, TrialsMove
  <2>6. CASE RecordRoute BY <2>1, <2>6 DEF RecordRoute, BudgetMoves, TrialsMove
  <2>7. CASE HandlerStep
    <3>1. UNCHANGED budget
      BY <2>7 DEF HandlerStep, MissingHandler, HandlerCompletes, HandlerRetries,
                  HandlerRaises, HandlerReturns, HandlerRaisesAtLength, Act
    <3> QED BY <2>1, <3>1 DEF BudgetMoves, TrialsMove
  <2>8. CASE Expire \/ Resume BY <2>1, <2>8 DEF Expire, Resume, BudgetMoves, TrialsMove
  <2> QED
    BY <1>1, <2>2, <2>3, <2>4, <2>5, <2>6, <2>7, <2>8 DEF Workflow, WorkflowStep
<1>2. CASE Generation
  <2>1. PICK r \in Request : GenerationStep(r) \/ Die(r) BY <1>2 DEF Generation
  <2>2. r \in Caller OBVIOUS
  <2>3. BudgetMoves
    <3>1. CASE Count(r) BY <2>2, <3>1 DEF Count, BudgetMoves
    <3>2. CASE Generate(r) BY <2>2, <3>2 DEF Generate, BudgetMoves
    <3>3. CASE Die(r) BY <2>2, <3>3 DEF Die, BudgetMoves
    <3>4. CASE \/ LockExperiment(r) \/ CommitKnown(r) \/ Rollback(r) \/ CommitTrial(r)
               \/ Accept(r) \/ EndBatch(r) \/ Reply(r)
      BY <3>4 DEF LockExperiment, ReadTrials, CommitKnown, Rollback, CommitTrial, Reply,
                  Accept, EndBatch, BudgetMoves
    <3> QED BY <2>1, <3>1, <3>2, <3>3, <3>4 DEF GenerationStep
  <2> QED BY <2>1, <2>3 DEF TrialsMove
<1>3. CASE Ledger BY <1>3 DEF Ledger, BudgetMoves, TrialsMove
<1>4. CASE UNCHANGED vars BY <1>4 DEF vars, BudgetMoves, TrialsMove
<1> QED BY <1>1, <1>2, <1>3, <1>4 DEF Next
-----------------------------------------------------------------------------
(* What happens to a day's reservations: nothing, or one more while there  *)
(* is room.                                                                *)
ReservesOne ==
    \E d \in Day : reserved[d] < DailyCap /\ reserved' = [reserved EXCEPT ![d] = @ + 1]

LEMMA BudgetStepHolds ==
    ASSUME BudgetInv, BudgetMoves
    PROVE  BudgetInv' /\ (reserved' = reserved \/ ReservesOne)
<1> USE BudgetAssumption DEF BudgetInv, Day, Progress
<1>1. CASE Midnight BY <1>1 DEF Midnight
<1>2. CASE UNCHANGED budget BY <1>2 DEF budget
<1>3. ASSUME NEW c \in Caller, CompleteJson(c) PROVE BudgetInv' /\ reserved' = reserved
  BY <1>3 DEF CompleteJson
<1>4. ASSUME NEW c \in Caller, BeginImmediate(c) PROVE BudgetInv' /\ reserved' = reserved
  <2>1. \A b \in Caller : call[b].at # "under" BY <1>4 DEF BeginImmediate
  <2>2. writer' = c /\ reserved' = reserved /\ today' = today
    BY <1>4 DEF BeginImmediate, SumDay
  <2>3. PICK s \in {"under", "over"} :
          /\ call' = [call EXCEPT ![c].at = s]
          /\ s = "under" => reserved[call[c].day] < DailyCap
    BY <1>4 DEF BeginImmediate, SumDay
  <2>4. call[c].day \in Day BY <1>4 DEF BeginImmediate, SumDay
  <2>5. call' \in [Caller -> [at : Progress, day : 0 .. LastDay]] BY <2>3
  <2>6. call'[c].at = s /\ call'[c].day = call[c].day BY <2>3
  <2>7. \A b \in Caller \ {c} : call'[b] = call[b] BY <2>3
  <2> QED BY <2>1, <2>2, <2>3, <2>4, <2>5, <2>6, <2>7
<1>5. ASSUME NEW c \in Caller, Locked(c) PROVE BudgetInv' /\ reserved' = reserved
  BY <1>5 DEF Locked
<1>6. ASSUME NEW c \in Caller, Reserve(c) PROVE BudgetInv' /\ ReservesOne
  <2> DEFINE d == call[c].day
  <2>1. d \in Day /\ writer = c /\ reserved[d] < DailyCap BY <1>6 DEF Reserve
  <2>2. reserved' = [reserved EXCEPT ![d] = @ + 1] BY <1>6 DEF Reserve
  <2>3. \A b \in Caller : call'[b].at = "under" => call[b].at = "under" /\ b # c
    BY <1>6 DEF Reserve
  <2>4. \A b \in Caller : call'[b].at # "under" BY <2>1, <2>3
  <2>5. reserved' \in [Day -> Nat] /\ \A e \in Day : reserved'[e] <= DailyCap BY <2>1, <2>2
  <2>6. BudgetInv' BY <1>6, <2>4, <2>5 DEF Reserve
  <2> QED BY <2>1, <2>2, <2>6 DEF ReservesOne
<1>7. ASSUME NEW c \in Caller, Exhausted(c) PROVE BudgetInv' /\ reserved' = reserved
  BY <1>7 DEF Exhausted
<1>8. ASSUME NEW c \in Caller, Answer(c) PROVE BudgetInv' /\ reserved' = reserved
  BY <1>8 DEF Answer
<1>9. ASSUME NEW c \in Caller, Forget(c) PROVE BudgetInv' /\ reserved' = reserved
  BY <1>9 DEF Forget, NoCall
<1>10. ASSUME NEW c \in Caller, Abandon(c) PROVE BudgetInv' /\ reserved' = reserved
  BY <1>10 DEF Abandon, NoCall
<1> QED
  BY <1>1, <1>2, <1>3, <1>4, <1>5, <1>6, <1>7, <1>8, <1>9, <1>10
  DEF BudgetMoves, BudgetStep, Midnight, budget

-----------------------------------------------------------------------------
(* What happens to the counter: nothing, or one more below some limit.     *)
CountsOne == (\E r \in Request : counter < TrialLimit[r]) /\ counter' = counter + 1

(* A request that changes nothing but itself, outside its transaction.     *)
LEMMA OutsideKeeps ==
    ASSUME TrialsInv, NEW r \in Request, NEW q, req' = [req EXCEPT ![r] = q],
           UNCHANGED <<trials, counter>>,
           \E W : q \in [at : Phase, todo : W, recorded : W, row : Nat, known : BOOLEAN],
           q.at # "counted",
           advisory' = advisory \/ (advisory = r /\ advisory' = Nobody)
    PROVE  TrialsInv'
<1>1. PICK V : Shape(V) BY DEF TrialsInv
<1>2. PICK W : q \in [at : Phase, todo : W, recorded : W, row : Nat, known : BOOLEAN] OBVIOUS
<1>3. req'[r] = q /\ \A s \in Request \ {r} : req'[s] = req[s] BY <1>1 DEF Shape
<1>4. Shape(V \cup W)'
  <2>1. q \in [at : Phase, todo : V \cup W, recorded : V \cup W, row : Nat, known : BOOLEAN]
    BY <1>2
  <2>2. \A s \in Request :
          req[s] \in [at : Phase, todo : V \cup W, recorded : V \cup W, row : Nat, known : BOOLEAN]
    BY <1>1 DEF Shape
  <2> QED BY <1>1, <2>1, <2>2 DEF Shape
<1>5. ReadIsFresh'
  <2> SUFFICES ASSUME NEW s \in Request, req'[s].at = "counted"
               PROVE  /\ advisory' = s /\ req'[s].row = counter'
                      /\ req'[s].known <=> Head(req'[s].todo) \in trials'
    BY DEF ReadIsFresh, Proposal
  <2>1. s # r /\ req'[s] = req[s] BY <1>3
  <2> QED BY <2>1 DEF TrialsInv, ReadIsFresh, Proposal
<1>6. TrialsAreCounted' BY DEF TrialsInv, TrialsAreCounted
<1> QED BY <1>4, <1>5, <1>6 DEF TrialsInv

LEMMA TrialsStepHolds ==
    ASSUME TrialsInv, TrialsMove
    PROVE  TrialsInv' /\ (counter' = counter \/ CountsOne)
<1>1. CASE UNCHANGED generation
  BY <1>1 DEF generation, TrialsInv, Shape, TrialsAreCounted, ReadIsFresh, Proposal
<1>2. ASSUME NEW r \in Request, GenerationStep(r) \/ Die(r)
      PROVE  TrialsInv' /\ (counter' = counter \/ CountsOne)
  <2> USE DEF Phase
  <2>1. PICK V : Shape(V) BY DEF TrialsInv
  <2>2. req[r] \in [at : Phase, todo : V, recorded : V, row : Nat, known : BOOLEAN]
    BY <2>1 DEF Shape
  <2>3. ASSUME NEW s \in Phase \ {"counted"}, Stay(r, s), UNCHANGED <<trials, counter>>,
               UNCHANGED advisory \/ Unlock(r)
        PROVE  TrialsInv' /\ counter' = counter
    <3> DEFINE q == [req[r] EXCEPT !.at = s]
    <3>1. q \in [at : Phase, todo : V, recorded : V, row : Nat, known : BOOLEAN] BY <2>2
    <3>2. q.at # "counted" BY <2>2
    <3>3. req' = [req EXCEPT ![r] = q] BY <2>3 DEF Stay
    <3>4. advisory' = advisory \/ (advisory = r /\ advisory' = Nobody) BY <2>3 DEF Unlock
    <3> HIDE DEF q
    <3> QED BY <2>3, <3>1, <3>2, <3>3, <3>4, OutsideKeeps
  <2>4. CASE Count(r) BY <2>3, <2>4 DEF Count
  <2>5. CASE Generate(r) \/ EndBatch(r)
    <3>1. Stay(r, "failed") \/ Stay(r, "reading") \/ Stay(r, "recording")
      BY <2>5 DEF Generate, EndBatch
    <3> QED BY <2>3, <2>5, <3>1 DEF Generate, EndBatch
  <2>12. CASE Accept(r)
    <3>1. PICK f : req' = [req EXCEPT ![r].todo = Append(@, f)] BY <2>12 DEF Accept
    <3> DEFINE a == Append(req[r].todo, f)
    <3> DEFINE q == [req[r] EXCEPT !.todo = a]
    <3> DEFINE W == V \cup {a}
    <3>2. q.at # "counted" BY <2>2, <2>12 DEF Accept
    <3>3. req' = [req EXCEPT ![r] = q] BY <2>1, <3>1 DEF Shape
    <3>4. UNCHANGED <<trials, counter, advisory>> BY <2>12 DEF Accept
    <3>5. q \in [at : Phase, todo : W, recorded : W, row : Nat, known : BOOLEAN]
      <4> HIDE DEF a
      <4> QED BY <2>2
    <3> HIDE DEF q, W
    <3> QED BY <3>2, <3>3, <3>4, <3>5, OutsideKeeps
  <2>6. CASE LockExperiment(r)
    <3> DEFINE k == Proposal(r) \in trials
    <3> DEFINE q == [req[r] EXCEPT !.at = "counted", !.row = counter, !.known = k]
    <3>1. q \in [at : Phase, todo : V, recorded : V, row : Nat, known : BOOLEAN]
      <4>1. k \in BOOLEAN /\ counter \in Nat BY DEF TrialsInv
      <4> HIDE DEF k
      <4> QED BY <2>2, <4>1
    <3>2. q.row = counter /\ q.known = k /\ q.todo = req[r].todo BY <2>2
    <3>3. req' = [req EXCEPT ![r] = q] BY <2>1, <2>6 DEF LockExperiment, ReadTrials, Shape
    <3>4. UNCHANGED <<trials, counter>> /\ advisory = Nobody /\ advisory' = r
      BY <2>6 DEF LockExperiment, ReadTrials
    <3>5. \A s \in Request : req[s].at # "counted"
      BY <3>4, BudgetAssumption, GenerationAssumption DEF TrialsInv, ReadIsFresh
    <3> HIDE DEF q
    <3>6. Shape(V)' BY <2>1, <3>1, <3>3 DEF Shape
    <3>7. req'[r] = q /\ \A s \in Request \ {r} : req'[s] = req[s] BY <2>1, <3>3 DEF Shape
    <3>8. q.known <=> Head(q.todo) \in trials BY <3>2 DEF Proposal
    <3>9. ReadIsFresh'
      <4> SUFFICES ASSUME NEW s \in Request, req'[s].at = "counted"
                   PROVE  /\ advisory' = s /\ req'[s].row = counter'
                          /\ req'[s].known <=> Head(req'[s].todo) \in trials'
        BY DEF ReadIsFresh, Proposal
      <4>1. s = r BY <3>5, <3>7
      <4> QED BY <3>2, <3>4, <3>7, <3>8, <4>1
    <3>10. TrialsAreCounted' BY <3>4 DEF TrialsInv, TrialsAreCounted
    <3> QED BY <3>4, <3>6, <3>9, <3>10 DEF TrialsInv
  <2>7. ASSUME NEW taken \in BOOLEAN, Settle(r, taken)
        PROVE  \E q, W : /\ q \in [at : Phase, todo : W, recorded : W, row : Nat, known : BOOLEAN]
                         /\ q.at # "counted"
                         /\ req' = [req EXCEPT ![r] = q]
    <3> DEFINE t == Tail(req[r].todo)
    <3> DEFINE c == IF taken THEN Append(req[r].recorded, Proposal(r)) ELSE req[r].recorded
    <3> DEFINE q == [req[r] EXCEPT !.at = "recording", !.todo = t, !.row = 0, !.known = FALSE,
                                   !.recorded = c]
    <3> DEFINE W == V \cup {t, c}
    <3>1. q \in [at : Phase, todo : W, recorded : W, row : Nat, known : BOOLEAN]
      <4> HIDE DEF t, c
      <4> QED BY <2>2
    <3>2. q.at # "counted"
      <4> HIDE DEF t, c
      <4> QED BY <2>2
    <3>3. req' = [req EXCEPT ![r] = q] BY <2>1, <2>7 DEF Settle, Shape
    <3> QED BY <3>1, <3>2, <3>3, ZenonT(60)
  <2>8. CASE CommitKnown(r) \/ Rollback(r)
    <3>1. UNCHANGED <<trials, counter>> /\ Unlock(r) BY <2>8 DEF CommitKnown, Rollback
    <3>2. Settle(r, TRUE) \/ Settle(r, FALSE) BY <2>8 DEF CommitKnown, Rollback
    <3>3. advisory' = advisory \/ (advisory = r /\ advisory' = Nobody) BY <3>1 DEF Unlock
    <3> QED BY <2>7, <3>1, <3>2, <3>3, OutsideKeeps
  <2>9. CASE CommitTrial(r)
    <3>1. /\ req[r].at = "counted" /\ ~ req[r].known /\ req[r].row < TrialLimit[r]
          /\ trials' = trials \cup {Proposal(r)} /\ counter' = counter + 1
      BY <2>2, <2>9, GenerationAssumption DEF CommitTrial, OverLimit
    <3>2. advisory = r /\ counter < TrialLimit[r] /\ Proposal(r) \notin trials
      BY <3>1 DEF TrialsInv, ReadIsFresh
    <3>3. \A s \in Request \ {r} : req[s].at # "counted" BY <3>2 DEF TrialsInv, ReadIsFresh
    <3>4. PICK q, W : /\ q \in [at : Phase, todo : W, recorded : W, row : Nat, known : BOOLEAN]
                      /\ q.at # "counted"
                      /\ req' = [req EXCEPT ![r] = q]
      BY <2>7, <2>9 DEF CommitTrial
    <3>5. req'[r] = q /\ \A s \in Request \ {r} : req'[s] = req[s] BY <2>1, <3>4 DEF Shape
    <3>6. ReadIsFresh' BY <3>3, <3>4, <3>5 DEF ReadIsFresh
    <3>7. Shape(V \cup W)'
      <4>1. q \in [at : Phase, todo : V \cup W, recorded : V \cup W, row : Nat, known : BOOLEAN]
        BY <3>4
      <4>2. \A s \in Request : req[s] \in
              [at : Phase, todo : V \cup W, recorded : V \cup W, row : Nat, known : BOOLEAN]
        BY <2>1 DEF Shape
      <4> QED BY <2>1, <3>4, <4>1, <4>2 DEF Shape
    <3>8. IsFiniteSet(trials') /\ Cardinality(trials') = Cardinality(trials) + 1
      BY <3>1, <3>2, FS_AddElement DEF TrialsInv
    <3>9. TrialsAreCounted'
      <4>1. counter' = Cardinality(trials') BY <3>1, <3>8 DEF TrialsInv, TrialsAreCounted
      <4>2. ASSUME NEW n \in 1 .. counter' PROVE \E s \in Request : n <= TrialLimit[s]
        <5>1. CASE n \in 1 .. counter BY <5>1 DEF TrialsInv, TrialsAreCounted
        <5>2. CASE n = counter + 1 BY <3>2, <5>2, GenerationAssumption DEF TrialsInv
        <5> QED BY <3>1, <5>1, <5>2 DEF TrialsInv
      <4> QED BY <4>1, <4>2 DEF TrialsAreCounted
    <3> QED BY <3>1, <3>2, <3>6, <3>7, <3>8, <3>9 DEF TrialsInv, CountsOne
  <2>10. CASE Reply(r) BY <2>3, <2>10 DEF Reply
  <2>11. CASE Die(r) BY <2>3, <2>11 DEF Die
  <2> QED
    BY <1>2, <2>4, <2>5, <2>6, <2>8, <2>9, <2>10, <2>11, <2>12 DEF GenerationStep
<1> QED BY <1>1, <1>2 DEF TrialsMove

LEMMA LedgersStep == LedgersInv /\ [Next]_vars => LedgersInv'
BY MovesAreFew, BudgetStepHolds, TrialsStepHolds DEF LedgersInv

(* The counter of an experiment is the number of its formulas and passes   *)
(* no limit that was not somebody's (PostgresTrialLedger.record), for any  *)
(* requests, races and deaths.                                             *)
THEOREM TrialsAreAlwaysCounted == Spec => []TrialsAreCounted
<1>1. LedgersInv => TrialsAreCounted BY DEF LedgersInv, TrialsInv
<1> QED BY <1>1, LedgersInit, LedgersStep, PTL DEF Spec

-----------------------------------------------------------------------------
LEMMA GreatestIsLimit ==
    Greatest \in Nat /\ \A r \in Request : TrialLimit[r] <= Greatest
<1> DEFINE L == {TrialLimit[r] : r \in Request}
<1>1. \E n \in L : \A r \in Request : TrialLimit[r] <= n BY LimitsAssumption
<1>2. Greatest \in L /\ \A r \in Request : TrialLimit[r] <= Greatest BY <1>1 DEF Greatest
<1> QED BY <1>2, GenerationAssumption

LEMMA AllowanceInit == Init => Allowances!Init
<1> SUFFICES ASSUME Init PROVE Allowances!Init OBVIOUS
<1>1. LedgersInv BY LedgersInit
<1>2. counter = 0 BY DEF Init, GenerationInit
<1>3. Granted \in [0 .. LastDay -> Nat]
  BY <1>1, BudgetAssumption DEF Granted, LedgersInv, BudgetInv, TrialsInv, Day
<1>4. \A a \in 0 .. LastDay : Granted[a] <= Caps[a]
  BY <1>1, <1>2, GreatestIsLimit, BudgetAssumption
  DEF Granted, Caps, LedgersInv, BudgetInv, Day
<1> QED BY <1>3, <1>4 DEF Allowances!Init, Granted, Caps

LEMMA OneLedgerAtATime == [Next]_vars => reserved' = reserved \/ counter' = counter
<1> SUFFICES ASSUME [Next]_vars PROVE reserved' = reserved \/ counter' = counter OBVIOUS
<1>1. CASE Workflow BY <1>1 DEF Workflow, generation
<1>2. CASE Ledger BY <1>2 DEF Ledger, generation
<1>3. CASE Generation
  <2>1. PICK r \in Request : GenerationStep(r) \/ Die(r) BY <1>3 DEF Generation
  <2>2. CASE Count(r) BY <2>2 DEF Count
  <2>3. CASE Generate(r) BY <2>3 DEF Generate
  <2>4. CASE Die(r) BY <2>4 DEF Die
  <2>5. CASE \/ LockExperiment(r) \/ CommitKnown(r) \/ Rollback(r) \/ CommitTrial(r)
             \/ Accept(r) \/ EndBatch(r) \/ Reply(r)
    BY <2>5 DEF LockExperiment, ReadTrials, CommitKnown, Rollback, CommitTrial, Accept,
                EndBatch, Reply, budget
  <2> QED BY <2>1, <2>2, <2>3, <2>4, <2>5 DEF GenerationStep
<1>4. CASE UNCHANGED vars BY <1>4 DEF vars, generation
<1> QED BY <1>1, <1>2, <1>3, <1>4 DEF Next

LEMMA AllowanceStep == LedgersInv /\ [Next]_vars => [Allowances!Next]_Granted
<1> SUFFICES ASSUME LedgersInv, [Next]_vars PROVE Allowances!Next \/ Granted' = Granted
  BY DEF Granted
<1> USE BudgetAssumption DEF Day
<1>1. counter \in Nat /\ reserved \in [Day -> Nat] BY DEF LedgersInv, TrialsInv, BudgetInv
<1>2. CASE reserved' = reserved /\ counter' = counter BY <1>2 DEF Granted
<1>3. CASE ReservesOne /\ counter' = counter
  <2>1. PICK d \in Day : /\ reserved[d] < DailyCap
                        /\ reserved' = [reserved EXCEPT ![d] = @ + 1]
    BY <1>3 DEF ReservesOne
  <2>2. d \in 0 .. LastDay /\ d # 0 OBVIOUS
  <2>3. Granted[d] < Caps[d] BY <2>1, <2>2 DEF Granted, Caps
  <2>4. Granted' = [Granted EXCEPT ![d] = @ + 1]
    <3>1. reserved' = [e \in Day |-> IF e = d THEN reserved[d] + 1 ELSE reserved[e]]
      BY <1>1, <2>1
    <3>2. \A a \in 0 .. LastDay :
            (IF a = 0 THEN counter' ELSE reserved'[a])
              = IF a = d THEN Granted[d] + 1 ELSE Granted[a]
      BY <1>3, <2>2, <3>1 DEF Granted
    <3>3. Granted' = [a \in 0 .. LastDay |-> IF a = d THEN Granted[d] + 1 ELSE Granted[a]]
      BY <3>2 DEF Granted
    <3> QED BY <2>2, <3>3 DEF Granted
  <2> QED BY <2>2, <2>3, <2>4 DEF Allowances!Next, Allowances!Grant, Granted, Caps
<1>4. CASE CountsOne /\ reserved' = reserved
  <2>1. counter < Greatest
    BY <1>1, <1>4, GreatestIsLimit, GenerationAssumption DEF CountsOne
  <2>2. 0 \in 0 .. LastDay OBVIOUS
  <2>3. Granted[0] < Caps[0] BY <2>1, <2>2 DEF Granted, Caps
  <2>4. Granted' = [Granted EXCEPT ![0] = @ + 1] BY <1>1, <1>4, <2>2 DEF Granted, CountsOne
  <2> QED BY <2>2, <2>3, <2>4 DEF Allowances!Next, Allowances!Grant, Granted, Caps
<1> QED
  BY <1>2, <1>3, <1>4, OneLedgerAtATime, MovesAreFew, BudgetStepHolds, TrialsStepHolds
  DEF LedgersInv

(* The reservations and the trials each implement an allowance: no step of *)
(* an agent, a request, midnight or a death grants more than one or passes *)
(* a limit (LLMBudget.reserve, PostgresTrialLedger.record).                *)
THEOREM LedgersAreAllowances == Spec => AllowanceSpec
<1>1. Init => Allowances!Init BY AllowanceInit
<1>2. LedgersInv /\ [Next]_vars => [Allowances!Next]_Granted BY AllowanceStep
<1> QED
  BY <1>1, <1>2, LedgersInit, LedgersStep, PTL DEF Spec, AllowanceSpec, Allowances!Spec
-----------------------------------------------------------------------------
(***************************************************************************)
(* What a client is shown.                                                 *)
(***************************************************************************)
(* What is recorded and what is still to be are all different, together no *)
(* more than the agent's limit; what is recorded is in the ledger, and     *)
(* nothing is before the batch is whole.                                   *)
Distinct(s, t) ==
    /\ \A i, k \in DOMAIN s : s[i] = s[k] => i = k
    /\ \A i, k \in DOMAIN t : t[i] = t[k] => i = k
    /\ \A i \in DOMAIN s, k \in DOMAIN t : s[i] # t[k]
Batched(q, T) ==
    /\ q.todo \in Seq(Formula) /\ q.recorded \in Seq(Formula)
    /\ Distinct(q.recorded, q.todo) /\ Len(q.recorded) + Len(q.todo) <= MaxCandidates
    /\ \A i \in DOMAIN q.recorded : q.recorded[i] \in T
    /\ q.at \in {"new", "calling", "reading"} => q.recorded = <<>>
    /\ q.at = "counted" => q.todo # <<>>
Answering == \A r \in Request : Batched(req[r], trials)

LEMMA AnsweringInit == Init => Answering
<1> SUFFICES ASSUME Init, NEW r \in Request PROVE Batched(Fresh, {})
  BY DEF Answering, Init, GenerationInit
<1>1. <<>> \in Seq(Formula) /\ Len(<<>>) = 0 /\ DOMAIN <<>> = {} OBVIOUS
<1> QED BY <1>1, GenerationAssumption DEF Fresh, Batched, Distinct

LEMMA AppendDistinct ==
    ASSUME NEW t \in Seq(Formula), NEW f \in Formula, Distinct(<<>>, t),
           \A i \in DOMAIN t : t[i] # f
    PROVE  Append(t, f) \in Seq(Formula) /\ Distinct(<<>>, Append(t, f))
           /\ Len(Append(t, f)) = Len(t) + 1
  BY DEF Distinct

(* The head of one moves to the end of the other, or is dropped.           *)
LEMMA MoveDistinct ==
    ASSUME NEW s \in Seq(Formula), NEW t \in Seq(Formula), t # <<>>, Distinct(s, t)
    PROVE  /\ Tail(t) \in Seq(Formula) /\ Len(Tail(t)) = Len(t) - 1 /\ Head(t) \in Formula
           /\ Append(s, Head(t)) \in Seq(Formula) /\ Len(Append(s, Head(t))) = Len(s) + 1
           /\ Distinct(s, Tail(t)) /\ Distinct(Append(s, Head(t)), Tail(t))
<1>1. /\ Len(t) \in Nat \ {0} /\ Head(t) = t[1] /\ Head(t) \in Formula
      /\ Tail(t) \in Seq(Formula) /\ Len(Tail(t)) = Len(t) - 1
      /\ \A k \in DOMAIN Tail(t) : k + 1 \in DOMAIN t /\ Tail(t)[k] = t[k + 1] /\ k + 1 # 1
  OBVIOUS
<1>2. 1 \in DOMAIN t BY <1>1
<1>3. /\ Append(s, Head(t)) \in Seq(Formula) /\ Len(Append(s, Head(t))) = Len(s) + 1
      /\ \A i \in DOMAIN Append(s, Head(t)) :
           Append(s, Head(t))[i] = IF i \in DOMAIN s THEN s[i] ELSE t[1]
      /\ \A i \in DOMAIN Append(s, Head(t)) : i \in DOMAIN s \/ i = Len(s) + 1
  BY <1>1
<1>4. Distinct(s, Tail(t))
  <2>1. \A i, k \in DOMAIN Tail(t) : i + 1 = k + 1 => i = k OBVIOUS
  <2> QED BY <1>1, <2>1 DEF Distinct
<1> HIDE DEF Distinct
<1>5. Distinct(Append(s, Head(t)), Tail(t))
  <2> DEFINE a == Append(s, Head(t))
             b == Tail(t)
  <2>1. \A i, k \in DOMAIN a : a[i] = a[k] => i = k BY <1>1, <1>2, <1>3 DEF Distinct
  <2>2. \A i \in DOMAIN a, k \in DOMAIN b : a[i] # b[k]
    <3> SUFFICES ASSUME NEW i \in DOMAIN a, NEW k \in DOMAIN b PROVE a[i] # b[k]
      OBVIOUS
    <3>1. CASE i \in DOMAIN s BY <1>3, <1>4, <3>1 DEF Distinct
    <3>2. CASE i \notin DOMAIN s BY <1>1, <1>2, <1>3, <3>2, SMTT(30) DEF Distinct
    <3> QED BY <3>1, <3>2
  <2> QED BY <1>4, <2>1, <2>2 DEF Distinct
<1> QED BY <1>1, <1>3, <1>4, <1>5

(* One request changes, and the ledger only grows.                         *)
LEMMA AnsweringKeeps ==
    ASSUME TrialsInv, Answering, NEW r \in Request, NEW q, req' = [req EXCEPT ![r] = q],
           trials \subseteq trials', Batched(q, trials')
    PROVE  Answering'
<1>1. PICK V : Shape(V) BY DEF TrialsInv
<1>2. req'[r] = q /\ \A s \in Request \ {r} : req'[s] = req[s] BY <1>1 DEF Shape
<1> QED BY <1>2 DEF Answering, Batched

LEMMA AnsweringStepHolds == ASSUME TrialsInv, Answering, TrialsMove PROVE Answering'
<1>1. CASE UNCHANGED generation BY <1>1 DEF generation, Answering
<1>2. ASSUME NEW r \in Request, GenerationStep(r) \/ Die(r) PROVE Answering'
  <2> USE DEF Phase
  <2>1. PICK V : Shape(V) BY DEF TrialsInv
  <2>2. req[r] \in [at : Phase, todo : V, recorded : V, row : Nat, known : BOOLEAN]
    BY <2>1 DEF Shape
  <2>3. Batched(req[r], trials) BY DEF Answering
  <2>4. ASSUME NEW s \in Phase \ {"counted"}, Stay(r, s), UNCHANGED trials,
               s \in {"new", "calling", "reading"} => req[r].at \in {"new", "calling", "reading"}
        PROVE  Answering'
    <3> DEFINE q == [req[r] EXCEPT !.at = s]
    <3>1. q.at = s /\ q.todo = req[r].todo /\ q.recorded = req[r].recorded BY <2>2
    <3>2. req' = [req EXCEPT ![r] = q] BY <2>4 DEF Stay
    <3> HIDE DEF q
    <3>3. Batched(q, trials') BY <2>3, <2>4, <3>1 DEF Batched
    <3> QED BY <2>4, <3>2, <3>3, AnsweringKeeps
  <2>5. CASE Count(r) BY <2>4, <2>5 DEF Count
  <2>6. CASE Generate(r) \/ EndBatch(r)
    <3>1. Stay(r, "failed") \/ (Stay(r, "reading") /\ req[r].at = "calling") \/ Stay(r, "recording")
      BY <2>6 DEF Generate, EndBatch
    <3> QED BY <2>4, <2>6, <3>1 DEF Generate, EndBatch
  <2>7. CASE Reply(r) \/ Die(r) BY <2>4, <2>7 DEF Reply, Die
  <2>8. CASE Accept(r)
    <3>1. PICK f \in Formula : ~ Duplicate(r, f) /\ req' = [req EXCEPT ![r].todo = Append(@, f)]
      BY <2>8 DEF Accept, Candidates
    <3>2. /\ req[r].at = "reading" /\ Len(req[r].todo) < MaxCandidates /\ UNCHANGED trials
          /\ req[r].recorded = <<>> /\ req[r].todo \in Seq(Formula)
          /\ Distinct(<<>>, req[r].todo)
      BY <2>3, <2>8 DEF Accept, Batched
    <3> DEFINE a == Append(req[r].todo, f)
    <3>3. /\ a \in Seq(Formula) /\ Distinct(<<>>, a) /\ Len(a) = Len(req[r].todo) + 1
      BY <3>1, <3>2, AppendDistinct DEF Duplicate
    <3> DEFINE q == [req[r] EXCEPT !.todo = a]
    <3>4. req' = [req EXCEPT ![r] = q] BY <2>1, <3>1 DEF Shape
    <3> HIDE DEF a
    <3>5. q.at = "reading" /\ q.todo = a /\ q.recorded = <<>> BY <2>2, <3>2
    <3> HIDE DEF q
    <3>6. Len(<<>>) = 0 /\ <<>> \in Seq(Formula) /\ DOMAIN <<>> = {} OBVIOUS
    <3>7. Len(a) \in Nat /\ Len(a) <= MaxCandidates
      BY <3>2, <3>3, GenerationAssumption
    <3>8. Batched(q, trials') BY <3>3, <3>5, <3>6, <3>7 DEF Batched
    <3> QED BY <3>2, <3>4, <3>8, AnsweringKeeps
  <2>9. CASE LockExperiment(r)
    <3> DEFINE k == Proposal(r) \in trials
    <3> DEFINE q == [req[r] EXCEPT !.at = "counted", !.row = counter, !.known = k]
    <3>1. req' = [req EXCEPT ![r] = q] BY <2>1, <2>9 DEF LockExperiment, ReadTrials, Shape
    <3>2. UNCHANGED trials /\ req[r].todo # <<>> BY <2>9 DEF LockExperiment, ReadTrials
    <3>3. q.at = "counted" /\ q.todo = req[r].todo /\ q.recorded = req[r].recorded
      <4> HIDE DEF k
      <4> QED BY <2>2
    <3> HIDE DEF q
    <3>4. Batched(q, trials') BY <2>3, <3>2, <3>3 DEF Batched
    <3> QED BY <3>1, <3>2, <3>4, AnsweringKeeps
  <2>10. ASSUME NEW taken \in BOOLEAN, Settle(r, taken), trials \subseteq trials',
                req[r].at = "counted", taken => Proposal(r) \in trials'
         PROVE  Answering'
    <3> DEFINE t == Tail(req[r].todo)
               c == IF taken THEN Append(req[r].recorded, Proposal(r)) ELSE req[r].recorded
               q == [req[r] EXCEPT !.at = "recording", !.todo = t, !.row = 0, !.known = FALSE,
                                   !.recorded = c]
    <3>1. req' = [req EXCEPT ![r] = q] BY <2>1, <2>10 DEF Settle, Shape
    <3>2. q.at = "recording" /\ q.todo = t /\ q.recorded = c
      <4> HIDE DEF t, c
      <4> QED BY <2>2
    <3>3. /\ req[r].todo \in Seq(Formula) /\ req[r].recorded \in Seq(Formula)
          /\ req[r].todo # <<>> /\ Distinct(req[r].recorded, req[r].todo)
          /\ Len(req[r].recorded) + Len(req[r].todo) <= MaxCandidates
          /\ \A i \in DOMAIN req[r].recorded : req[r].recorded[i] \in trials
      BY <2>3, <2>10 DEF Batched
    <3>4. /\ t \in Seq(Formula) /\ c \in Seq(Formula) /\ Distinct(c, t)
          /\ Len(c) + Len(t) <= MaxCandidates
      <4> DEFINE u == req[r].todo
                 v == req[r].recorded
                 w == Append(v, Head(u))
      <4>1. /\ t = Tail(u) /\ c = IF taken THEN w ELSE v
            /\ Len(v) \in Nat /\ Len(u) \in Nat /\ MaxCandidates \in Nat
        BY <3>3, GenerationAssumption DEF Proposal
      <4>2. /\ Tail(u) \in Seq(Formula) /\ Len(Tail(u)) = Len(u) - 1
            /\ w \in Seq(Formula) /\ Len(w) = Len(v) + 1
            /\ Distinct(v, Tail(u)) /\ Distinct(w, Tail(u))
        BY <3>3, MoveDistinct
      <4>3. v \in Seq(Formula) /\ Len(v) + Len(u) <= MaxCandidates BY <3>3
      <4> HIDE DEF t, c, u, v, w
      <4>4. CASE c = w BY <4>1, <4>2, <4>3, <4>4
      <4>5. CASE c = v BY <4>1, <4>2, <4>3, <4>5
      <4> QED BY <4>1, <4>4, <4>5
    <3>5. \A i \in DOMAIN c : c[i] \in trials'
      <4>1. Proposal(r) \in Formula BY <3>3, MoveDistinct DEF Proposal
      <4> QED BY <2>10, <3>3, <4>1
    <3> HIDE DEF q, t, c
    <3>6. Batched(q, trials') BY <3>2, <3>4, <3>5 DEF Batched
    <3> QED BY <2>10, <3>1, <3>6, AnsweringKeeps
  <2>11. CASE CommitKnown(r)
    <3>1. req[r].at = "counted" /\ req[r].known /\ Settle(r, TRUE) /\ UNCHANGED trials
      BY <2>11 DEF CommitKnown
    <3>2. Proposal(r) \in trials BY <3>1 DEF TrialsInv, ReadIsFresh
    <3> QED BY <2>10, <3>1, <3>2
  <2>12. CASE Rollback(r) BY <2>10, <2>12 DEF Rollback
  <2>13. CASE CommitTrial(r) BY <2>10, <2>13 DEF CommitTrial
  <2> QED
    BY <1>2, <2>5, <2>6, <2>7, <2>8, <2>9, <2>11, <2>12, <2>13 DEF GenerationStep
<1> QED BY <1>1, <1>2 DEF TrialsMove

(* A client is shown only candidates that are in the ledger, each once and *)
(* no more than the agent's limit, for any requests, answers and deaths    *)
(* (AlphaGeneratorAgent.generate, AlphaGeneratorService.generate).         *)
THEOREM AnswersAreRecorded == Spec => []AnsweredIsRecorded
<1>1. Answering => AnsweredIsRecorded
  <2> SUFFICES ASSUME Answering, NEW r \in Request, NEW s, s = req[r].recorded
               PROVE  /\ \A i \in DOMAIN s : s[i] \in trials
                      /\ \A i, k \in DOMAIN s : s[i] = s[k] => i = k
                      /\ Len(s) <= MaxCandidates
    BY DEF AnsweredIsRecorded
  <2>1. Batched(req[r], trials) BY DEF Answering
  <2>2. Len(s) \in Nat /\ Len(req[r].todo) \in Nat BY <2>1 DEF Batched
  <2>3. Len(s) <= MaxCandidates
    <3>1. Len(s) + Len(req[r].todo) <= MaxCandidates BY <2>1 DEF Batched
    <3>2. \A a, b, m \in Nat : a + b <= m => a <= m OBVIOUS
    <3>3. MaxCandidates \in Nat BY GenerationAssumption
    <3> QED BY <2>2, <3>1, <3>2, <3>3
  <2>4. \A i, k \in DOMAIN s : s[i] = s[k] => i = k BY <2>1 DEF Batched, Distinct
  <2> QED BY <2>1, <2>3, <2>4 DEF Batched
<1>2. LedgersInv /\ Answering /\ [Next]_vars => Answering'
  BY MovesAreFew, AnsweringStepHolds DEF LedgersInv
<1> QED BY <1>1, <1>2, LedgersInit, LedgersStep, AnsweringInit, PTL DEF Spec
================================================================================
