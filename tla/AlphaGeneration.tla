---------------------------- MODULE AlphaGeneration ----------------------------
(***************************************************************************)
(* agents/alpha_generator.py behind POST /alpha-candidates: requests that  *)
(* ask a model for formulas and enter them in the trial ledger of their    *)
(* experiment, PostgresTrialLedger.record, in a transaction each.          *)
(*                                                                         *)
(* One experiment.  Every request brings its own trial_limit.  A formula   *)
(* is its canonical form; which proposals parse and type is the model's    *)
(* choice, the duplicates and the bounds of a batch are not.               *)
(***************************************************************************)
EXTENDS LLMBudget, Sequences, FiniteSets

CONSTANTS
    Request,        \* requests, all of them Callers
    Formula,        \* canonical formulas
    TrialLimit,     \* trial_limit of each request
    MaxCandidates   \* max_candidates of the agent

ASSUME GenerationAssumption ==
    /\ Request \subseteq Caller
    /\ TrialLimit \in [Request -> Nat \ {0}]
    /\ MaxCandidates \in Nat \ {0}

VARIABLES
    trials,     \* experiment_trials: the formulas of the experiment
    counter,    \* experiment_trial_counters
    advisory,   \* who holds pg_advisory_xact_lock of the experiment
    req         \* the requests

generation == <<trials, counter, advisory, req>>

Fresh == [at |-> "new", todo |-> <<>>, recorded |-> <<>>, row |-> 0, known |-> FALSE]

-----------------------------------------------------------------------------
Stay(r, s) == req' = [req EXCEPT ![r].at = s]

\* AlphaGeneratorService.generate: a full experiment is refused before the model is asked.
Count(r) ==
    /\ req[r].at = "new"
    /\ IF counter >= TrialLimit[r]
       THEN Stay(r, "refused") /\ UNCHANGED <<trials, counter, advisory, budget>>
       ELSE Stay(r, "calling") /\ CompleteJson(r) /\ UNCHANGED <<trials, counter, advisory>>

Generate(r) ==
    /\ req[r].at = "calling" /\ Ended(r)
    /\ Forget(r)
    /\ Stay(r, IF call[r].at = "failed" THEN "failed" ELSE "reading")
    /\ UNCHANGED <<trials, counter, advisory>>

\* _candidate, of a value of the answer: any formula, or it raises.
Candidates == Formula

\* AlphaGeneratorAgent.generate looks at the values of the answer, at most
\* min(100, 2 * limit) of them, one after the other.  What is no candidate, and
\* what is one already, is left out; the loop ends with the values or at the limit.
Duplicate(r, f) == \E i \in DOMAIN req[r].todo : req[r].todo[i] = f
MutAccept(r) ==
    /\ req[r].at = "reading" /\ Len(req[r].todo) < MaxCandidates
    /\ \E f \in Candidates : req' = [req EXCEPT ![r].todo = Append(@, f)]
    /\ UNCHANGED <<trials, counter, advisory, budget>>
Accept(r) ==
    /\ req[r].at = "reading" /\ Len(req[r].todo) < MaxCandidates
    /\ \E f \in Candidates :
          /\ ~ Duplicate(r, f)
          /\ req' = [req EXCEPT ![r].todo = Append(@, f)]
    /\ UNCHANGED <<trials, counter, advisory, budget>>

EndBatch(r) ==
    /\ req[r].at = "reading"
    /\ Stay(r, "recording")
    /\ UNCHANGED <<trials, counter, advisory, budget>>

-----------------------------------------------------------------------------
(***************************************************************************)
(* PostgresTrialLedger.record, one transaction.                            *)
(***************************************************************************)
Proposal(r) == Head(req[r].todo)

\* The counter's row, read FOR UPDATE, and whether the formula is there.
ReadTrials(r) ==
    /\ req[r].at = "recording" /\ req[r].todo # <<>>
    /\ advisory' = r
    /\ req' = [req EXCEPT ![r].at = "counted", ![r].row = counter,
                       ![r].known = Proposal(r) \in trials]
    /\ UNCHANGED <<trials, counter, budget>>

\* pg_advisory_xact_lock: without it two first trials would find no row to lock.
MutLockExperiment(r) == ReadTrials(r)
LockExperiment(r) == advisory = Nobody /\ ReadTrials(r)

\* How the transaction ends for the request: the formula is accepted or rejected.
Settle(r, taken) ==
    req' = [req EXCEPT ![r].at = "recording", ![r].todo = Tail(@), ![r].row = 0, ![r].known = FALSE,
                       ![r].recorded = IF taken THEN Append(@, Proposal(r)) ELSE @]
MutUnlock(r) == UNCHANGED advisory
Unlock(r) == advisory' = IF advisory = r THEN Nobody ELSE advisory

CommitKnown(r) ==
    /\ req[r].at = "counted" /\ req[r].known
    /\ Settle(r, TRUE) /\ Unlock(r)
    /\ UNCHANGED <<trials, counter, budget>>

OverLimit(r) == req[r].row >= TrialLimit[r]

Rollback(r) ==
    /\ req[r].at = "counted" /\ ~ req[r].known /\ OverLimit(r)
    /\ Settle(r, FALSE) /\ Unlock(r)
    /\ UNCHANGED <<trials, counter, budget>>

CommitTrial(r) ==
    /\ req[r].at = "counted" /\ ~ req[r].known /\ ~ OverLimit(r)
    /\ trials' = trials \cup {Proposal(r)}
    /\ counter' = counter + 1
    /\ Settle(r, TRUE) /\ Unlock(r)
    /\ UNCHANGED budget

Reply(r) ==
    /\ req[r].at = "recording" /\ req[r].todo = <<>>
    /\ Stay(r, "answered")
    /\ UNCHANGED <<trials, counter, advisory, budget>>

\* The API process dies with the request: its transaction is rolled back.
Die(r) ==
    /\ req[r].at \in {"calling", "reading", "recording", "counted"}
    /\ Stay(r, "lost")
    /\ Unlock(r) /\ Abandon(r)
    /\ UNCHANGED <<trials, counter>>

-----------------------------------------------------------------------------
GenerationInit ==
    /\ trials = {} /\ counter = 0
    /\ advisory = Nobody
    /\ req = [r \in Request |-> Fresh]

GenerationStep(r) ==
    \/ Count(r) \/ Generate(r) \/ Accept(r) \/ EndBatch(r)
    \/ LockExperiment(r) \/ CommitKnown(r) \/ Rollback(r) \/ CommitTrial(r)
    \/ Reply(r)

-----------------------------------------------------------------------------
(* The counter, kept in a table of its own, is the number of the           *)
(* experiment's formulas, whatever died between the two statements, and it *)
(* never passes the greatest limit of a request that added one.            *)
TrialsAreCounted ==
    /\ counter = Cardinality(trials)
    /\ \A n \in 1 .. counter : \E r \in Request : n <= TrialLimit[r]

(* A client is shown only candidates that are in the ledger, each once,    *)
(* and no more of them than the agent's max_candidates.                    *)
AnsweredIsRecorded ==
    \A r \in Request :
        LET s == req[r].recorded IN
        /\ \A i \in DOMAIN s : s[i] \in trials
        /\ \A i, k \in DOMAIN s : s[i] = s[k] => i = k
        /\ Len(s) <= MaxCandidates
=============================================================================
