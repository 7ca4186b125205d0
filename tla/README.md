# Agentic Alpha Studio: specifications and proofs

TLA+ specifications of the parts of this repository that keep state, run
concurrently or survive failures, the TLC runs that check them on small
instances, and theorems about them that TLAPS proves for every instance. Paths
without a prefix are below `src/src/alpha_workbench/`; lines are those of the
commit this directory stands beside. Every definition that models code is listed
in `PROJECT.json` under `map` with the lines it stands for.

Run anything from this directory: `tlc -config MCJobRuntime.cfg MCJobRuntime`,
`tlapm JobRuntimeProofs.tla`.

## 1. The system

Two Python processes share PostgreSQL and Redis (`docker-compose.yml`): the API
(`server/`, FastAPI, synchronous routes on a thread pool) and one worker
(`python -m alpha_workbench.jobs`). A command line (`cli.py`) runs the older
evidence-to-graph workflow on local files and DuckDB.

    browser ──POST──> API ──insert──> PostgreSQL jobs, job_events
                       │                    ^ status, events, snapshots
                       └──SETNX+LPUSH──> Redis alpha:jobs ──brpoplpush──> worker
                                                                           │
         domain plan ──lock──> workspace + universe <──bootstrap / refresh─┘
                                     │
            graph snapshots ──pin──> feature sets ──> strategies, trials

    CLI: sources -> evidence ledger -> extraction -> a2a bus -> adjudicator -> snapshot file

### Inventory

| Component | State it keeps | Operations | Hard behaviour | What makes it correct |
|---|---|---|---|---|
| **Job runtime** `jobs/` | tables `jobs`, `job_events`; Redis `alpha:jobs`, `:processing`, `:submitted:<id>`; the worker's memory | submit, resubmit, cancel, recover, take, run, report progress, acknowledge | crashes between any two commits, racing requests with one key, reads in one transaction and blind writes in the next, liveness | one job per key; a 202 means pushed; no job stranded; ended jobs stay ended; cancel wins; every dispatched job ends |
| **Temporal graph** `temporal_graph/` | bitemporal edge rows in whole snapshots per workspace | visible, validate, latest, replay | ties of knowledge time | a past view never changes |
| **Graph pipeline** `graph_pipeline/service.py` | the snapshot table | bootstrap, update (event, nightly), decay, retirement | long legal sequences, replays, clocks that stand still | history kept; eligibility earned; stale edges retired |
| **Edge policy** `graph_pipeline/policy.py` | none | assess_edge | thresholds, repeated sources | conflict reviewed; verdicts follow the evidence |
| **Graph refresh jobs** `graph_pipeline/jobs.py`, `server/graph_api.py` | composes the three above | POST, retry, worker attempt, crash | a rerun sees its own result; reordered times | success means published; failures explained |
| **Product store** `persistence/repositories.py` | workspace, universe and strategy rows; one connection per process | put, put_workspace_with_universe, next version | all API threads share one transaction | what was answered is stored; locks atomic; versions without gaps |
| **Domain plans** `server/domain_api.py`, `domain/planner.py` | plans in a dictionary of the API process | create, replace, lock | check of the plan and write of it by racing threads | one universe per plan; what is stored was shown |
| **Agent workflow** `a2a/bus.py`, `agents/extraction_graph_workflow.py`, `graph_registry.py` | durable bus messages, write-once snapshot files | enqueue, extract, review, publish, acknowledge | crash between acknowledging and publishing | acknowledged reviews are published; snapshots immutable |
| **Feature refresh** `features/`, `server/feature_api.py` | definitions, sets, observations, manifests, versioned bindings | POST, the handler's chain of commits, strategies that read bindings | a crash between any two commits; pins that move | a rerun completes its prefix; a ready binding has everything behind it |
| Alpha Studio routes `server/alpha_api.py` | strategies, candidates | generate, validate, save | a context read before a refresh replaces it | a saved strategy names bindings computed from its own snapshot |
| **Alpha generation, trial ledger** `agents/alpha_generator.py` | append-only trials and a counter per experiment | count, ask, record, reply | two first trials at once; a batch that ends half way | no trial uncounted; nothing shown that is not recorded |
| **LLM budget** `llm/budget.py`, `llm/models.py` | reservations per day (SQLite) | reserve, call | parallel callers, midnight, float amounts | no day above its cap |
| **Orchestrator** `agents/orchestrator.py`, `orchestrator_runtime.py` | run state, event ledger | route, act, retry, pause, resume | loops, budgets, answers of a model | every invocation ends; no gate is skipped |
| **Evidence intake** `evidence/` | observations, receipts (DuckDB) | collect, append, receipt, as-of read | INSERTs that commit one by one, reruns | receipts list only what is stored |
| **Graph adjudicator, registry** `agents/graph_adjudicator.py`, `graph_registry.py`, `graph_build.py` | write-once snapshot files | cluster, decide, apply, publish | any base, any past date, several decisions on one edge | no hindsight; retired is final |
| **Historical replay and panels** `historical/`, `historical_panel.py` | none | choose a snapshot by time | two clocks for one choice | both readers agree; no hindsight |
| **Scenario** `graph.py` | none | pass a shock along edges | pruning under a bound on hops | the strongest path is kept |
| **Research pipeline** `alpha/pipeline.py`, `backtest.py`, gatekeeper, portfolio | none | load, score, split, backtest, gate, paper | dates, cutoffs, availability | what is accepted was tested on unseen dates |
| Monitor, extraction, proposals, inputs, adapters, providers, vault, tools, candidate graphs, factor language, web, schema | none or files | text, numbers, network calls, rendering | | out of scope, see section 8 |

`PROJECT.json` lists all of them with their files and status, and under `hazards`
the places where this code can go wrong in a way a test would hardly reach.

## 2. Plan

Most important first: what a user loses when it breaks comes before what can be
computed again.

1. `JobRuntime` with `JobLifecycle` as its abstraction — done, proved.
2. `TemporalGraph`, `GraphPipeline`, `EdgePolicy`, and `GraphRefresh`, which
   composes the pipeline with the parts of the job runtime that order refreshes —
   done, proved; the jobs are proved to implement the pipeline.
3. `ProductStore` — done, proved.
4. `DomainPlan` — done, proved.
5. `AgentWorkflow` — done, proved.
6. `FeatureRefresh` — done, proved.
7. `Allowance`, which `LLMBudget` and `AlphaGeneration` implement, and `Orchestrator`;
   `AgentWork` composes them — done; the safety properties and the refinement are proved.
8. `EvidenceIntake` and `LivingGraph`, which extends it — done, proved.
9. `Scenario` and `Research`, with `EdgePolicy` in `Decisions` — done, proved.

What is left: a model of `agents/monitor.py` and of the type checker of the factor language.

A run stands for one question. Where a module only needs what another one promises
it takes it as a constant or a choice: `FeatureRefresh` does not extend
`GraphPipeline` but takes the set of snapshots, and `Research` takes any ledger of
bars that `EvidenceIntake` could hold.

## 3. Modules

An action is one committed transaction, one Redis command, one statement of a
process that can die before the next, or one step of a thread between two reads
or writes that another thread can see. Timestamps, payload text, scores and log
lines are left out wherever no property tells them apart.

Names that start with `Mut` are deliberately wrong forms of the definition after
them. No behaviour uses them: each stands for a plausible bug (a dropped guard, a
missing reset), and replacing the definition by it makes TLC report the property
listed beside it in `PROJECT.json`. They show that a property depends on the code
it is about.

### JobRuntime, JobLifecycle

`status`, `keyOf`, `bodyOf`, `cancel` are columns of `jobs`; `events` is
`job_events`; `queue`, `processing` and `marker` are the Redis keys (`processing`
as a count per job, for `lrem` takes any message of that job). `cpc`, `creq`,
`cjob` are API requests between two of their commits; `wpc`, `wjob`, `goal`,
`step`, `reclaimed`, `unlogged`, `orphans` are the worker's stack.

| Code | Actions |
|---|---|
| `repository.create_or_get`, `JobDispatcher.submit` | `Create`, `LogQueued`, `Resubmit`, `Dispatch`, `Abort` |
| `request_cancel` | `RequestCancel` |
| `JobWorker.recover`, `recover_incomplete` | `Start`, `Reclaim`, `RecoverIncomplete`, `LogRecovered`, `Requeue`, `Recovered` |
| `JobWorker.run_once`, `update_status` | `Take`, `Look`, `CheckStatus`, `WriteStatus`, `LogStatus`, `HandlerReturns`, `HandlerRaises`, `Acknowledge` |
| `JobContext.progress`, `update_progress` | `Report`, `LogProgress`, `CheckProgress`, `WriteProgress` |
| process death, `psycopg` errors | `Crash`, `DatabaseFault`, together at most `MaxFailure` |

`update_status` reads the row in one transaction and writes it in another
(`CheckStatus`, `WriteStatus`); nothing in SQL stops the write from overwriting a
terminal status, and the model does not stop it either. That it never does is
`TerminalIsFinal`, and it holds only because there is a single worker.

`JobLifecycle` is what a client may rely on: keys are bound once, a job begins,
may return to the queue, succeeds only after it began, is cancelled only on
request, and ends once. `JobRuntime` implements it with the identity on the
tables and replies (`LifecycleSpec`).

Events can be missing: a crash between a commit and its event loses the event for
good (an action of the model), and no property claims otherwise.

### TemporalGraph, GraphPipeline

`TemporalGraph` holds the contracts: `Visible`, `WellFormed` (`validate_graph`),
`Latest`, `Replay`. A row's confidence is kept as its *margin*: the number of
clock units for which decay leaves it at or above 0.20, the only threshold an old
confidence is compared with. One clock unit is the time in which that margin
drops by one. Exponential decay composes by adding times, so this is exact up to
the rounding of a stored confidence to six digits.

`GraphPipeline` is `bootstrap_graph` and `update_graph` as one step each: the
worker is the only caller, and a refused request changes nothing. `Assessed`,
`Decayed`, `Retired`, `Closed`, `Past` are the branches of `_replace_state`,
`_decay_state` and `_close_and_append`. A request carries a verdict per edge
instead of observations; what observations make of a verdict is `EdgePolicy`.

### GraphRefresh

EXTENDS `GraphPipeline` and adds the route (`Post`, `Insert`, `Push`, `Die`), the
worker around one attempt (`Take`, `Publish`, `NotPublished`,
`Succeed`, `Acknowledge`) and `CrashAndRecover`, the recovery of `JobRuntime` in
one step. It shows what two correct parts make of each other: the handler picks
its trigger from the repository at run time, so a rerun is not the same request.

Around the pipeline the handler may raise for reasons that have nothing to do with
snapshots: a workspace or universe that is missing, unlocked or another workspace's
(`graph_pipeline/jobs.py:46-57`), the evidence ledger or the model
(`graph_pipeline/inputs.py:80-118`), a query, a report of progress. `HandlerRaises`
fails the job there, before the pipeline or after it has published;
`HandlerCancelled` ends it by request. `why` keeps whose message a failed row
holds, so that `OutcomeIsExplained` can say of what the pipeline itself refused
(`Refuse`) why it did. The pipeline's checks of the universe against the one of
earlier snapshots (`service.py:91,96,143`) cannot fail here: a workspace that was
bootstrapped keeps its universe.

### ProductStore

The two connections (`conn`, `pending`) are the point: every API thread writes
into the same open transaction. `Select`, `Insert`, `Commit` are the statements of
`put` and `put_workspace_with_universe`, `Conflict`, `Violation`, `Raise`,
`CommitRaises` their exits. `Abort` and `Rollback` are what PostgreSQL and psycopg
do: an error aborts the transaction for everybody, COMMIT of an aborted
transaction rolls back without raising. `Restart` loses a process's open
transaction, `RestartPostgres` breaks both connections, which neither process
opens again. Since `created_at` is part of the digest, two requests never write
the same record (`New`), so a repeated POST is a conflict and not a no-op.

An INSERT is refused for a row under its key or for its value (`Storable`): a
`\u0000` or a NaN does not become `jsonb`, an identifier can be too long for the
index. `put` rolls back neither, so one such value leaves the API's connection in
error (`conn` is `"refused"`) with no overlap at all, and every later `put` fails
(`Raise`) until a lock rolls back or the process restarts.

What this design promises depends on whether requests overlap, so the module
remembers it: `shared` is true from the moment a request starts while another is
under way. `AnsweredIsStored`, `LockIsAtomic` and what `WritesFailForCause` says of
the API are stated for the histories in which it is false; `BootstrapIsDurable`,
`WorkspaceChain` and what `WritesFailForCause` says of the worker for all.

### DomainPlan

One `_PlanState`. `Read` is the snapshot a request takes of `state.plan` and the
status test on it; `Choose` and `Swap`, `Store` and `Mark` are the rest of
`replace_instrument` and `lock_plan`, split where another thread can come in
between. Initial states are all selections the planner could propose: with spare
candidates only if there are enough. The transaction inside `Store` is
`ProductStore`'s `LockPlan`. `raced` remembers whether two requests have ever
overlapped; only `OneLock` depends on it.

### AgentWorkflow

`build-graph-from-evidence`: messages by kind and attempt, statement by statement,
and snapshot files as author and whether all of the file was written. `Consume`
is a process that finds a pending message of an earlier one, as the durable inbox
allows. DuckDB admits one process at a time, so one program counter is enough. Its
specification is `BuildSpec`, for `LivingGraphProofs` extends this module and `LivingGraph`.

### FeatureRefresh

One workspace. `artifacts` is `feature_artifacts`, `bindings` the versioned
`workspace_feature_bindings`, `pin` the `graph_version_id` of its latest version;
`hand`, `stage`, `at`, `prior` are the stack of the handler, which commits
definitions, set, observations, manifest and bindings one by one (`PutDefinition`,
`PutFeatureSet`, `PutObservation`, `PutManifest`, `PutBinding`); where that is a loop over
the catalogue, `at` is its position. `draft` is `save_strategy` between its reads and its
write. `Fault` is a crash or a database error between any two commits. A record keeps what its
immutability check compares: its identity and the snapshot its cutoffs come from.
Nothing in the repository pins a snapshot to a locked workspace, so `Pin` stands
for whoever will.

### Allowance, LLMBudget, AlphaGeneration, Orchestrator, AgentWork

`Allowance` is an append-only ledger with a cap per account. Two ledgers of the code
implement it by different means, SQLite's `BEGIN IMMEDIATE` and PostgreSQL's
`pg_advisory_xact_lock`; `AgentWork` maps both, account 0 being the experiment and
the others the days.

`LLMBudget`: the day is read before the lock is taken, the sum and the insert happen
under it. A call costs one; as the code adds floats, the last call that fits may or
may not be refused (`SumDay`). `AlphaGeneration`: a request counts, asks, and records
each formula in a transaction of its own (`LockExperiment` to `CommitTrial` or
`Rollback`), so it may be over its limit in the middle of its batch. Of what the model
answers, the loop of the agent takes one candidate after the other that it has not yet
(`Accept`), up to its own maximum, and ends where it likes (`EndBatch`): what a bad
answer costs is a candidate passed over. `Orchestrator`:
`Follow` is `_TRANSITIONS`, `Recorded` is `record_action` with its stops in their
order, `HandlerStep` the five ways a handler can end. An event is told by its action and
by which of the texts was hashed, for the context of a workflow does not change.

### EvidenceIntake, LivingGraph

`EvidenceIntake` is a collection over its adapter calls: `Append1` and `Record` are
INSERTs that commit one by one, `Die` and `AppendRaises` fall between any two.
`LivingGraph` extends it by the snapshots. A consolidation reads the ledger as of a
date the caller names, starts from the snapshot the caller names, and goes through the
clusters in any order (`Decide`), with any decision `_decide_cluster` accepts or a hold,
until it writes the file (`PublishNew`) or raises. Of an edge's numbers the model keeps
the evidence that moved them (`because`), which is what hindsight is about; `base` is the
snapshot another was built from. Neither is in the files. `SelectAsOf` and
`SelectSnapshot` are the two readers; either may meet several newest snapshots.

### EdgePolicy, Scenario, Research, Decisions

Procedures that keep no state between calls, so that their behaviours are their runs
on every input within the bounds. They do not interact; `Decisions` runs one of the
three in each behaviour.

`EdgePolicy.Assess` is `assess_edge` in exact arithmetic: source qualities are
multiples of 1/40, ages are whole half-lives, and the thresholds 0.50 and 30 % are
compared as integer products, so there is no rounding to hide a boundary. Its only
action gathers one more observation.

`Scenario` is the two loops of `SupplyChainGraph.scenario`: `Pop` takes an entity from
the queue, and `Follow` is one turn of the inner loop, which follows its links in the
order of the file. An edge's factor is given by its loss, the negative logarithm, so a
path's loss is a sum; an edge of weight 0 has none and is left out.

`Research` is `run_offline_pipeline` and `run_graph_pipeline` from the input to the
paper targets, with every refusal in its order. Prices and scores are data: a signal
keeps its date and when it was known, a report how many periods it has and which of
the gate's thresholds its numbers pass. `Tick` tells times of day apart, which is
what the two pipelines differ in.

## 4. Runs

Every passing run explores its whole state space. "Bounds" says why the
interesting cases happen within them.

| Run | Properties | Question, and why the bounds suffice |
|---|---|---|
| `jobs_race` | `AcceptedIsDispatched LifecycleSpec` | Do racing submissions stay one job, and does the runtime implement what a client may rely on? Two clients, two jobs and two keys: both races on one key and on one identifier; one body has no handler; one crash or database error anywhere. Handlers do not report here; they do in `jobs_crashes` and in the proof of `LifecycleSpec` |
| `jobs_crashes` | `CrashesStrandNoJob EventsMatchStatus CancelWins DispatchedJobsEnd` | What survives repeated failure? One job and four failures: each phase of recovery can be hit and hit again; two reports per handler call; fairness of section 5 |
| `graph_history` | `HistoryKept EligibleIsEarned NightlyRetires UpdatesSucceedUntilRetirement` | Is a graph right after any sequence of bootstrap, event and nightly runs? Three snapshots are a revision of a revision; four clock values with retirement after three: an edge can be supported, decay twice and retire; as-of times trail, go back and stand still; knowledge times tie |
| `refresh_race` | `OutcomeIsExplained` | What can happen to a refresh? Three refreshes, three request times, a crash, an error or a cancellation at any step of the worker |
| `store_shared` | `AnsweredIsStored LockIsAtomic BootstrapIsDurable WorkspaceChain WritesFailForCause` | What do requests that share a transaction still promise? Two API threads and the worker, two restarts of any of the three, three versions, three contents and one that PostgreSQL refuses |
| `plan_races` | `StoredWasShown LockedIsStored OneLock` | Can a race store a universe nobody saw? Two threads, two of four instruments (chains of two replacements), two locks, restarts |
| `workflow_crash` | `ReviewedIsPublished OnlyCrashesLoseCommands` | What does a durable bus keep? Three attempts on two paths (so some share one), two crashes |
| `features` | `ReadyIsBacked StrategyIsGrounded OnlyPinsFail SuccessBindsAll` | Does a rerun complete what a crash left? Three refreshes are one, its rerun after another has come between, and a return to the older snapshot; one feature needs the graph and one does not; three snapshots: good, without an instrument, of another workspace; two failures |
| `agents` | `BudgetsHold GateIsPassed TrialsAreCounted AnsweredIsRecorded AllowanceSpec CallersEnd` | Do budgets, gates and ledgers hold under every answer of a model? Two requests with limits one and two race for three formulas; a workflow of six steps can complete, loop, retry and pause, and is resumed once; two days; a daily cap below what both would spend |
| `living_graph` | `IntakeIsAccounted NoHindsight ReadersAgree RetiredIsFinal` | Can a snapshot know too much? Two collections with a fault over two adapter calls; three observations, one of which is available later; clusters that share an entity; an edge that exists and one that does not; four files and collections together, so that a snapshot can follow the one that retired an edge |
| `decisions` | `ConflictIsReviewed VerdictFollowsEvidence StrongestPaths AcceptedIsUnseen GraphRunsStarve` | Do the procedures decide as they say? Five observations: 1/4, 1/3, 2/5 are around the 30 % share; three hosts; strong and weak tiers, fresh and one half-life old, are around 0.50. Eight links with a loss of 0 or 1, or absent: the strong path is longer than the weak one, with and without room for a further hop. Price files of five days with gaps and a gate of two periods: a holdout of two, and trains on either side of the limit; ledgers of four days, each bar collected at any half day after its own |

Bounds per run: those in the comments at the head of its `.cfg`, and the constants marked
`bound:` in the modules. Symmetry is used where the values are interchangeable and never
in a run with a liveness property.

`RetireAge` stands for four half-lives, `MinPeriods` for the gate's 20.

`CHECK_DEADLOCK FALSE` appears where the system may really stop: no request left to
make within the bounds of the clock, the contents or the observations, or a procedure
has ended. `JobRuntime`
and `DomainPlan` are checked for deadlock.

### What the code does and does not do

The violation run checks one sentence that the repository says of itself. TLC finds a
behaviour against it; `PROJECT.json` quotes the sentence.

| Run | Behaviour |
|---|---|
| `store_reply` | a 201 for a row that another request's error has rolled back |

Met while modelling, and not the subject of a run. Where the
model has a condition or an action that stands for it, it is named.

*Jobs and store*

- A database error in `run_once` before the row is `running` removes the message in
  the `finally` clause (`jobs/worker.py:110`). The row stays queued, recovery does
  not see it and the marker makes resubmission a no-op: the condition `faults = 0` of
  `CrashesStrandNoJob`. `infra/README.md:5-7` speaks of a recoverable processing list.
- A crash inside `recover()` forgets `reclaimed_ids`, and the next recovery pushes a
  second message for the same job. The second run finds the row ended and does nothing.
- `refresh_graph` answers a known key with the stored receipt and does not call
  `submit` (`server/graph_api.py:82`), so a refresh whose first POST died between
  insert and push is never pushed (`Die` of `GraphRefresh`). `jobs/dispatch.py:121-123`
  describes the repair that other jobs get.
- Requests that overlap on the API's connection can lose an answered row, commit
  half a lock, or leave the connection aborted after one unique violation, so that
  every later `put` is refused until something rolls back: the conditions
  `~ shared`. A value that `jsonb` refuses does the last without any overlap
  (`persistence/repositories.py:229`): the third cause of `WritesFailForCause`. The
  probes open connections of their own, so they report a process ready whose own
  connection is aborted or broken.
- A replacement in flight writes a locked plan back as ready, and two racing locks
  of one plan store two universes: the condition `~ raced`.
- With `appendfsync everysec` Redis may lose a second of pushes when it dies. The
  models take Redis as durable; a lost push strands its job.

*Temporal graph*

- `_active_states` leaves out the open row of a retired edge
  (`graph_pipeline/service.py:513`), so later evidence on it becomes a row that overlaps
  it and the whole update raises: the condition of `UpdatesSucceedUntilRetirement`.
  `docs/research/graph-pipeline-policy.md:32-33` and `docs/decisions/0003-agent-managed-living-graph.md:11` (ADR 0003) expect a new state.
- Retirement counts as support in `assess_edge`: three hosts that ask for retirement
  and one that contradicts make an edge *eligible*. No document says what mixed
  evidence should mean, so `VerdictFollowsEvidence` speaks of contradictions only for
  edges nobody asks to retire.
- A host that repeats itself adds to the observations but not to the hosts, so it
  dilutes the 30 % share of the contradictions (`graph_pipeline/policy.py:64`).
- A published request replayed after a later one raises instead of returning its
  snapshot, for `_run` compares the clocks (`graph_pipeline/service.py:97`) before it
  looks the fingerprint up. So a refresh that had published before the worker died
  fails when it is run again (`graph_pipeline/jobs.py:68`); `OutcomeIsExplained` names
  the case.
- No operation sets `graph_version_id` of a locked workspace: `lock_plan` leaves it
  out, a graph refresh does not pin, bootstrap copies it. Every feature refresh of
  such a workspace is answered 409 (`server/feature_api.py:43`).

*Agents*

- `process_extraction` acknowledges its command before it publishes the review, so a
  crash in between loses the validated proposals; `OnlyCrashesLoseCommands` says
  that nothing else does.
- Requests that race at one trial below the limit all ask the model; only recording
  stops at the limit. `docs/handovers/2026-10-03-wave-4.md:33` says that trial budgets
  stop before another model request.
- A reservation that reads the day before midnight and gets the lock after it is
  charged to the day before.
- The orchestrator's event ledger keys rows by action and text, so it drops retries, and
  the pause for a missing handler is not entered at all. A run that paused because
  a handler returned something unfinished is put to the model once more. A resumed run
  whose last event is a pause can only pause again. `max_retries_per_action` is
  never read; the loop detector ends retries.
- The reason of an action has at most 500 characters: a handler's or a model's longer
  error raises out of the node and the run is lost with the invocation (`RouteRaises`,
  `HandlerRaisesAtLength`), where `orchestrator.py:178` says that it must stop safely.
- Only tests call `run_bounded_workflow` and `NightlyGraphConsolidator`; nothing calls
  `run_graph_pipeline` but the command line.

*Evidence and snapshots*

- Two failures alike of one run share a receipt row, although the report lists both. The
  receipt of a rerun lists observations that `observations_for_run` does not return,
  for they keep the run that first emitted them.
- A consolidation checks neither that its base is the newest snapshot nor that its date
  is not before the base's: a stale base loses decisions, and dating back scores
  edges by evidence of a later day: the conditions `InOrder` and `Straight`.
- A retired edge can never be approved again, and retiring it again moves its end
  forward. An edge is still effective on the day it ends (`is_effective`).
- The entities of a decision are checked against the registry, not against the
  cluster, so two clusters of one night may move one edge, and the same evidence moves
  it every night: each move is at most 0.20, as ADR 0003:14 says of a run. ADR 0003:14-16
  says that a discovery source alone cannot add an edge; `_apply_discovery_guard` leaves
  such a decision as it is.
- Among snapshots of one `created_at` a replay takes the greatest identifier, a panel the
  first of the list. A panel refuses everything if one snapshot is too new for it.

*Research*

- `alpha-run-graph` dates feature rows by the time their bars were collected and prices by
  midnight and joins them on the date (`alpha/pipeline.py:151`), so it scores nothing
  unless a collection hits a midnight, and reports that price history is missing
  (`GraphRunsStarve`). `docs/reference/alpha-research-workflow.md:64-66` and
  `docs/research/2026-09-30-graph-alpha-real-source-trial.md:29` explain the same
  rejection by missing history. If a bar was collected on the as-of day after midnight the
  backtest raises instead.
- A ticker's return runs to its next price (`backtest.py:76`), so one with gaps carries
  its last training return into the holdout, and dates with fewer than two tickers are
  passed over (`backtest.py:104,149`). `Research` prices and scores all tickers on the
  same days and has neither.
- With 40 to 66 scored dates and no bar after the last one the holdout has 19 scored
  periods, and the gate can only reject, where `_chronological_split` promises 20 on
  both sides.
- The gate compares with the baseline on the training dates only. The paper portfolio
  holds each ticker by its last score, however old.

## 5. Fairness

`FairSpec` of `JobRuntime` assumes `WF_vars(WorkerStep)`. The compose file
restarts the worker (`restart: unless-stopped`), `main()` loops over `run_once`
without an exit, and every statement of the worker ends or raises; crashes and
database errors are bounded by `MaxFailure`, since a worker that is killed for
ever makes no progress. `DispatchedJobsEnd` excepts behaviours with a database
error, which may strand the job. One weak fairness for the whole worker suffices, for it is a single
thread: whenever one of its steps is enabled the same step stays enabled until it
is taken. Two choices are left to it without fairness: a handler may report or
return (`Steps` bounds the reports, so handlers end, which the code expects of
them: there is no timeout), and recovery may log and requeue in any order. Clients
are never assumed to act; `DispatchedJobsEnd` is about jobs somebody dispatched.

`Spec` of `AgentWork` assumes weak fairness of each caller's own thread: a request that has
begun (`RequestStep`) and an invocation of the workflow (`RouterStep`), model calls
included: SQLite's wait for a lock ends in five seconds, and the model client, which the
code calls without a time limit of its own, is taken to return or raise. Dying, midnight, the passing of `max_runtime_seconds` and a resume are
nobody's duty. A lock that is waited for is held by a thread that is itself fair or has
died, and then the database releases it; without that release `CallersEnd` fails.

## 6. What is proved

TLAPS checks these for every value of the constants, from the `ASSUME`s in the
modules: sentinels are not members of the sets they stand beside, bounds are
naturals, identifiers of snapshots are ordered like naturals.

**JobRuntimeProofs.** Any number of jobs, keys, clients, crashes and errors.

- `TypeCorrect`: `Spec => []TypeOK`, one step per action.
- `StoreConsistent`: `Spec => []Consistent`. `Consistent` is the inductive
  invariant: `KeysBound` (a key has one row and every request and reply repeats
  it), `WorkerKnows` (at each of the worker's program counters, what it has in
  memory still agrees with the row), `EventsMatchStatus`, and `DispatchedFirst`
  (nothing runs that was not pushed). `WorkerKnows` is what makes the blind write
  of `update_status` harmless: between `CheckStatus` and `WriteStatus` nobody else
  changes the status of the job in hand. None of the other three is inductive
  without it: `EventsMatchStatus` needs `status = goal` when the event is written.
- From it: `OneJobPerKey` (`RepliesAgree`: all 202s for one key name one job, which holds
  what was asked for; `LifecycleSpec` implies it), `RepliesAreDispatched`
  (`AcceptedIsDispatched`), `EventsMatch` (`EventsMatchStatus`).
- `EndedJobsStay`: `Spec => TerminalIsFinal`, an action property: no action changes
  the status or adds another event once a job has ended, by
  `StatusChangesWhileLive` and `NewEvents`.
- `CancelAlwaysWins`: `Spec => CancelWins`. The property has a `[]` inside a `[]`; both are
  removed by one stable predicate, `Doomed`: the request stands, the row is not a
  success, and whatever the worker is about to write for the job is not one either.
- `ImplementsLifecycle`: `Spec => LifecycleSpec`. Initial states agree, and
  `LifecycleStep` maps each action to a step of `JobLifecycle` or a stutter. A crash,
  a Redis command or an event is a stutter, `RecoverIncomplete` is `Restart`.
- `NoJobIsStranded`: `Spec => []CrashesStrandNoJob`. `MessageKept` says that without a
  database error the worker takes a message off for good only after the end of its job,
  and that a dispatched job that has not ended is in one of the two lists.

**GraphPipelineProofs.** Any edges, verdicts, identifiers, lags and horizon, and any
number of refresh jobs.

- `TypeCorrect`: rows stay typed with ordered intervals although `model_copy`
  runs no validator.
- `HistoryIsKept`: `Spec => []HistoryKept`. The invariant adds to `TypeOK` that the
  repository has a latest snapshot (`HasLatest`): its existence is carried from step to step,
  which spares an induction over finite sets. `PastIsKept` shows for one publication that closing
  a row and restating its past leaves every view at earlier knowledge times alone;
  `Publication` that the new snapshot is built on the latest and not older than it.
- `EligibilityIsEarned` and `NightlyRunsRetire`: the invariant `RowsEarned` says of
  *every* row, closed, restated or current, what `EligibleIsEarned` says of the
  visible ones, for tomorrow's row is computed from a row nobody may see today.
  `NextRowsEarned` has one step per branch of `NextRows`; retirement and decay below
  the threshold end eligibility, and further decay adds the time since the last
  revision to what the row has decayed so far. It uses `SupportAssumption`: the
  policy makes nothing eligible without supporting observations, as `Corroborated`
  of `EdgePolicy` requires two hosts that support.
- `UpdatesSucceed`: `Spec => []UpdatesSucceedUntilRetirement`. `RowsReached`: every
  snapshot is well formed and no time in it is later than the clocks of the runs so far, so a
  request past all of them closes open rows after they began and its own overlap none.
- `RefreshOutcome`: `RefreshSpec => []OutcomeIsExplained`, with `JobsTyped`, `JobsDated`
  (only inserted jobs are queued or in hand, and they have a time), `SnapshotsDated` (a
  snapshot has the time of the job it is named after) and `DoneIsPublished` (before the
  row of a job says so, its snapshot is in the repository), and `RunsOnce` (without a
  crash nothing is taken twice, so a job that is about to run has no snapshot yet).
- `RefreshImplementsPipeline`: `RefreshSpec => Spec`. Only `Publish` touches the
  repository, and it is a bootstrap or an update; so `RefreshKeepsPipeline` has the
  theorems above hold of a workspace that jobs refresh. `AttemptAssumption`, a bound on
  attempts, is all they need of the constants.

**ProductStoreProofs.** Any threads, identifiers, contents, versions and restarts.

- `AnswersAreStored`, `LocksAreAtomic`: for histories without overlapping requests.
- `WritesOnlyFailForCause`: likewise for the API, for all histories for the worker.
  `Clean` says that every row, stored or pending, is one PostgreSQL takes, so the copy a
  bootstrap writes is too. `Unspoilt` says that the worker's connection is never in
  error, that no unique violation has aborted the API's transaction, that the content of
  what a request has still to write is in no stored row (`Novel`), and that the key of
  what it is about to insert is free; so a violation is deserved (`ViolationIsDeserved`).
- `BootstrapsAreDurable`, `WorkspacesChain`: for all histories.

The invariant relates the open transaction to the requests: what a process that is
`Alone` on its connection has written is pending there (`HandsFull`), and what is
pending on the API's connection has been written by a request that has not ended
(`NothingElsePending`). So a commit stores all of a request and nothing else.
Neither holds of two requests at once, and the worker needs neither condition: it
is always alone, and what it writes follows a row it has *read as stored*
(`WorkerShape`: no stored version is as high as the one it writes). That a newest
stored version exists (`StoredWorkspaces`) is carried along, as the latest snapshot
is above.

**DomainPlanProofs.** Any threads, instruments, target count and locks.

- `StoredIsShown` and `LockedIsKept`: what a universe says was shown to a client and
  is complete, and a plan that says locked has its universe stored. The invariant
  is about what a request *holds* (`ReadWasShown`): a plan that was unlocked and
  shown when it was read, complete before it is stored, stored before it is
  marked. It needs nothing about the plan the request will overwrite, which is why
  it survives the races that `OneLock` has to exclude.
- `OneUniverse` (`OneLock`): `Turns` adds that while no two requests have overlapped
  there is at most one under way and at most one universe, and that once there is
  one the plan is locked, gone, or about to be marked.

**FeatureRefreshProofs.** Any catalogue, jobs, snapshots, crashes and database errors.

- `ReadyIsAlwaysBacked` and `StrategiesAreGrounded`. The invariant `Refreshing` says what
  the handler's place in its chain implies: everything before `(stage, at)` is stored
  for the snapshot in hand (`Progress`), a record is made of its key alone (`Keyed`), the
  versions of a binding differ and one is the newest (`Versioned`), and a strategy in
  `draft` has read stored bindings of its own snapshot (`Drafted`). What is stored is never
  removed, so a crash costs nothing of it.
- `OnlyPinsEverFail` and `SuccessAlwaysBindsAll` are action properties from the same
  invariant: `Keyed` is why no immutability check ever refuses a rerun, `Reading` (what the
  worker has read of a binding is still the newest, or it has bound the feature since) why
  the newest binding of each feature is the job's own when it succeeds.

**AgentWorkProofs.** Any callers, requests, limits, days and formulas; for the workflow any
budget, failures, retries, resumes and answers of the model.

- `LedgersAreAllowances`: `Spec => AllowanceSpec`, the refinement. `BudgetInv` ties the
  write lock to the phase of each caller (one that is to insert holds it, and its day
  has room), `ReadIsFresh` the advisory lock to what a request has read. So what was read is
  still so when it is written, and `MovesAreFew` and `OneLedgerAtATime` reduce every
  step of every agent to one grant or none. `LimitsAssumption` says that one of the
  requests' limits is the greatest, which holds of any finite number of them.
- `TrialsAreAlwaysCounted` (`TrialsAreCounted`): from the same invariant.
- `AnswersAreRecorded` (`AnsweredIsRecorded`): `Batched` says of a batch under way that
  its candidates differ, are no more than the agent's maximum, and that those shown as
  recorded are in the ledger, whoever put them there.
- `GateIsAlwaysPassed` (`GateIsPassed`): `InStep` says that the last event of a run is
  the agent that completed last, or that the run is `Dead`: out of budget, over, or after
  an event that nothing may follow. A failure or a pause breaks the first half and always
  leaves the second, and `StillDead` keeps it as time passes. A resume revives a run that
  is dead by its budget only in name: the budget is not given back.
- `BudgetsAlwaysHold` (`BudgetsHold`): `Counts` bounds what really happened by what the
  run has recorded: questions to the model (`Asking`), calls of each agent (`Calling`)
  and visits of nodes, two for each recorded action (`Visiting`).

**LivingGraphProofs.** The evidence side and the workflow that feeds it. Any sources,
adapter calls, evidence, registry, answers of the model, as-of times and starting
snapshots; any invocations, paths and crashes.

- `IntakeAlwaysBalances` (`IntakeIsAccounted`): `Books` says for each collection what it
  has stored and listed at each of its statements.
- `NeverHindsight`, `ReadersAlwaysAgree`, `RetirementIsFinal`: `Living` says of every
  file (`Filed`) and of the one in work (`Drafted`) what it has from its base: what had
  ended there has ended here (`StillEnded`), and if the lineage is in order, no row was moved
  by evidence later than the file (`Timely`). `LineageOfNext` says that one more file
  leaves the lineages of the others alone.
- `ReviewsArePublished` (`ReviewedIsPublished`): the invariant `Held` says what the
  process in hand has done to its file at each of its statements, and
  `WholeStaysWhole` that a complete file is never written again, because
  `publish_new` refuses a path that exists. It is what lets the property survive the
  next process, which may be given the same path.
- `CommandsAreAnswered` (`OnlyCrashesLoseCommands`): without a crash, a command that
  is acknowledged has its answer or is in the hand of the process about to give it
  (`Answered`).

**DecisionsProofs.** Any number of observations, hosts, days, ticks in a day and periods.

- `ConflictIsAlwaysReviewed` (`ConflictIsReviewed`): the observations gathered are finitely
  many, so their numbers can be compared, and each branch of `assess_edge` is a step.
- `VerdictsAlwaysFollow` (`VerdictFollowsEvidence`): the confidence is a product over a set
  of hosts, computed by a fold. The library's well-foundedness of the naturals gives induction
  over sets of naturals (`Least`, `Induction`) and with it over the subsets of a finite set
  (`SubsetInduction`): a product exists (`ProductsExist`) and does not depend on the order it
  is taken in (`AnyOrder`). One more supporter multiplies `Doubt` by less than `Unit`, or
  lowers one of its factors (`SupportGrows`), and takes nothing off the share of supporters
  (`StillConfident`).
- `StrongestPathsAreKept` (`StrongestPaths`): any graph, any number of hops. `Walking` says that
  what is kept, queued or in hand is a walk from the shock with its loss. `Search(k)`
  says that the queue holds walks of `k` links and then of `k + 1` (`Level`); that no walk
  of at most `k` links is stronger than what its end keeps (`Reached`); and that any such
  walk, and any walk kept, that a link could lengthen is `Settled`: the link's target is
  already reached as strongly, or a walk no weaker and no longer is still queued or in
  hand (`Oldest`, `Newest`). The last clause is why the pruning is safe: what is passed over
  has a walk ahead of it that is as strong *and* as short. `NextLevel` turns
  `Search(k)` into `Search(k + 1)` when the last walk of `k` links is done; with an empty queue
  it can be repeated up to `MaxHops` (`SearchEnds`). `LossOf` and `Losses` are recursive functions;
  `StepByStep` shows that they have the values their equations give them.
- `AcceptedIsAlwaysUnseen` (`AcceptedIsUnseen`): `Unseen` says at each stage of the run
  that no bar is later than its as-of time, that the holdout lies after the training
  dates (`Apart`), and that each report is of the dates of its own part, all scored in time.
- `GraphRunsAlwaysStarve`: `DecisionsSpec => []GraphRunsStarve`. The invariant `Starving`
  says that all signals of such a run lie off midnight, so that none meets a price
  (`OffMidnightIsUnpriced`), and that the run is therefore not past its first backtest.

## 7. What is only model-checked

- Liveness under fairness (`DispatchedJobsEnd`, `CallersEnd`), for it needs ENABLED, which
  is beyond the prover.

All other properties of the passing runs are theorems. No module declares a RECURSIVE operator.

## 8. What is not modelled, and why

- *Next*: the monitor's health rules and the type checker of the factor language, pure
  functions (section 2). `RequestPacer` and the request budget of a provider are
  counters of one object; no two threads of the repository share one today, and if a route
  came to, two of them could read one `_last_request_at` and wait the same time.
- *Text and numbers*: prompts, quote matching, section splitting, factor
  expressions over data frames, portfolio and backtest arithmetic, graph analysis
  and rendering. Sequential code whose correctness is in its data.
- *Network*: source and provider adapters, model clients. Their failures appear
  as the choices `HandlerRaises`, `Extract` and `AdjudicationFails`.
- *Static*: credential vault, tool registry, settings, web interface. The SQL
  schema and the compose file are assumptions: primary keys, one worker, restarts.
- *Several workers*: the compose file runs one. A second would share the
  processing list, and `Reclaim` would take what the first has in hand.
- *In-memory doubles* (`InMemoryProductRepository`, `InMemoryMessageBus` and such) used in tests.
