----------------------------- MODULE GraphRefresh -----------------------------
(***************************************************************************)
(* Graph refresh from end to end: the API route that submits the job, the  *)
(* worker that runs graph_refresh_handler, and the graph pipeline.  The    *)
(* job runtime is module JobRuntime; here are only the steps of it that    *)
(* decide when, how often and in which order a refresh runs.               *)
(*                                                                         *)
(* A job's identifier is the identifier of the snapshot it publishes.      *)
(***************************************************************************)
EXTENDS GraphPipeline, Sequences

CONSTANT MaxCrash   \* bound: worker crashes
ASSUME CrashAssumption == MaxCrash \in Nat
ASSUME AttemptAssumption == {"bootstrap", "nightly"} \subseteq Triggers

VARIABLES
    now,        \* the wall clock
    post,       \* the request time a POST holds that has not been answered
    row,        \* table jobs: status
    why,        \* table jobs: whose message a failed row holds
    time,       \* table jobs: payload, as_of_time = knowledge_time
    queue,      \* Redis: messages, oldest first
    pushed,     \* Redis: the submitted markers
    hand,       \* the job the worker runs
    wpc,        \* where the worker is
    crashes

jobs   == <<row, why, time>>
worker == <<hand, wpc>>
vars   == <<snapshots, now, post, row, why, time, queue, pushed, hand, wpc, crashes>>

RefreshInit ==
    /\ Init
    /\ now = 0
    /\ post = [j \in Id |-> None]
    /\ row = [j \in Id |-> "absent"]
    /\ why = [j \in Id |-> None]
    /\ time = [j \in Id |-> None]
    /\ queue = <<>>
    /\ pushed = {}
    /\ hand = None /\ wpc = "idle"
    /\ crashes = 0

Tick ==
    /\ now < Horizon - 1
    /\ now' = now + 1
    /\ UNCHANGED <<snapshots, post, jobs, queue, pushed, worker, crashes>>

-----------------------------------------------------------------------------
(***************************************************************************)
(* POST /api/workspaces/{id}/graph-refresh; one idempotency key per job.   *)
(***************************************************************************)

\* The key is unknown: the route takes the time for both clocks.
Post(j) ==
    /\ row[j] = "absent" /\ post[j] = None
    /\ post' = [post EXCEPT ![j] = now]
    /\ UNCHANGED <<snapshots, now, jobs, queue, pushed, worker, crashes>>

Insert(j) ==
    /\ row[j] = "absent" /\ post[j] # None
    /\ row' = [row EXCEPT ![j] = "queued"]
    /\ time' = [time EXCEPT ![j] = post[j]]
    /\ UNCHANGED <<snapshots, now, post, why, queue, pushed, worker, crashes>>

Push(j) ==
    /\ row[j] # "absent" /\ post[j] # None
    /\ queue' = IF j \in pushed THEN queue ELSE Append(queue, j)
    /\ pushed' = pushed \cup {j}
    /\ post' = [post EXCEPT ![j] = None]
    /\ UNCHANGED <<snapshots, now, jobs, worker, crashes>>

\* The API process dies, or Redis is not there, before the push: a retry finds the
\* key and is answered at once, without submit(), and nothing is ever pushed.
Die(j) ==
    /\ post[j] # None
    /\ post' = [post EXCEPT ![j] = None]
    /\ UNCHANGED <<snapshots, now, jobs, queue, pushed, worker, crashes>>

-----------------------------------------------------------------------------
(***************************************************************************)
(* The worker.                                                             *)
(***************************************************************************)

\* A status of the job in hand, with the message of a failure, and the end of the job.
Mark(j, status, cause) ==
    /\ row' = [row EXCEPT ![j] = status]
    /\ why' = [why EXCEPT ![j] = cause]
    /\ wpc' = "ack"

\* Somebody may have asked for the job's cancellation (RequestCancel of JobRuntime).
Take ==
    /\ wpc = "idle" /\ queue # <<>>
    /\ hand' = Head(queue)
    /\ queue' = Tail(queue)
    /\ LET j == Head(queue) IN
       IF row[j] \in {"succeeded", "failed", "cancelled"}
       THEN wpc' = "ack" /\ UNCHANGED <<row, why>>
       ELSE \/ wpc' = "run" /\ row' = [row EXCEPT ![j] = "running"] /\ UNCHANGED why
            \/ Mark(j, "cancelled", None)
    /\ UNCHANGED <<snapshots, now, post, time, pushed, crashes>>

\* What fails around the pipeline: before it the workspace or its universe is missing,
\* unlocked or another workspace's, or the evidence ledger or the model raises; within
\* it a query; before it and after the publication a report of progress.
HandlerRaises ==
    /\ wpc \in {"run", "done"}
    /\ Mark(hand, "failed", "raised")
    /\ UNCHANGED <<snapshots, now, post, time, queue, pushed, hand, crashes>>

\* A report of progress, or run_once at the end, finds a request to cancel.
HandlerCancelled ==
    /\ wpc \in {"run", "done"}
    /\ Mark(hand, "cancelled", None)
    /\ UNCHANGED <<snapshots, now, post, time, queue, pushed, hand, crashes>>

\* The request of this attempt: the trigger is what the repository holds by now.
Attempt(v) ==
    [id |-> hand, asof |-> time[hand], known |-> time[hand],
     trigger |-> IF snapshots = {} THEN "bootstrap" ELSE "nightly", verdicts |-> v]

\* Extracted proposals carry fresh identifiers, so only a request without any has
\* the fingerprint it had before.
Repeats(q) == Replayed(q) /\ Named(q) = {}

Publish ==
    /\ wpc = "run"
    /\ \E es \in SUBSET Edge : \E v \in [es -> Verdict] : Run(Attempt(v))
    /\ wpc' = "done"
    /\ UNCHANGED <<now, post, jobs, queue, pushed, hand, crashes>>

\* The pipeline raises: of the order of knowledge times, of a row it cannot close or
\* of overlapping rows, or for an identifier with other content.
MutRefuse(q) == Mark(hand, "succeeded", None)
Refuse(q) == Mark(hand, "failed", "refused")

NotPublished ==
    /\ wpc = "run"
    /\ \E es \in SUBSET Edge : \E v \in [es -> Verdict] :
         LET q == Attempt(v) IN
         /\ ~ Publishable(q)
         /\ IF Repeats(q) /\ InOrder(q) THEN wpc' = "done" /\ UNCHANGED <<row, why>>
            ELSE Refuse(q)
    /\ UNCHANGED <<snapshots, now, post, time, queue, pushed, hand, crashes>>

Succeed ==
    /\ wpc = "done"
    /\ Mark(hand, "succeeded", None)
    /\ UNCHANGED <<snapshots, now, post, time, queue, pushed, hand, crashes>>

Acknowledge ==
    /\ wpc = "ack"
    /\ hand' = None /\ wpc' = "idle"
    /\ UNCHANGED <<snapshots, now, post, jobs, queue, pushed, crashes>>

\* The message goes back behind the others, and a running row is queued again.
CrashAndRecover ==
    /\ wpc # "idle"
    /\ crashes < MaxCrash
    /\ crashes' = crashes + 1
    /\ queue' = Append(queue, hand)
    /\ row' = [row EXCEPT ![hand] = IF @ = "running" THEN "queued" ELSE @]
    /\ hand' = None /\ wpc' = "idle"
    /\ UNCHANGED <<snapshots, now, post, why, time, pushed>>

RefreshNext ==
    \/ \E j \in Id : Post(j) \/ Insert(j) \/ Push(j) \/ Die(j)
    \/ Tick \/ Take \/ Publish \/ NotPublished \/ HandlerRaises \/ HandlerCancelled
    \/ Succeed \/ Acknowledge \/ CrashAndRecover

RefreshSpec == RefreshInit /\ [][RefreshNext]_vars

-----------------------------------------------------------------------------
(***************************************************************************)
(* Properties.                                                             *)
(***************************************************************************)

(* What a job's row says is what happened to its snapshot.  A refresh that *)
(* reports success has published at the time its payload names, also when  *)
(* it succeeded on a second attempt.  One that the pipeline itself refused *)
(* (and not the handler around it, whose errors say nothing of snapshots)  *)
(* was overtaken by one with a later time, shares its time with another    *)
(* one, had published before a crash, or met a retired edge; and only a    *)
(* crash lets a refused refresh have a snapshot all the same.              *)
OutcomeIsExplained ==
    \A j \in Id :
        /\ row[j] = "succeeded" => \E s \in snapshots : s.id = j /\ s.known = time[j]
        /\ row[j] = "failed" /\ why[j] = "refused" =>
              /\ \E s \in snapshots : \/ s.known >= time[j]
                                      \/ \E r \in s.rows : r.life = "retracted"
              /\ (\E s \in snapshots : s.id = j) => crashes > 0
=============================================================================
