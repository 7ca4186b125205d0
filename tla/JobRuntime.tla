------------------------------ MODULE JobRuntime ------------------------------
(***************************************************************************)
(* The durable job runtime: clients of POST /api/jobs, the PostgreSQL job  *)
(* tables, the Redis queue with its processing list and submitted markers, *)
(* and the one worker process of docker-compose.yml.                       *)
(*                                                                         *)
(* One action is one committed database transaction or one Redis command.  *)
(* PostgreSQL and Redis survive a crash; a worker's memory does not.       *)
(* Timestamps, numeric progress and messages are left out: no property     *)
(* tells them apart.                                                       *)
(***************************************************************************)
EXTENDS Integers, Sequences, FiniteSets

CONSTANTS
    Job,        \* job identifiers a client may propose
    Key,        \* idempotency keys
    Body,       \* a job's kind together with its payload digest
    Runnable,   \* the bodies whose kind has a registered handler
    Client,     \* concurrent API requests
    Steps,      \* bound: progress reports one handler call makes
    MaxFailure, \* bound: worker crashes and database errors together
    Nil         \* "no value"

ASSUME RunnableAssumption == Runnable \subseteq Body
ASSUME BoundsAssumption == Steps \in Nat /\ MaxFailure \in Nat

VARIABLES
    status,      \* table jobs: the status column ("absent": no row)
    keyOf,       \* table jobs: idempotency_key
    bodyOf,      \* table jobs: kind and payload_digest
    cancel,      \* table jobs: the rows with cancel_requested
    events,      \* table job_events: pairs of a job and an event type
    queue,       \* Redis list alpha:jobs, oldest message first
    processing,  \* Redis list alpha:jobs:processing: how many messages of each job
    marker,      \* jobs whose alpha:jobs:submitted:<id> key exists
    cpc,         \* where each API request is
    creq,        \* what it asks for
    cjob,        \* the receipt it holds
    accepted,    \* history: what the successful replies said
    wpc,         \* where the worker is
    wjob,        \* the job of the message in the worker's hands
    goal,        \* the status the worker is about to give that job
    step,        \* progress reports made by the current handler call
    reclaimed,   \* recover(): reclaimed_ids
    unlogged,    \* recover_incomplete(): ids whose event is still to be appended
    orphans,     \* recover(): receipts whose message may have to be pushed
    crashes, faults

table     == <<status, keyOf, bodyOf, cancel>>
store     == <<table, events>>
redis     == <<queue, processing, marker>>
request   == <<cpc, creq, cjob>>
clients   == <<request, accepted>>
recovery  == <<reclaimed, unlogged, orphans>>
counters  == <<crashes, faults>>
vars      == <<status, keyOf, bodyOf, cancel, events, queue, processing, marker, cpc, creq,
               cjob, accepted, wpc, wjob, goal, step, reclaimed, unlogged, orphans,
               crashes, faults>>

\* Mutated forms stand in front of what they change and are used by no behaviour.
MutTerminal == {"succeeded", "cancelled"}
Terminal  == {"succeeded", "failed", "cancelled"}
Status    == {"queued", "running"} \cup Terminal
EventType == {"queued", "started", "progress", "completed", "failed", "cancelled",
              "recovered"}
Request   == [id : Job, key : Key, body : Body]

ASSUME NilAssumption ==
    Nil \notin Job /\ Nil \notin Key /\ Nil \notin Body /\ Nil \notin Request /\ Nil \notin Status

\* The event run_once appends after it has set a status.
EventOf == [running |-> "started", succeeded |-> "completed", failed |-> "failed",
            cancelled |-> "cancelled"]

Live(j)     == status[j] \notin Terminal \cup {"absent"}
Holder(key) == {j \in Job : keyOf[j] = key}

Init ==
    /\ status = [j \in Job |-> "absent"]
    /\ keyOf = [j \in Job |-> Nil]
    /\ bodyOf = [j \in Job |-> Nil]
    /\ cancel = {}
    /\ events = {}
    /\ queue = <<>>
    /\ processing = [j \in Job |-> 0]
    /\ marker = {}
    /\ cpc = [c \in Client |-> "idle"]
    /\ creq = [c \in Client |-> Nil]
    /\ cjob = [c \in Client |-> Nil]
    /\ accepted = {}
    /\ wpc = "down" /\ wjob = Nil /\ goal = Nil /\ step = 0
    /\ reclaimed = {} /\ unlogged = {} /\ orphans = {}
    /\ crashes = 0 /\ faults = 0

-----------------------------------------------------------------------------
(***************************************************************************)
(* The API side: JobDispatcher.submit and cancel.                          *)
(***************************************************************************)

worker == <<wpc, wjob, goal, step, recovery, counters>>

\* The request keeps its receipt while it has more to do.
Hold(c, r, j, pc) ==
    /\ cpc' = [cpc EXCEPT ![c] = pc]
    /\ creq' = [creq EXCEPT ![c] = r]
    /\ cjob' = [cjob EXCEPT ![c] = j]

Reply(r, j) == accepted' = accepted \cup {[key |-> r.key, body |-> r.body, job |-> j]}

(* create_or_get inserts a row: neither the key nor the id is in the table. *)
(* (A new key with an id already in use is an integrity error: nothing     *)
(* changes and the client gets a 500.)                                     *)
Create(c) == \E r \in Request :
    /\ cpc[c] = "idle"
    /\ Holder(r.key) = {}
    /\ status[r.id] = "absent"
    /\ status' = [status EXCEPT ![r.id] = "queued"]
    /\ keyOf' = [keyOf EXCEPT ![r.id] = r.key]
    /\ bodyOf' = [bodyOf EXCEPT ![r.id] = r.body]
    /\ Hold(c, r, r.id, "log_queued")
    /\ UNCHANGED <<cancel, events, redis, accepted, worker>>

\* create_or_get appends the queued event in a second transaction.
LogQueued(c) ==
    /\ cpc[c] = "log_queued"
    /\ events' = events \cup {<<cjob[c], "queued">>}
    /\ cpc' = [cpc EXCEPT ![c] = "dispatch"]
    /\ UNCHANGED <<table, redis, creq, cjob, accepted, worker>>

\* A stored row answers a request only if kind and digest are the same.
SameJob(j, r) == bodyOf[j] = r.body

\* submit dispatches again what is still queued, in case the first attempt died.
MutNeedsDispatch(j) == FALSE
NeedsDispatch(j) == status[j] = "queued"

(* create_or_get finds the key.  A different kind or digest is a 409 and   *)
(* changes nothing; a job that has left "queued" is answered as it stands. *)
Resubmit(c) == \E r \in Request : \E j \in Holder(r.key) :
    /\ cpc[c] = "idle"
    /\ SameJob(j, r)
    /\ \/ /\ NeedsDispatch(j)
          /\ Hold(c, r, j, "dispatch")
          /\ UNCHANGED accepted
       \/ /\ ~ NeedsDispatch(j)
          /\ Reply(r, j)
          /\ UNCHANGED request
    /\ UNCHANGED <<store, redis, worker>>

\* The Lua script: SETNX on the marker and LPUSH in one Redis operation.
Dispatch(c) ==
    /\ cpc[c] = "dispatch"
    /\ LET j == cjob[c] IN
       /\ queue' = IF j \in marker THEN queue ELSE Append(queue, j)
       /\ marker' = marker \cup {j}
       /\ Reply(creq[c], j)
    /\ Hold(c, Nil, Nil, "idle")
    /\ UNCHANGED <<store, processing, worker>>

\* The API process dies, or the database or Redis is unavailable to it.
Abort(c) ==
    /\ cpc[c] # "idle"
    /\ Hold(c, Nil, Nil, "idle")
    /\ UNCHANGED <<store, redis, accepted, worker>>

\* request_cancel: one guarded UPDATE.
RequestCancel(j) ==
    /\ Live(j)
    /\ cancel' = cancel \cup {j}
    /\ UNCHANGED <<status, keyOf, bodyOf, events, redis, clients, worker>>

-----------------------------------------------------------------------------
(***************************************************************************)
(* Worker start: JobWorker.recover.                                        *)
(***************************************************************************)

Start ==
    /\ wpc = "down"
    /\ wpc' = "reclaim"
    /\ UNCHANGED <<store, redis, clients, wjob, goal, step, recovery, counters>>

\* rpoplpush moves one message of the processing list back to the queue.
Reclaim ==
    /\ wpc = "reclaim"
    /\ \E j \in Job :
         /\ processing[j] > 0
         /\ processing' = [processing EXCEPT ![j] = @ - 1]
         /\ queue' = Append(queue, j)
         /\ reclaimed' = reclaimed \cup {j}
    /\ UNCHANGED <<store, marker, clients, wpc, wjob, goal, step, unlogged, orphans,
                   counters>>

\* Its WHERE clause.
Interrupted(j) == status[j] = "running"

\* Its SET list: the cancel flag stays.
MutKept == cancel' = cancel \ {j \in Job : status[j] = "running"}
Kept == cancel' = cancel

\* recover_incomplete: one UPDATE ... WHERE status = 'running' RETURNING id.
RecoverIncomplete ==
    /\ wpc = "reclaim"
    /\ \A j \in Job : processing[j] = 0
    /\ status' = [j \in Job |-> IF Interrupted(j) THEN "queued" ELSE status[j]]
    /\ Kept
    /\ unlogged' = {j \in Job : Interrupted(j)}
    /\ orphans' = unlogged'
    /\ wpc' = "requeue"
    /\ UNCHANGED <<keyOf, bodyOf, events, redis, clients, wjob, goal, step, reclaimed,
                   counters>>

LogRecovered(j) ==
    /\ wpc = "requeue"
    /\ j \in unlogged
    /\ events' = events \cup {<<j, "recovered">>}
    /\ unlogged' = unlogged \ {j}
    /\ UNCHANGED <<table, redis, clients, wpc, wjob, goal, step, reclaimed, orphans,
                   counters>>

\* Only a job whose message this recovery did not reclaim gets a new one.
Messageless == orphans \ reclaimed

Requeue(j) ==
    /\ wpc = "requeue"
    /\ unlogged = {}
    /\ j \in Messageless
    /\ queue' = Append(queue, j)
    /\ orphans' = orphans \ {j}
    /\ UNCHANGED <<store, processing, marker, clients, wpc, wjob, goal, step, reclaimed,
                   unlogged, counters>>

Recovered ==
    /\ wpc = "requeue"
    /\ unlogged = {}
    /\ Messageless = {}
    /\ wpc' = "idle"
    /\ reclaimed' = {}
    /\ orphans' = {}
    /\ UNCHANGED <<store, redis, clients, wjob, goal, step, unlogged, counters>>

-----------------------------------------------------------------------------
(***************************************************************************)
(* JobWorker.run_once.                                                     *)
(***************************************************************************)

\* brpoplpush, not brpop: the message in hand stays in Redis.
MutCarry(j) == processing
Carry(j) == [processing EXCEPT ![j] = @ + 1]

\* The oldest message moves to the processing list.
Take ==
    /\ wpc = "idle"
    /\ queue # <<>>
    /\ wjob' = Head(queue)
    /\ queue' = Tail(queue)
    /\ processing' = Carry(Head(queue))
    /\ wpc' = "look"
    /\ UNCHANGED <<store, marker, clients, goal, step, recovery, counters>>

Aim(s) ==
    /\ goal' = s
    /\ wpc' = "check"

\* A job cancelled before execution is not dropped: its row becomes cancelled.
MutCancelUnstarted == wpc' = "ack" /\ UNCHANGED goal
CancelUnstarted == Aim("cancelled")

\* repository.get, then the early returns and the choice of what to do.
Look ==
    /\ wpc = "look"
    /\ \/ /\ ~ Live(wjob)
          /\ wpc' = "ack"
          /\ UNCHANGED goal
       \/ Live(wjob) /\ wjob \in cancel /\ CancelUnstarted
       \/ Live(wjob) /\ wjob \notin cancel /\ bodyOf[wjob] \notin Runnable /\ Aim("failed")
       \/ Live(wjob) /\ wjob \notin cancel /\ bodyOf[wjob] \in Runnable /\ Aim("running")
    /\ UNCHANGED <<store, redis, clients, wjob, step, recovery, counters>>

\* update_status reads the row first and refuses to leave a terminal status ...
CheckStatus ==
    /\ wpc = "check"
    /\ wpc' = IF status[wjob] \in Terminal \ {goal} THEN "unwind" ELSE "write"
    /\ UNCHANGED <<store, redis, clients, wjob, goal, step, recovery, counters>>

\* ... and then writes it, in another transaction, whatever the row now is.
WriteStatus ==
    /\ wpc = "write"
    /\ status' = [status EXCEPT ![wjob] = goal]
    /\ wpc' = "log"
    /\ UNCHANGED <<keyOf, bodyOf, cancel, events, redis, clients, wjob, goal, step, recovery, counters>>

\* The event that goes with the status, under a key that occurs once per job.
LogStatus ==
    /\ wpc = "log"
    /\ events' = events \cup {<<wjob, EventOf[goal]>>}
    /\ wpc' = IF goal = "running" THEN "handle" ELSE "ack"
    /\ step' = 0
    /\ UNCHANGED <<table, redis, clients, wjob, goal, recovery, counters>>

\* The handler calls context.progress, which first looks for a cancel request.
Report ==
    /\ wpc = "handle"
    /\ step < Steps
    /\ \/ wjob \in cancel /\ Aim("cancelled")
       \/ wjob \notin cancel /\ wpc' = "progress_log" /\ UNCHANGED goal
    /\ UNCHANGED <<store, redis, clients, wjob, step, recovery, counters>>

\* publish_progress appends its event before it touches the row.
LogProgress ==
    /\ wpc = "progress_log"
    /\ events' = events \cup {<<wjob, "progress">>}
    /\ wpc' = "progress_check"
    /\ UNCHANGED <<table, redis, clients, wjob, goal, step, recovery, counters>>

\* update_progress wants a running job; run_once turns its ValueError into a failure.
CheckProgress ==
    /\ wpc = "progress_check"
    /\ \/ status[wjob] # "running" /\ Aim("failed")
       \/ status[wjob] = "running" /\ wpc' = "progress_write" /\ UNCHANGED goal
    /\ UNCHANGED <<store, redis, clients, wjob, step, recovery, counters>>

WriteProgress ==
    /\ wpc = "progress_write"
    /\ status' = [status EXCEPT ![wjob] = "running"]
    /\ step' = step + 1
    /\ wpc' = "handle"
    /\ UNCHANGED <<keyOf, bodyOf, cancel, events, redis, clients, wjob, goal, recovery, counters>>

MutOutcome == "succeeded"
Outcome == IF wjob \in cancel THEN "cancelled" ELSE "succeeded"

\* The handler returns; run_once looks for a cancel request once more.
HandlerReturns ==
    /\ wpc = "handle"
    /\ Aim(Outcome)
    /\ UNCHANGED <<store, redis, clients, wjob, step, recovery, counters>>

HandlerRaises ==
    /\ wpc = "handle"
    /\ Aim("failed")
    /\ UNCHANGED <<store, redis, clients, wjob, step, recovery, counters>>

\* The finally clause: lrem takes one message of the job off the processing list.
\* After an exception the process ends, for main() does not catch it.
Acknowledge ==
    /\ wpc \in {"ack", "unwind"}
    /\ processing' = [processing EXCEPT ![wjob] = IF @ > 0 THEN @ - 1 ELSE 0]
    /\ wpc' = IF wpc = "ack" THEN "idle" ELSE "down"
    /\ wjob' = Nil /\ goal' = Nil /\ step' = 0
    /\ UNCHANGED <<store, queue, marker, clients, recovery, counters>>

-----------------------------------------------------------------------------
(***************************************************************************)
(* What goes wrong: the process dies, or a database call raises.           *)
(***************************************************************************)

\* The worker loses its memory; the processing list keeps the message.
Crash ==
    /\ wpc # "down"
    /\ crashes + faults < MaxFailure
    /\ crashes' = crashes + 1
    /\ wpc' = "down" /\ wjob' = Nil /\ goal' = Nil /\ step' = 0
    /\ reclaimed' = {} /\ unlogged' = {} /\ orphans' = {}
    /\ UNCHANGED <<store, redis, clients, faults>>

\* A database error in run_once itself runs the finally clause; one inside the
\* handler's progress report is caught and fails the job.
DatabaseFault ==
    /\ crashes + faults < MaxFailure
    /\ faults' = faults + 1
    /\ \/ /\ wpc \in {"look", "check", "write", "log"}
          /\ wpc' = "unwind"
          /\ UNCHANGED goal
       \/ /\ wpc \in {"progress_log", "progress_check", "progress_write"}
          /\ Aim("failed")
    /\ UNCHANGED <<store, redis, clients, wjob, step, recovery, crashes>>

-----------------------------------------------------------------------------
ClientStep ==
    \/ \E c \in Client :
         Create(c) \/ LogQueued(c) \/ Resubmit(c) \/ Dispatch(c) \/ Abort(c)
    \/ \E j \in Job : RequestCancel(j)

RecoverStep ==
    \/ Start \/ Reclaim \/ RecoverIncomplete \/ Recovered
    \/ \E j \in Job : LogRecovered(j) \/ Requeue(j)

RunStep ==
    \/ Take \/ Look \/ CheckStatus \/ WriteStatus \/ LogStatus
    \/ Report \/ LogProgress \/ CheckProgress \/ WriteProgress
    \/ HandlerReturns \/ HandlerRaises \/ Acknowledge

WorkerStep == RecoverStep \/ RunStep

Next == ClientStep \/ WorkerStep \/ Crash \/ DatabaseFault

Spec == Init /\ [][Next]_vars

(* Compose restarts the worker (restart: unless-stopped) and its loop      *)
(* never sleeps for good, so the worker keeps taking steps.  Nothing makes *)
(* a client act.                                                           *)
FairSpec == Spec /\ WF_vars(WorkerStep)

-----------------------------------------------------------------------------
(***************************************************************************)
(* Properties.                                                             *)
(***************************************************************************)

WorkerPc == {"down", "reclaim", "requeue", "idle", "look", "check", "write", "log",
             "handle", "progress_log", "progress_check", "progress_write", "ack",
             "unwind"}

\* The program counters of a handler call, and of all of run_once.
Handling == {"handle", "progress_log", "progress_check", "progress_write"}
Running  == Handling \cup {"look", "check", "write", "log", "ack", "unwind"}

\* Every table, list and program counter holds values of its type.
TypeOK ==
    /\ status \in [Job -> Status \cup {"absent"}]
    /\ keyOf \in [Job -> Key \cup {Nil}]
    /\ bodyOf \in [Job -> Body \cup {Nil}]
    /\ cancel \subseteq Job
    /\ events \subseteq Job \X EventType
    /\ queue \in Seq(Job)
    /\ processing \in [Job -> Nat]
    /\ marker \subseteq Job
    /\ cpc \in [Client -> {"idle", "log_queued", "dispatch"}]
    /\ creq \in [Client -> Request \cup {Nil}]
    /\ cjob \in [Client -> Job \cup {Nil}]
    /\ accepted \subseteq [key : Key, body : Body, job : Job]
    /\ wpc \in WorkerPc
    /\ wjob \in Job \cup {Nil}
    /\ goal \in (Status \ {"queued"}) \cup {Nil}
    /\ step \in 0 .. Steps
    /\ reclaimed \subseteq Job /\ unlogged \subseteq Job /\ orphans \subseteq Job
    /\ crashes \in 0 .. MaxFailure /\ faults \in 0 .. MaxFailure
    /\ \A c \in Client : cpc[c] # "idle" => creq[c] # Nil /\ cjob[c] # Nil
    /\ wpc \in Running => wjob # Nil
    /\ wpc \in Handling \ {"handle"} => step < Steps
    /\ wpc \in {"check", "write", "log"} => goal # Nil

Messages(j) == processing[j] + Cardinality({i \in DOMAIN queue : queue[i] = j})

ClosingEvent == {<<"completed", "succeeded">>, <<"failed", "failed">>,
                 <<"cancelled", "cancelled">>}

(* A closing event never contradicts the row it closes, although the two   *)
(* are written by separate transactions and a crash may fall between them. *)
EventsMatchStatus ==
    \A j \in Job : \A e \in ClosingEvent : <<j, e[1]>> \in events => status[j] = e[2]

(* "Submit jobs exactly once": every 202 for a key names one job, which    *)
(* holds that key and the kind and payload the client sent, whatever other *)
(* requests with the key did meanwhile.                                    *)
RepliesAgree ==
    /\ \A a \in accepted : keyOf[a.job] = a.key /\ bodyOf[a.job] = a.body
    /\ \A a, b \in accepted : a.key = b.key => a = b

(* The client that is told its job is accepted need not retry: the message *)
(* of that job has been pushed, even if an earlier request for it died     *)
(* between the insert and the push.                                        *)
AcceptedIsDispatched == \A a \in accepted : a.job \in marker

(* "An interrupted job is reclaimed after a restart": a dispatched job     *)
(* that has not ended has a message in one of the two lists, whatever      *)
(* crashes at whatever point of a run or a recovery; only a database error *)
(* can leave it with none (run_once's finally clause removes the message   *)
(* of a job it could not read).                                            *)
CrashesStrandNoJob == faults = 0 => \A j \in marker : Live(j) => Messages(j) > 0

(* Once a job has ended, no late step of the worker, of a recovery or of a *)
(* delayed request changes its status or adds to its events, but for the   *)
(* queued event of a slow creator and the one that closes it.              *)
TerminalIsFinal ==
    [][\A j \in Job : status[j] \in {"succeeded", "failed", "cancelled"} =>
         /\ status'[j] = status[j]
         /\ \A t \in EventType : <<j, t>> \in events' \ events =>
               t = "queued" \/ <<t, status[j]>> \in ClosingEvent]_vars

(* A cancel request that arrives before the worker has taken the job, or   *)
(* while its handler runs, wins for good: no report, return, crash,        *)
(* recovery or rerun lets the job succeed after it.                        *)
CancelWins ==
    \A j \in Job : []((Live(j) /\ j \in cancel /\ (wjob # j \/ wpc \in Handling))
                         => [](status[j] # "succeeded"))

(* Every dispatched job ends, in spite of the crashes, as long as the      *)
(* worker is restarted and its database answers.                           *)
DispatchedJobsEnd ==
    \A j \in Job : (j \in marker) ~> (status[j] \in Terminal \/ faults > 0)

\* A key is bound to one job, and what a request or a reply holds is that binding.
KeysBound ==
    /\ \A j \in Job : status[j] = "absent" <=> keyOf[j] = Nil
    /\ \A i, j \in Job : keyOf[i] = keyOf[j] => i = j \/ keyOf[i] = Nil
    /\ \A c \in Client : cpc[c] # "idle" =>
         keyOf[cjob[c]] = creq[c].key /\ bodyOf[cjob[c]] = creq[c].body
    /\ \A a \in accepted : keyOf[a.job] = a.key /\ bodyOf[a.job] = a.body

\* What the worker holds in memory agrees with the row it is about to write.
WorkerKnows ==
    /\ wpc \in Handling => status[wjob] = "running"
    /\ wpc \in {"check", "write"} =>
         /\ status[wjob] \in {"queued", "running"}
         /\ goal = "cancelled" => wjob \in cancel
         /\ goal = "succeeded" => status[wjob] = "running"
    /\ wpc = "log" => status[wjob] = goal
    /\ wpc = "requeue" => \A j \in unlogged : status[j] = "queued"

\* Only a job that has been pushed is in a list, in the worker's hands or started.
DispatchedFirst ==
    /\ \A i \in DOMAIN queue : queue[i] \in marker
    /\ \A j \in Job : processing[j] > 0 => j \in marker
    /\ \A j \in Job : status[j] \notin {"absent", "queued"} => j \in marker
    /\ wjob # Nil => wjob \in marker
    /\ orphans \subseteq marker
    /\ AcceptedIsDispatched

(* The inductive invariant: the store, the requests and the worker's       *)
(* memory never disagree in a way that a later blind write could expose.   *)
Consistent == KeysBound /\ WorkerKnows /\ EventsMatchStatus /\ DispatchedFirst

\* The worker takes a message off the processing list for good only after the end
\* of its job, so a dispatched job that has not ended is in one of the two lists.
InQueue(j) == \E i \in DOMAIN queue : queue[i] = j
MessageKept ==
    /\ \A j \in marker : status[j] # "absent"
    /\ faults = 0 => /\ wpc \in {"ack", "unwind"} => ~ Live(wjob)
                     /\ \A j \in marker : Live(j) => processing[j] > 0 \/ InQueue(j)

(* The tables and replies behave as the abstract job service promises.     *)
Lifecycle == INSTANCE JobLifecycle
LifecycleSpec == Lifecycle!Spec
=============================================================================
