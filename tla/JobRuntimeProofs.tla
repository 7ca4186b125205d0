--------------------------- MODULE JobRuntimeProofs ---------------------------
(***************************************************************************)
(* Theorems about JobRuntime, for any sets of jobs, keys, bodies and       *)
(* clients and any bounds.                                                 *)
(***************************************************************************)
EXTENDS JobRuntime, FiniteSetTheorems, TLAPS

(* Type correctness of the tables, the Redis lists, the requests and the   *)
(* worker (submit, recover, run_once).                                     *)
THEOREM TypeCorrect == Spec => []TypeOK
<1>1. Init => TypeOK
  BY NilAssumption, BoundsAssumption DEF Init, TypeOK, WorkerPc, Running, Handling
<1>2. TypeOK /\ [Next]_vars => TypeOK'
  <2> SUFFICES ASSUME TypeOK, [Next]_vars PROVE TypeOK'
    OBVIOUS
  <2> USE NilAssumption, BoundsAssumption DEF TypeOK, WorkerPc, Handling, Running, Status, Terminal, Request, EventType, table, store, redis,
               request, clients, recovery, counters, worker
  <2>1. ASSUME NEW c \in Client, Create(c) PROVE TypeOK'
    BY <2>1 DEF Create, Holder, Hold
  <2>2. ASSUME NEW c \in Client, LogQueued(c) PROVE TypeOK'
    BY <2>2 DEF LogQueued
  <2>3. ASSUME NEW c \in Client, Resubmit(c) PROVE TypeOK'
    <3>1. PICK r \in Request, j \in Job : Resubmit(c)!(r)!(j)
      BY <2>3 DEF Resubmit, Holder
    <3>2. CASE NeedsDispatch(j)
      <4>1. /\ cpc' = [cpc EXCEPT ![c] = "dispatch"]
            /\ creq' = [creq EXCEPT ![c] = r]
            /\ cjob' = [cjob EXCEPT ![c] = j]
            /\ UNCHANGED <<accepted, store, redis, worker>>
        BY <3>1, <3>2 DEF Hold
      <4>2. QED
        BY <4>1
    <3>3. CASE ~ NeedsDispatch(j)
      BY <3>1, <3>3 DEF Reply
    <3>4. QED
      BY <3>2, <3>3
  <2>4. ASSUME NEW c \in Client, Dispatch(c) PROVE TypeOK'
    BY <2>4 DEF Dispatch, Reply, Hold
  <2>5. ASSUME NEW c \in Client, Abort(c) PROVE TypeOK'
    BY <2>5 DEF Abort, Hold
  <2>6. ASSUME NEW j \in Job, RequestCancel(j) PROVE TypeOK'
    BY <2>6 DEF RequestCancel, Live
  <2>7. CASE Start
    BY <2>7 DEF Start
  <2>8. CASE Reclaim
    BY <2>8 DEF Reclaim
  <2>9. CASE RecoverIncomplete
    BY <2>9 DEF RecoverIncomplete, Interrupted, Kept
  <2>10. ASSUME NEW j \in Job, LogRecovered(j) PROVE TypeOK'
    BY <2>10 DEF LogRecovered
  <2>11. ASSUME NEW j \in Job, Requeue(j) PROVE TypeOK'
    BY <2>11 DEF Requeue
  <2>12. CASE Recovered
    BY <2>12 DEF Recovered
  <2>13. CASE Take
    BY <2>13 DEF Take, Carry
  <2>14. CASE Look
    BY <2>14 DEF Look, CancelUnstarted, Aim
  <2>15. CASE CheckStatus
    BY <2>15 DEF CheckStatus
  <2>16. CASE WriteStatus
    BY <2>16 DEF WriteStatus
  <2>17. CASE LogStatus
    BY <2>17 DEF LogStatus, EventOf
  <2>18. CASE Report
    BY <2>18 DEF Report, Aim
  <2>19. CASE LogProgress
    BY <2>19 DEF LogProgress
  <2>20. CASE CheckProgress
    BY <2>20 DEF CheckProgress, Aim
  <2>21. CASE WriteProgress
    BY <2>21 DEF WriteProgress
  <2>22. CASE HandlerReturns
    BY <2>22 DEF HandlerReturns, Aim, Outcome
  <2>23. CASE HandlerRaises
    BY <2>23 DEF HandlerRaises, Aim
  <2>24. CASE Acknowledge
    BY <2>24 DEF Acknowledge
  <2>25. CASE Crash
    BY <2>25 DEF Crash
  <2>26. CASE DatabaseFault
    BY <2>26 DEF DatabaseFault, Aim
  <2>27. CASE UNCHANGED vars
    BY <2>27 DEF vars
  <2>28. QED
    BY <2>1, <2>2, <2>3, <2>4, <2>5, <2>6, <2>7, <2>8, <2>9, <2>10, <2>11, <2>12, <2>13,
       <2>14, <2>15, <2>16, <2>17, <2>18, <2>19, <2>20, <2>21, <2>22, <2>23, <2>24,
       <2>25, <2>26, <2>27
       DEF Next, ClientStep, WorkerStep, RecoverStep, RunStep
<1>3. QED
  BY <1>1, <1>2, PTL DEF Spec
(* A client step leaves the worker's memory alone; the only status it      *)
(* changes is that of the row it inserts, and it never withdraws a cancel. *)
LEMMA ClientFrame ==
    ASSUME TypeOK, ClientStep
    PROVE  /\ UNCHANGED <<wpc, wjob, goal, unlogged, orphans, processing>>
           /\ cancel \subseteq cancel'
           /\ \A j \in Job : \/ status'[j] = status[j]
                             \/ status[j] = "absent" /\ status'[j] = "queued"
<1> DEFINE Frame == /\ UNCHANGED <<wpc, wjob, goal, unlogged, orphans, processing>>
                    /\ cancel \subseteq cancel'
                    /\ \A j \in Job : \/ status'[j] = status[j]
                                      \/ status[j] = "absent" /\ status'[j] = "queued"
<1> USE DEF TypeOK, table, store, redis, worker, recovery
<1>1. ASSUME NEW c \in Client, Create(c) PROVE Frame
  BY <1>1 DEF Create, Hold, Request
<1>2. ASSUME NEW c \in Client, LogQueued(c) \/ Resubmit(c) \/ Dispatch(c) \/ Abort(c)
      PROVE  Frame
  BY <1>2 DEF LogQueued, Resubmit, Dispatch, Abort
<1>3. ASSUME NEW j \in Job, RequestCancel(j) PROVE Frame
  BY <1>3 DEF RequestCancel
<1>4. QED
  BY <1>1, <1>2, <1>3 DEF ClientStep

(* What the worker read stays true until it writes: with one worker the    *)
(* blind UPDATE of update_status acts on the status its SELECT saw.        *)
LEMMA WorkerKnowsStep ==
    ASSUME TypeOK, WorkerKnows, [Next]_vars
    PROVE  WorkerKnows'
<1> USE NilAssumption DEF TypeOK, WorkerKnows, Running, Handling, Status, Terminal, table,
                          store, recovery
<1>1. CASE ClientStep
  BY <1>1, ClientFrame
<1>2. CASE RecoverStep
  <2>1. CASE Start \/ Reclaim \/ Recovered
    BY <2>1 DEF Start, Reclaim, Recovered
  <2>2. CASE RecoverIncomplete
    BY <2>2 DEF RecoverIncomplete, Interrupted
  <2>3. ASSUME NEW j \in Job, LogRecovered(j) \/ Requeue(j) PROVE WorkerKnows'
    BY <2>3 DEF LogRecovered, Requeue
  <2>4. QED
    BY <1>2, <2>1, <2>2, <2>3 DEF RecoverStep
<1>3. CASE RunStep
  <2>1. CASE Take
    BY <2>1 DEF Take
  <2>2. CASE Look
    BY <2>2 DEF Look, Live, CancelUnstarted, Aim
  <2>3. CASE CheckStatus
    BY <2>3 DEF CheckStatus
  <2>4. CASE WriteStatus
    BY <2>4 DEF WriteStatus
  <2>5. CASE LogStatus
    BY <2>5 DEF LogStatus
  <2>6. CASE Report
    BY <2>6 DEF Report, Aim
  <2>7. CASE LogProgress
    BY <2>7 DEF LogProgress
  <2>8. CASE CheckProgress
    BY <2>8 DEF CheckProgress, Aim
  <2>9. CASE WriteProgress
    BY <2>9 DEF WriteProgress
  <2>10. CASE HandlerReturns
    BY <2>10 DEF HandlerReturns, Aim, Outcome
  <2>11. CASE HandlerRaises
    BY <2>11 DEF HandlerRaises, Aim
  <2>12. CASE Acknowledge
    BY <2>12 DEF Acknowledge
  <2>13. QED
    BY <1>3, <2>1, <2>2, <2>3, <2>4, <2>5, <2>6, <2>7, <2>8, <2>9, <2>10, <2>11, <2>12
       DEF RunStep
<1>4. CASE Crash
  BY <1>4 DEF Crash
<1>5. CASE DatabaseFault
  BY <1>5 DEF DatabaseFault, Aim
<1>6. CASE UNCHANGED vars
  BY <1>6 DEF vars
<1>7. QED
  BY <1>1, <1>2, <1>3, <1>4, <1>5, <1>6 DEF Next, WorkerStep

(* The worker never touches a binding, a request or a reply, and neither   *)
(* creates nor deletes a row.                                              *)
LEMMA WorkerFrame ==
    ASSUME TypeOK, WorkerKnows, WorkerStep \/ Crash \/ DatabaseFault
    PROVE  /\ UNCHANGED <<keyOf, bodyOf, cpc, creq, cjob, accepted, marker>>
           /\ \A j \in Job : status'[j] = "absent" <=> status[j] = "absent"
<1> DEFINE Frame == /\ UNCHANGED <<keyOf, bodyOf, cpc, creq, cjob, accepted, marker>>
                    /\ \A j \in Job : status'[j] = "absent" <=> status[j] = "absent"
<1> USE NilAssumption DEF TypeOK, store, table, clients, request, redis
<1>1. CASE RecoverStep
  BY <1>1 DEF RecoverStep, Start, Reclaim, RecoverIncomplete, Interrupted, LogRecovered,
              Requeue, Recovered
<1>2. CASE WriteStatus
  BY <1>2 DEF WriteStatus, WorkerKnows, Running, Status, Terminal
<1>3. CASE WriteProgress
  BY <1>3 DEF WriteProgress, WorkerKnows, Running, Handling
<1>4. CASE \/ Take \/ Look \/ CheckStatus \/ LogStatus \/ Report \/ LogProgress
           \/ CheckProgress \/ HandlerReturns \/ HandlerRaises \/ Acknowledge
           \/ Crash \/ DatabaseFault
  BY <1>4 DEF Take, Look, CheckStatus, LogStatus, Report, LogProgress, CheckProgress,
              HandlerReturns, HandlerRaises, Acknowledge, Crash, DatabaseFault
<1>5. QED
  BY <1>1, <1>2, <1>3, <1>4 DEF WorkerStep, RunStep
(* A key is bound once: the insert is refused while any row holds the key, *)
(* and requests and replies only repeat bindings.                          *)
LEMMA KeysBoundStep ==
    ASSUME TypeOK, WorkerKnows, KeysBound, [Next]_vars
    PROVE  KeysBound'
<1> USE NilAssumption DEF TypeOK, KeysBound, Request, table, store, worker, request
<1>1. ASSUME NEW c \in Client, Create(c) PROVE KeysBound'
  <2>1. PICK r \in Request :
          /\ cpc[c] = "idle" /\ status[r.id] = "absent"
          /\ \A j \in Job : keyOf[j] # r.key
          /\ status' = [status EXCEPT ![r.id] = "queued"]
          /\ keyOf' = [keyOf EXCEPT ![r.id] = r.key]
          /\ bodyOf' = [bodyOf EXCEPT ![r.id] = r.body]
          /\ cpc' = [cpc EXCEPT ![c] = "log_queued"]
          /\ creq' = [creq EXCEPT ![c] = r]
          /\ cjob' = [cjob EXCEPT ![c] = r.id]
          /\ accepted' = accepted
    BY <1>1 DEF Create, Holder, Hold
  <2>2. r.id \in Job /\ r.key \in Key /\ r.body \in Body /\ keyOf[r.id] = Nil
    BY <2>1
  <2>3. \A j \in Job : status'[j] = "absent" <=> keyOf'[j] = Nil
    BY <2>1, <2>2
  <2>4. \A i, j \in Job : keyOf'[i] = keyOf'[j] => i = j \/ keyOf'[i] = Nil
    BY <2>1, <2>2
  <2>5. \A d \in Client : cpc'[d] # "idle" =>
          keyOf'[cjob'[d]] = creq'[d].key /\ bodyOf'[cjob'[d]] = creq'[d].body
    <3>1. ASSUME NEW d \in Client, d # c, cpc[d] # "idle"
          PROVE  cjob[d] \in Job /\ creq[d] \in Request /\ cjob[d] # r.id
      BY <3>1, <2>2
    <3>2. QED
      BY <2>1, <2>2, <3>1
  <2>6. \A a \in accepted' : keyOf'[a.job] = a.key /\ bodyOf'[a.job] = a.body
    <3>1. ASSUME NEW a \in accepted PROVE a.job \in Job /\ a.job # r.id
      BY <2>2
    <3>2. QED
      BY <2>1, <3>1
  <2>7. QED
    BY <2>3, <2>4, <2>5, <2>6
<1>2. ASSUME NEW c \in Client, LogQueued(c) PROVE KeysBound'
  BY <1>2 DEF LogQueued
<1>3. ASSUME NEW c \in Client, Resubmit(c) PROVE KeysBound'
  <2>1. PICK r \in Request, j \in Job :
          /\ keyOf[j] = r.key /\ bodyOf[j] = r.body
          /\ UNCHANGED <<status, keyOf, bodyOf>>
          /\ \/ /\ cpc' = [cpc EXCEPT ![c] = "dispatch"]
                /\ creq' = [creq EXCEPT ![c] = r]
                /\ cjob' = [cjob EXCEPT ![c] = j]
                /\ accepted' = accepted
             \/ /\ UNCHANGED <<cpc, creq, cjob>>
                /\ accepted' = accepted \cup {[key |-> r.key, body |-> r.body, job |-> j]}
    BY <1>3, ZenonT(60) DEF Resubmit, Holder, SameJob, Hold, Reply
  <2>2. \A d \in Client : cpc'[d] # "idle" =>
          keyOf'[cjob'[d]] = creq'[d].key /\ bodyOf'[cjob'[d]] = creq'[d].body
    BY <2>1, SMTT(30)
  <2>3. \A a \in accepted' : keyOf'[a.job] = a.key /\ bodyOf'[a.job] = a.body
    BY <2>1
  <2>4. QED
    BY <2>1, <2>2, <2>3
<1>4. ASSUME NEW c \in Client, Dispatch(c) PROVE KeysBound'
  <2>1. /\ UNCHANGED <<status, keyOf, bodyOf>>
        /\ cpc' = [cpc EXCEPT ![c] = "idle"]
        /\ creq' = [creq EXCEPT ![c] = Nil]
        /\ cjob' = [cjob EXCEPT ![c] = Nil]
    BY <1>4 DEF Dispatch, Hold
  <2>2. \A a \in accepted' : keyOf'[a.job] = a.key /\ bodyOf'[a.job] = a.body
    <3>1. /\ keyOf[cjob[c]] = creq[c].key /\ bodyOf[cjob[c]] = creq[c].body
          /\ accepted' = accepted \cup
                {[key |-> creq[c].key, body |-> creq[c].body, job |-> cjob[c]]}
      BY <1>4 DEF Dispatch, Reply
    <3>2. QED
      BY <2>1, <3>1
  <2>3. \A d \in Client : cpc'[d] # "idle" =>
          keyOf'[cjob'[d]] = creq'[d].key /\ bodyOf'[cjob'[d]] = creq'[d].body
    BY <2>1
  <2>4. QED
    BY <2>1, <2>2, <2>3
<1>5. ASSUME NEW c \in Client, Abort(c) PROVE KeysBound'
  BY <1>5 DEF Abort, Hold
<1>6. ASSUME NEW j \in Job, RequestCancel(j) PROVE KeysBound'
  BY <1>6 DEF RequestCancel, clients
<1>7. CASE WorkerStep \/ Crash \/ DatabaseFault
  BY <1>7, WorkerFrame
<1>8. CASE UNCHANGED vars
  BY <1>8 DEF vars
<1>9. QED
  BY <1>1, <1>2, <1>3, <1>4, <1>5, <1>6, <1>7, <1>8 DEF Next, ClientStep

(* A status changes only for a live row, so a closed job stays as its      *)
(* closing event says.                                                     *)
LEMMA StatusChangesWhileLive ==
    ASSUME TypeOK, WorkerKnows, [Next]_vars, NEW j \in Job
    PROVE  status'[j] = status[j] \/ status[j] \in {"absent", "queued", "running"}
<1> USE NilAssumption DEF TypeOK, WorkerKnows, Running, Handling, store, table
<1>1. CASE ClientStep
  BY <1>1, ClientFrame
<1>2. CASE RecoverStep
  BY <1>2 DEF RecoverStep, Start, Reclaim, RecoverIncomplete, Interrupted, LogRecovered,
              Requeue, Recovered
<1>3. CASE WriteStatus \/ WriteProgress
  BY <1>3 DEF WriteStatus, WriteProgress
<1>4. CASE \/ Take \/ Look \/ CheckStatus \/ LogStatus \/ Report \/ LogProgress
           \/ CheckProgress \/ HandlerReturns \/ HandlerRaises \/ Acknowledge
           \/ Crash \/ DatabaseFault \/ UNCHANGED vars
  BY <1>4 DEF Take, Look, CheckStatus, LogStatus, Report, LogProgress, CheckProgress,
              HandlerReturns, HandlerRaises, Acknowledge, Crash, DatabaseFault, vars
<1>5. QED
  BY <1>1, <1>2, <1>3, <1>4 DEF Next, WorkerStep, RunStep

(* The events a step adds: a queued event of a creator, the recovered      *)
(* event of a job that waits again, a worker's event on its own live job,  *)
(* or the event that goes with the status just written.                    *)
LEMMA NewEvents ==
    ASSUME TypeOK, WorkerKnows, [Next]_vars,
           NEW j \in Job, NEW t \in EventType, <<j, t>> \in events' \ events
    PROVE  \/ t = "queued"
           \/ t = "recovered" /\ status[j] = "queued"
           \/ t \in {"started", "progress"} /\ status[j] = "running"
           \/ <<t, status[j]>> \in ClosingEvent /\ status' = status
<1> USE NilAssumption DEF TypeOK, WorkerKnows, Running, Handling, store, table
<1>1. CASE ClientStep
  <2>1. ASSUME NEW c \in Client, LogQueued(c) PROVE t = "queued"
    BY <2>1 DEF LogQueued
  <2>2. ASSUME NEW c \in Client, Create(c) \/ Resubmit(c) \/ Dispatch(c) \/ Abort(c)
        PROVE  FALSE
    BY <2>2 DEF Create, Resubmit, Dispatch, Abort
  <2>3. ASSUME NEW i \in Job, RequestCancel(i) PROVE FALSE
    BY <2>3 DEF RequestCancel
  <2>4. QED
    BY <1>1, <2>1, <2>2, <2>3 DEF ClientStep
<1>2. ASSUME NEW i \in Job, LogRecovered(i) PROVE t = "recovered" /\ status[j] = "queued"
  BY <1>2 DEF LogRecovered
<1>3. CASE LogStatus
  BY <1>3 DEF LogStatus, EventOf, ClosingEvent, Status, Terminal
<1>4. CASE LogProgress
  BY <1>4 DEF LogProgress
<1>5. ASSUME NEW i \in Job, Requeue(i) PROVE FALSE
  BY <1>5 DEF Requeue
<1>6. CASE \/ Start \/ Reclaim \/ RecoverIncomplete \/ Recovered \/ Take \/ Look
           \/ CheckStatus \/ WriteStatus \/ Report \/ CheckProgress \/ WriteProgress
           \/ HandlerReturns \/ HandlerRaises \/ Acknowledge
           \/ Crash \/ DatabaseFault \/ UNCHANGED vars
  BY <1>6 DEF Start, Reclaim, RecoverIncomplete, Recovered, Take, Look, CheckStatus,
              WriteStatus, Report, CheckProgress, WriteProgress, HandlerReturns,
              HandlerRaises, Acknowledge, Crash, DatabaseFault, vars
<1>7. QED
  BY <1>1, <1>2, <1>3, <1>4, <1>5, <1>6 DEF Next, WorkerStep, RecoverStep, RunStep

(* Closing events and rows agree: an event is appended only for the status *)
(* the row has, and no later step moves a closed row.                      *)
LEMMA EventsMatchStep ==
    ASSUME TypeOK, WorkerKnows, EventsMatchStatus, [Next]_vars
    PROVE  EventsMatchStatus'
<1> SUFFICES ASSUME NEW j \in Job, NEW e \in ClosingEvent, <<j, e[1]>> \in events'
             PROVE  status'[j] = e[2]
  BY DEF EventsMatchStatus
<1>1. e[1] \in EventType /\ e[1] \in {"completed", "failed", "cancelled"}
      /\ e[2] \in {"succeeded", "failed", "cancelled"}
  BY DEF ClosingEvent, EventType
<1>2. CASE <<j, e[1]>> \in events
  BY <1>1, <1>2, StatusChangesWhileLive DEF EventsMatchStatus
<1>3. CASE <<j, e[1]>> \notin events
  <2>1. <<e[1], status[j]>> \in ClosingEvent /\ status' = status
    BY <1>1, <1>3, NewEvents
  <2>2. QED
    BY <2>1 DEF ClosingEvent
<1>4. QED
  BY <1>2, <1>3
(* No job reaches a list, the worker or a started status before its marker *)
(* is set, and no reply says so before.                                    *)
LEMMA DispatchedFirstStep ==
    ASSUME TypeOK, WorkerKnows, KeysBound, DispatchedFirst, [Next]_vars
    PROVE  DispatchedFirst'
<1> USE NilAssumption DEF TypeOK, DispatchedFirst, AcceptedIsDispatched, table, store,
                          worker, request, clients, redis, recovery, counters
<1>1. ASSUME NEW c \in Client, Create(c) PROVE DispatchedFirst'
  BY <1>1 DEF Create, Hold, Request
<1>2. ASSUME NEW c \in Client, LogQueued(c) PROVE DispatchedFirst'
  BY <1>2 DEF LogQueued
<1>3. ASSUME NEW c \in Client, Resubmit(c) PROVE DispatchedFirst'
  <2>1. PICK r \in Request, j \in Job :
          /\ keyOf[j] = r.key
          /\ UNCHANGED <<status, queue, processing, marker, wjob, orphans>>
          /\ \/ accepted' = accepted
             \/ /\ status[j] # "queued"
                /\ accepted' = accepted \cup {[key |-> r.key, body |-> r.body, job |-> j]}
    BY <1>3 DEF Resubmit, Holder, Hold, Reply, NeedsDispatch
  <2>2. r.key # Nil
    BY DEF Request
  <2>3. status[j] # "absent"
    BY <2>1, <2>2 DEF KeysBound
  <2>4. \A a \in accepted' : a.job \in marker'
    BY <2>1, <2>3
  <2>5. QED
    BY <2>1, <2>4
<1>4. ASSUME NEW c \in Client, Dispatch(c) PROVE DispatchedFirst'
  <2>1. /\ cjob[c] \in Job
        /\ marker' = marker \cup {cjob[c]}
        /\ queue' = IF cjob[c] \in marker THEN queue ELSE Append(queue, cjob[c])
        /\ accepted' = accepted \cup
              {[key |-> creq[c].key, body |-> creq[c].body, job |-> cjob[c]]}
        /\ UNCHANGED <<status, processing, wjob, orphans>>
    BY <1>4 DEF Dispatch, Reply
  <2>2. \A i \in DOMAIN queue' : queue'[i] \in marker'
    BY <2>1
  <2>3. QED
    BY <2>1, <2>2
<1>5. ASSUME NEW c \in Client, Abort(c) PROVE DispatchedFirst'
  BY <1>5 DEF Abort, Hold
<1>6. ASSUME NEW j \in Job, RequestCancel(j) PROVE DispatchedFirst'
  BY <1>6 DEF RequestCancel
<1>7. CASE Start \/ Recovered
  BY <1>7 DEF Start, Recovered
<1>8. CASE Reclaim
  BY <1>8 DEF Reclaim
<1>9. CASE RecoverIncomplete
  BY <1>9 DEF RecoverIncomplete, Interrupted
<1>10. ASSUME NEW j \in Job, LogRecovered(j) PROVE DispatchedFirst'
  BY <1>10 DEF LogRecovered
<1>11. ASSUME NEW j \in Job, Requeue(j) PROVE DispatchedFirst'
  BY <1>11 DEF Requeue, Messageless
<1>12. CASE Take
  <2>1. Head(queue) \in Job /\ Head(queue) \in marker
    BY <1>12 DEF Take
  <2>2. \A i \in DOMAIN queue' : queue'[i] \in marker
    BY <1>12, SMTT(30) DEF Take
  <2>3. QED
    BY <1>12, <2>1, <2>2 DEF Take, Carry
<1>13. CASE WriteStatus \/ WriteProgress
  BY <1>13, SMTT(30) DEF WriteStatus, WriteProgress, Running, Handling
<1>14. CASE Acknowledge
  BY <1>14 DEF Acknowledge, Running, Handling
<1>15. CASE \/ Look \/ CheckStatus \/ LogStatus \/ Report \/ LogProgress
            \/ CheckProgress \/ HandlerReturns \/ HandlerRaises
  BY <1>15 DEF Look, CheckStatus, LogStatus, Report, LogProgress, CheckProgress,
               HandlerReturns, HandlerRaises
<1>16. CASE Crash \/ DatabaseFault
  BY <1>16 DEF Crash, DatabaseFault
<1>17. CASE UNCHANGED vars
  BY <1>17 DEF vars
<1>18. QED
  BY <1>1, <1>2, <1>3, <1>4, <1>5, <1>6, <1>7, <1>8, <1>9, <1>10, <1>11, <1>12, <1>13,
     <1>14, <1>15, <1>16, <1>17
     DEF Next, ClientStep, WorkerStep, RecoverStep, RunStep

(* The store, the requests and the worker's memory agree in every          *)
(* reachable state: the strengthening that the theorems below rest on.     *)
THEOREM StoreConsistent == Spec => []Consistent
<1>1. Init => Consistent
  BY NilAssumption
     DEF Init, Consistent, KeysBound, WorkerKnows, EventsMatchStatus, DispatchedFirst,
         AcceptedIsDispatched, Handling
<1>2. TypeOK /\ Consistent /\ [Next]_vars => Consistent'
  BY KeysBoundStep, WorkerKnowsStep, EventsMatchStep, DispatchedFirstStep DEF Consistent
<1>3. QED
  BY <1>1, <1>2, TypeCorrect, PTL DEF Spec

(* Closing events never contradict rows (update_status and append_event    *)
(* are two transactions).                                                  *)
THEOREM EventsMatch == Spec => []EventsMatchStatus
BY StoreConsistent, PTL DEF Consistent

(* No 202 is sent for a job that was never pushed (JobDispatcher.submit).  *)
THEOREM RepliesAreDispatched == Spec => []AcceptedIsDispatched
BY StoreConsistent, PTL DEF Consistent, DispatchedFirst

(* Any number of racing requests with one key are answered with one job,   *)
(* the one that holds what they asked for (create_or_get).                 *)
THEOREM OneJobPerKey == Spec => []RepliesAgree
<1>1. TypeOK /\ Consistent => RepliesAgree
  <2> SUFFICES ASSUME TypeOK, Consistent PROVE RepliesAgree
    OBVIOUS
  <2>1. \A a \in accepted : keyOf[a.job] = a.key /\ bodyOf[a.job] = a.body
    BY DEF Consistent, KeysBound
  <2>2. ASSUME NEW a \in accepted, NEW b \in accepted, a.key = b.key PROVE a = b
    <3>1. a.job = b.job
      BY <2>1, <2>2, NilAssumption DEF TypeOK, Consistent, KeysBound
    <3>2. QED
      BY <2>1, <2>2, <3>1 DEF TypeOK
  <2>3. QED
    BY <2>1, <2>2 DEF RepliesAgree
<1>2. QED
  BY <1>1, TypeCorrect, StoreConsistent, PTL

(* Append keeps every element where it is and adds one at the end.         *)
LEMMA AppendHolds ==
    ASSUME NEW q \in Seq(Job), NEW x \in Job
    PROVE  /\ \A i \in DOMAIN q : i \in DOMAIN Append(q, x) /\ Append(q, x)[i] = q[i]
           /\ Len(q) + 1 \in DOMAIN Append(q, x) /\ Append(q, x)[Len(q) + 1] = x
OBVIOUS

(* A push leaves every message in the queue.                              *)
LEMMA AppendKeeps ==
    ASSUME TypeOK, NEW x \in Job, queue' = Append(queue, x)
    PROVE  InQueue(x)' /\ \A j \in Job : InQueue(j) => InQueue(j)'
<1>1. queue \in Seq(Job)
  BY DEF TypeOK
<1>2. QED
  BY <1>1, AppendHolds DEF InQueue

(* What either list holds counts as a message, and no more than that does. *)
LEMMA MessagesCount ==
    ASSUME TypeOK, NEW j \in Job, processing[j] > 0 \/ InQueue(j)
    PROVE  Messages(j) > 0
<1> DEFINE At == {i \in DOMAIN queue : queue[i] = j}
<1>0. queue \in Seq(Job) /\ Len(queue) \in Nat /\ DOMAIN queue = 1 .. Len(queue)
  BY DEF TypeOK
<1>1. IsFiniteSet(1 .. Len(queue)) /\ At \subseteq 1 .. Len(queue)
  BY <1>0, FS_Interval
<1>2. IsFiniteSet(At) /\ Cardinality(At) \in Nat
  BY <1>1, FS_Subset, FS_CardinalityType
<1>3. At # {} => Cardinality(At) > 0
  BY <1>2, FS_EmptySet
<1>4. InQueue(j) => At # {}
  BY DEF InQueue
<1>5. Messages(j) = processing[j] + Cardinality(At)
  BY DEF Messages
<1> HIDE DEF At
<1>6. processing[j] \in Nat
  BY DEF TypeOK
<1>7. QED
  BY <1>2, <1>3, <1>4, <1>5, <1>6

(* A list only loses the messages the worker takes over or is done with.   *)
LEMMA MessageKeptStep ==
    ASSUME TypeOK, KeysBound, WorkerKnows, DispatchedFirst, MessageKept, [Next]_vars
    PROVE  MessageKept'
<1> USE NilAssumption DEF TypeOK, MessageKept, Live, InQueue, Terminal, table, store, worker,
                          request, clients, redis, recovery, counters
<1>1. ASSUME NEW c \in Client, Create(c) PROVE MessageKept'
  <2>1. PICK r \in Request : /\ status[r.id] = "absent"
                             /\ status' = [status EXCEPT ![r.id] = "queued"]
    BY <1>1 DEF Create
  <2>2. UNCHANGED <<queue, processing, marker, wpc, wjob, faults>>
    BY <1>1 DEF Create
  <2>3. r.id \notin marker /\ (wjob = Nil \/ wjob # r.id)
    BY <2>1 DEF DispatchedFirst
  <2>4. \A j \in Job \ {r.id} : status'[j] = status[j]
    BY <2>1
  <2>5. wpc \in {"ack", "unwind"} => wjob \in Job
    BY DEF Running
  <2>6. QED
    BY <2>2, <2>3, <2>4, <2>5, ZenonT(60)
<1>2. ASSUME NEW c \in Client, LogQueued(c) \/ Abort(c) PROVE MessageKept'
  BY <1>2 DEF LogQueued, Abort
<1>3. ASSUME NEW c \in Client, Resubmit(c) PROVE MessageKept'
  BY <1>3 DEF Resubmit
<1>4. ASSUME NEW c \in Client, Dispatch(c) PROVE MessageKept'
  <2>1. PICK d \in Job :
        /\ cjob[c] = d
        /\ marker' = marker \cup {d}
        /\ queue' = IF d \in marker THEN queue ELSE Append(queue, d)
        /\ UNCHANGED <<status, processing, wpc, wjob, faults>>
    BY <1>4 DEF Dispatch
  <2>2. status[d] # "absent"
    <3>1. keyOf[cjob[c]] = creq[c].key /\ creq[c].key # Nil
      BY <1>4 DEF Dispatch, KeysBound, Request
    <3>2. QED
      BY <2>1, <3>1 DEF KeysBound
  <2>3. \A j \in Job : InQueue(j) => InQueue(j)'
    BY <2>1, AppendKeeps
  <2>4. ASSUME d \notin marker PROVE InQueue(d)'
    <3>1. queue' = Append(queue, d)
      BY <2>1, <2>4
    <3>2. QED
      BY <2>1, <3>1, AppendKeeps
  <2> HIDE DEF InQueue
  <2>5. ASSUME faults = 0, NEW j \in marker', Live(j)'
        PROVE  processing'[j] > 0 \/ InQueue(j)'
    <3>1. CASE j = d /\ j \notin marker
      BY <2>4, <3>1
    <3>2. CASE j \in marker
      BY <2>1, <2>3, <2>5, <3>2
    <3>3. QED
      BY <2>1, <3>1, <3>2
  <2>6. QED
    BY <2>1, <2>2, <2>5
<1>5. ASSUME NEW j \in Job, RequestCancel(j) PROVE MessageKept'
  BY <1>5 DEF RequestCancel
<1>6. CASE Start \/ Recovered
  BY <1>6 DEF Start, Recovered
<1>7. CASE Reclaim
  <2>1. PICK j \in Job : /\ processing' = [processing EXCEPT ![j] = @ - 1]
                         /\ queue' = Append(queue, j)
    BY <1>7 DEF Reclaim
  <2>2. UNCHANGED <<status, marker, wpc, wjob, faults>>
    BY <1>7 DEF Reclaim
  <2>3. InQueue(j)' /\ \A i \in Job : InQueue(i) => InQueue(i)'
    BY <2>1, AppendKeeps
  <2>5. \A i \in Job \ {j} : processing'[i] = processing[i]
    BY <2>1
  <2> HIDE DEF InQueue
  <2>6. QED
    BY <2>2, <2>3, <2>5
<1>8. CASE RecoverIncomplete
  BY <1>8 DEF RecoverIncomplete, Interrupted
<1>9. ASSUME NEW j \in Job, LogRecovered(j) PROVE MessageKept'
  BY <1>9 DEF LogRecovered
<1>10. ASSUME NEW j \in Job, Requeue(j) PROVE MessageKept'
  <2>1. queue' = Append(queue, j) /\ UNCHANGED <<status, processing, marker, wpc, wjob, faults>>
    BY <1>10 DEF Requeue
  <2>2. \A i \in Job : InQueue(i) => InQueue(i)'
    BY <2>1, AppendKeeps
  <2> HIDE DEF InQueue
  <2>3. QED
    BY <2>1, <2>2
<1>11. CASE Take
  <2>1. /\ queue # <<>> /\ wpc' = "look"
        /\ queue' = Tail(queue)
        /\ processing' = [processing EXCEPT ![Head(queue)] = @ + 1]
        /\ UNCHANGED <<status, marker, faults>>
    BY <1>11 DEF Take, Carry
  <2>2. Head(queue) \in Job
    BY <2>1
  <2>3. \A i \in Job : processing'[i] >= processing[i]
    BY <2>1, <2>2
  <2>4. processing'[Head(queue)] > 0
    BY <2>1, <2>2
  <2>5. ASSUME NEW i \in Job, InQueue(i), i # Head(queue) PROVE InQueue(i)'
    <3>1. PICK n \in DOMAIN queue : queue[n] = i
      BY <2>5
    <3>2. n # 1 /\ n - 1 \in DOMAIN queue' /\ queue'[n - 1] = i
      BY <2>1, <2>5, <3>1, SMTT(30)
    <3>3. QED
      BY <3>2
  <2> HIDE DEF InQueue
  <2>6. QED
    BY <2>1, <2>3, <2>4, <2>5
<1>12. CASE Look \/ CheckStatus
  BY <1>12 DEF Look, CheckStatus, CancelUnstarted, Aim
<1>13. CASE WriteStatus \/ WriteProgress
  <2>1. /\ wjob \in Job /\ Live(wjob) /\ status'[wjob] # "absent"
        /\ \A i \in Job \ {wjob} : status'[i] = status[i]
        /\ wpc' \in {"log", "handle"}
        /\ UNCHANGED <<queue, processing, marker, faults>>
    BY <1>13 DEF WriteStatus, WriteProgress, WorkerKnows, Running, Handling, Status
  <2> HIDE DEF InQueue
  <2>2. \A i \in Job : InQueue(i)' <=> InQueue(i)
    BY <2>1 DEF InQueue
  <2>3. QED
    BY <2>1, <2>2
<1>14. CASE LogStatus
  BY <1>14 DEF LogStatus, WorkerKnows, Status
<1>15. CASE Report \/ LogProgress \/ CheckProgress \/ HandlerReturns \/ HandlerRaises
  BY <1>15 DEF Report, LogProgress, CheckProgress, HandlerReturns, HandlerRaises, Aim
<1>16. CASE Acknowledge
  <2>1. /\ \A i \in Job \ {wjob} : processing'[i] = processing[i]
        /\ UNCHANGED <<status, queue, marker, faults>>
        /\ wpc' \in {"idle", "down"}
        /\ wpc \in {"ack", "unwind"}
    BY <1>16 DEF Acknowledge
  <2>2. QED
    BY <2>1
<1>17. CASE Crash
  BY <1>17 DEF Crash
<1>18. CASE DatabaseFault
  BY <1>18 DEF DatabaseFault
<1>19. CASE UNCHANGED vars
  BY <1>19 DEF vars
<1>20. QED
  BY <1>1, <1>2, <1>3, <1>4, <1>5, <1>6, <1>7, <1>8, <1>9, <1>10, <1>11, <1>12, <1>13,
     <1>14, <1>15, <1>16, <1>17, <1>18, <1>19
     DEF Next, ClientStep, WorkerStep, RecoverStep, RunStep

(* Crashes strand no job, however many there are and wherever they fall    *)
(* (JobDispatcher.submit, JobWorker.run_once and recover).                 *)
THEOREM NoJobIsStranded == Spec => []CrashesStrandNoJob
<1>1. Init => MessageKept
  BY DEF Init, MessageKept
<1>2. TypeOK /\ Consistent /\ MessageKept /\ [Next]_vars => MessageKept'
  BY MessageKeptStep DEF Consistent
<1>3. TypeOK /\ MessageKept => CrashesStrandNoJob
  <2> SUFFICES ASSUME TypeOK, MessageKept, faults = 0, NEW j \in marker, Live(j)
               PROVE  Messages(j) > 0
    BY DEF CrashesStrandNoJob
  <2>1. j \in Job
    BY DEF TypeOK
  <2>2. QED
    BY <2>1, MessagesCount DEF MessageKept
<1>4. QED
  BY <1>1, <1>2, <1>3, TypeCorrect, StoreConsistent, PTL DEF Spec
(* A job that has ended keeps its status, and no late step adds to its     *)
(* history, whatever crashes and restarts lie between.                     *)
THEOREM EndedJobsStay == Spec => TerminalIsFinal
<1> DEFINE A == \A j \in Job : status[j] \in {"succeeded", "failed", "cancelled"} =>
                  /\ status'[j] = status[j]
                  /\ \A t \in EventType : <<j, t>> \in events' \ events =>
                        t = "queued" \/ <<t, status[j]>> \in ClosingEvent
<1>1. TypeOK /\ Consistent /\ [Next]_vars => [A]_vars
  <2> SUFFICES ASSUME TypeOK, WorkerKnows, [Next]_vars,
                      NEW j \in Job, status[j] \in {"succeeded", "failed", "cancelled"}
               PROVE  /\ status'[j] = status[j]
                      /\ \A t \in EventType : <<j, t>> \in events' \ events =>
                            t = "queued" \/ <<t, status[j]>> \in ClosingEvent
    BY DEF Consistent
  <2>1. status'[j] = status[j]
    BY StatusChangesWhileLive
  <2>2. ASSUME NEW t \in EventType, <<j, t>> \in events' \ events
        PROVE  t = "queued" \/ <<t, status[j]>> \in ClosingEvent
    BY <2>2, NewEvents
  <2>3. QED
    BY <2>1, <2>2
<1>2. QED
  BY <1>1, TypeCorrect, StoreConsistent, PTL DEF Spec, TerminalIsFinal
(* Of a job whose cancellation was asked for in time, the worker aims at    *)
(* nothing but its end without success.                                    *)
Doomed(j) ==
    /\ j \in cancel /\ status[j] \notin {"succeeded", "absent"}
    /\ wjob = j /\ wpc \in {"check", "write", "log"} => goal \in {"cancelled", "failed"}

LEMMA DoomedStays ==
    ASSUME TypeOK, NEW j \in Job, Doomed(j), [Next]_vars
    PROVE  Doomed(j)'
<1> USE NilAssumption DEF TypeOK, Doomed, table, store, recovery
<1>1. CASE ClientStep
  BY <1>1, ClientFrame
<1>2. CASE RecoverStep
  <2>1. CASE Start \/ Reclaim \/ Recovered
    BY <2>1 DEF Start, Reclaim, Recovered
  <2>2. CASE RecoverIncomplete
    BY <2>2 DEF RecoverIncomplete, Interrupted, Kept
  <2>3. ASSUME NEW i \in Job, LogRecovered(i) \/ Requeue(i) PROVE Doomed(j)'
    BY <2>3 DEF LogRecovered, Requeue
  <2>4. QED
    BY <1>2, <2>1, <2>2, <2>3 DEF RecoverStep
<1>3. CASE RunStep
  <2>1. CASE Take \/ LogStatus \/ LogProgress \/ Acknowledge
    BY <2>1 DEF Take, LogStatus, LogProgress, Acknowledge
  <2>2. CASE Look
    BY <2>2 DEF Look, CancelUnstarted, Aim
  <2>3. CASE CheckStatus
    BY <2>3 DEF CheckStatus
  <2>4. CASE WriteStatus
    BY <2>4 DEF WriteStatus
  <2>5. CASE Report
    BY <2>5 DEF Report, Aim
  <2>6. CASE CheckProgress
    BY <2>6 DEF CheckProgress, Aim
  <2>7. CASE WriteProgress
    BY <2>7 DEF WriteProgress
  <2>8. CASE HandlerReturns \/ HandlerRaises
    BY <2>8 DEF HandlerReturns, HandlerRaises, Outcome, Aim
  <2>9. QED
    BY <1>3, <2>1, <2>2, <2>3, <2>4, <2>5, <2>6, <2>7, <2>8 DEF RunStep
<1>4. CASE Crash
  BY <1>4 DEF Crash
<1>5. CASE DatabaseFault
  BY <1>5 DEF DatabaseFault, Aim
<1>6. CASE UNCHANGED vars
  BY <1>6 DEF vars
<1>7. QED
  BY <1>1, <1>2, <1>3, <1>4, <1>5, <1>6 DEF Next, WorkerStep

(* A cancel request that comes before the worker has the job in hand, or   *)
(* while its handler runs, wins for good, over every report, crash,        *)
(* recovery and rerun that follows.                                        *)
THEOREM CancelAlwaysWins == Spec => CancelWins
<1>1. ASSUME NEW j \in Job
      PROVE  Spec => []((Live(j) /\ j \in cancel /\ (wjob # j \/ wpc \in Handling))
                            => [](status[j] # "succeeded"))
  <2>1. Live(j) /\ j \in cancel /\ (wjob # j \/ wpc \in Handling) => Doomed(j)
    BY DEF Live, Terminal, Handling, Doomed
  <2>2. TypeOK /\ Doomed(j) /\ [Next]_vars => Doomed(j)'
    BY DoomedStays
  <2>3. Doomed(j) => status[j] # "succeeded"
    BY DEF Doomed
  <2>4. QED
    BY <2>1, <2>2, <2>3, TypeCorrect, PTL DEF Spec
<1>2. QED
  BY <1>1 DEF CancelWins

(* Each step of the runtime is a step of the abstract service or a stutter. *)
LEMMA LifecycleStep ==
    ASSUME TypeOK, KeysBound, WorkerKnows, [Next]_vars
    PROVE  [Lifecycle!Next]_(Lifecycle!vars)
<1> USE NilAssumption DEF TypeOK, table, store, clients, request, Lifecycle!vars,
                          Lifecycle!binding
<1>1. ASSUME NEW c \in Client, Create(c) PROVE Lifecycle!Bind
  <2>1. PICK r \in Request :
          /\ status[r.id] = "absent"
          /\ \A i \in Job : keyOf[i] # r.key
          /\ status' = [status EXCEPT ![r.id] = "queued"]
          /\ keyOf' = [keyOf EXCEPT ![r.id] = r.key]
          /\ bodyOf' = [bodyOf EXCEPT ![r.id] = r.body]
          /\ UNCHANGED <<cancel, accepted>>
    BY <1>1 DEF Create, Holder
  <2>2. r.id \in Job /\ r.key \in Key /\ r.body \in Body
    BY DEF Request
  <2>3. SUFFICES \E j \in Job, k \in Key, b \in Body :
          /\ status[j] = "absent"
          /\ \A i \in Job : keyOf[i] # k
          /\ status' = [status EXCEPT ![j] = "queued"]
          /\ keyOf' = [keyOf EXCEPT ![j] = k]
          /\ bodyOf' = [bodyOf EXCEPT ![j] = b]
          /\ UNCHANGED <<cancel, accepted>>
    BY DEF Lifecycle!Bind
  <2> USE <2>2
  <2>4. WITNESS r.id \in Job, r.key \in Key, r.body \in Body
  <2>5. QED
    BY <2>1
<1>2. ASSUME NEW c \in Client, LogQueued(c) \/ Abort(c) PROVE UNCHANGED Lifecycle!vars
  BY <1>2 DEF LogQueued, Abort
<1>3. ASSUME NEW c \in Client, Resubmit(c)
      PROVE  Lifecycle!Accept \/ UNCHANGED Lifecycle!vars
  <2>1. PICK r \in Request, j \in Job :
          /\ keyOf[j] = r.key /\ bodyOf[j] = r.body
          /\ UNCHANGED <<status, keyOf, bodyOf, cancel>>
          /\ \/ accepted' = accepted
             \/ accepted' = accepted \cup {[key |-> r.key, body |-> r.body, job |-> j]}
    BY <1>3 DEF Resubmit, Holder, SameJob, Reply
  <2>2. status[j] # "absent"
    BY <2>1 DEF KeysBound, Request
  <2>3. QED
    BY <2>1, <2>2 DEF Lifecycle!Accept
<1>4. ASSUME NEW c \in Client, Dispatch(c) PROVE Lifecycle!Accept
  <2>1. /\ cjob[c] \in Job
        /\ keyOf[cjob[c]] = creq[c].key /\ bodyOf[cjob[c]] = creq[c].body
        /\ creq[c].key # Nil
    BY <1>4 DEF Dispatch, KeysBound, Request
  <2>2. status[cjob[c]] # "absent"
    BY <2>1 DEF KeysBound
  <2>3. QED
    BY <1>4, <2>1, <2>2 DEF Dispatch, Reply, Lifecycle!Accept
<1>5. ASSUME NEW j \in Job, RequestCancel(j) PROVE Lifecycle!RequestCancel(j)
  BY <1>5 DEF RequestCancel, Live, Terminal, Status, Lifecycle!RequestCancel
<1>6. CASE RecoverIncomplete
  <2>1. Lifecycle!Restart
    BY <1>6 DEF RecoverIncomplete, Interrupted, Kept, Lifecycle!Restart
  <2>2. QED
    BY <2>1 DEF Lifecycle!Next
<1>7. CASE WriteStatus
  <2>1. /\ wjob \in Job
        /\ status[wjob] \in {"queued", "running"}
        /\ goal \in {"running", "succeeded", "failed", "cancelled"}
        /\ goal = "cancelled" => wjob \in cancel
        /\ goal = "succeeded" => status[wjob] = "running"
        /\ status' = [status EXCEPT ![wjob] = goal]
        /\ UNCHANGED <<keyOf, bodyOf, cancel, accepted>>
    BY <1>7 DEF WriteStatus, WorkerKnows, Running, Status, Terminal
  <2>2. CASE goal = "running" /\ status[wjob] = "queued"
    BY <2>1, <2>2 DEF Lifecycle!Next, Lifecycle!Begin, Lifecycle!Move
  <2>3. CASE goal = "running" /\ status[wjob] = "running"
    BY <2>1, <2>3
  <2>4. CASE goal = "succeeded"
    BY <2>1, <2>4 DEF Lifecycle!Next, Lifecycle!Succeed, Lifecycle!Move
  <2>5. CASE goal = "failed"
    BY <2>1, <2>5 DEF Lifecycle!Next, Lifecycle!Fail, Lifecycle!Move
  <2>6. CASE goal = "cancelled"
    BY <2>1, <2>6 DEF Lifecycle!Next, Lifecycle!Cancel, Lifecycle!Move
  <2>7. QED
    BY <2>1, <2>2, <2>3, <2>4, <2>5, <2>6
<1>8. CASE WriteProgress
  BY <1>8 DEF WriteProgress, WorkerKnows, Running, Handling
<1>9. CASE Start \/ Reclaim \/ Recovered \/ \E j \in Job : LogRecovered(j) \/ Requeue(j)
  BY <1>9 DEF Start, Reclaim, Recovered, LogRecovered, Requeue
<1>10. CASE \/ Take \/ Look \/ CheckStatus \/ LogStatus \/ Report \/ LogProgress
            \/ CheckProgress \/ HandlerReturns \/ HandlerRaises \/ Acknowledge
            \/ Crash \/ DatabaseFault \/ UNCHANGED vars
  BY <1>10 DEF Take, Look, CheckStatus, LogStatus, Report, LogProgress, CheckProgress,
               HandlerReturns, HandlerRaises, Acknowledge, Crash, DatabaseFault, vars
<1>11. CASE ClientStep
  BY <1>1, <1>2, <1>3, <1>4, <1>5, <1>11 DEF ClientStep, Lifecycle!Next
<1>12. CASE WorkerStep
  BY <1>6, <1>7, <1>8, <1>9, <1>10, <1>12 DEF WorkerStep, RecoverStep, RunStep
<1>13. QED
  BY <1>10, <1>11, <1>12 DEF Next

(* The tables and replies of the runtime implement the abstract service.   *)
THEOREM ImplementsLifecycle == Spec => LifecycleSpec
<1>1. Init => Lifecycle!Init
  BY DEF Init, Lifecycle!Init
<1>2. TypeOK /\ Consistent /\ [Next]_vars => [Lifecycle!Next]_(Lifecycle!vars)
  BY LifecycleStep DEF Consistent
<1>3. QED
  BY <1>1, <1>2, TypeCorrect, StoreConsistent, PTL DEF Spec, LifecycleSpec, Lifecycle!Spec
=============================================================================
