----------------------------- MODULE AgentWorkflow -----------------------------
(***************************************************************************)
(* build-graph-from-evidence: ExtractionGraphWorkflow moves one command    *)
(* through DuckDBMessageBus, orchestrator -> extraction ->                 *)
(* graph_adjudicator -> orchestrator, and publishes a snapshot file.  The  *)
(* process may die between any two statements; later ones find its         *)
(* messages and files.  DuckDB lets one process open the bus at a time.    *)
(***************************************************************************)
EXTENDS Naturals, FiniteSets

CONSTANTS
    Attempt,  \* invocations; as_of_time makes the payloads, so the keys, differ
    Path,     \* snapshot files
    Nobody,
    MaxCrash  \* bound: processes that die

ASSUME AttemptAssumption == Nobody \notin Attempt /\ MaxCrash \in Nat

Kind == {"command", "review", "result", "nothing_validated"}
Message == Kind \X Attempt

VARIABLES
    bus,      \* status of each message
    output,   \* the path each attempt is given (it never changes)
    file,     \* who wrote each snapshot file, and whether all of it
    pc, cur,  \* the running process: the next statement, the attempt in hand
    crashes

build == <<bus, output, file, pc, cur, crashes>>

Sent(k, a) == bus[<<k, a>>] # "absent"
Blank == [by |-> Nobody, whole |-> FALSE]

Goto(l) == pc' = l /\ UNCHANGED <<cur, crashes>>
Exit == pc' = "exit" /\ cur' = Nobody /\ UNCHANGED crashes

Acknowledge(k) == bus' = [bus EXCEPT ![<<k, cur>>] = "acknowledged"]

\* publish writes once by idempotency key; _publish raises on a duplicate.
Publish(k, Then) ==
    IF Sent(k, cur) THEN Exit /\ UNCHANGED bus
    ELSE Then /\ bus' = [bus EXCEPT ![<<k, cur>>] = "pending"]

-----------------------------------------------------------------------------
\* A new invocation of the command.
EnqueueExtraction(a) ==
    /\ pc = "exit" /\ ~ Sent("command", a)
    /\ bus' = [bus EXCEPT ![<<"command", a>>] = "pending"]
    /\ pc' = "extract" /\ cur' = a
    /\ UNCHANGED <<output, file, crashes>>

\* A consumer of the durable inbox, as tests and a later transport use it.
Consume(k, a) ==
    /\ pc = "exit" /\ bus[<<k, a>>] = "pending"
    /\ k \in {"command", "review"}
    /\ pc' = (IF k = "command" THEN "extract" ELSE "adjudicate")
    /\ cur' = a
    /\ UNCHANGED <<bus, output, file, crashes>>

\* process_extraction: the model or the validator may raise.
Extract ==
    /\ pc = "extract"
    /\ Goto("acknowledge_command") \/ Exit
    /\ UNCHANGED <<bus, output, file>>

AcknowledgeCommand ==
    /\ pc = "acknowledge_command" /\ Acknowledge("command") /\ Goto("publish_next")
    /\ UNCHANGED <<output, file>>

\* Some proposals passed validation, or none.
MutPublishNext ==
    /\ pc = "publish_next"
    /\ Publish("review", Goto("adjudicate")) \/ (Exit /\ UNCHANGED bus)
    /\ UNCHANGED <<output, file>>
PublishNext ==
    /\ pc = "publish_next"
    /\ Publish("review", Goto("adjudicate")) \/ Publish("nothing_validated", Exit)
    /\ UNCHANGED <<output, file>>

\* process_graph: publish_new refuses a path that exists, then writes it.
Refuses(p) == file[p].by # Nobody

Adjudicate ==
    /\ pc = "adjudicate"
    /\ ~ Refuses(output[cur])
    /\ file' = [file EXCEPT ![output[cur]] = [by |-> cur, whole |-> FALSE]]
    /\ Goto("write")
    /\ UNCHANGED <<bus, output>>

\* The model call fails, a decision is refused, or the path exists.
AdjudicationFails ==
    /\ pc = "adjudicate"
    /\ Exit /\ UNCHANGED <<bus, output, file>>

MutWrite == pc = "write" /\ Goto("acknowledge_review") /\ UNCHANGED <<bus, output, file>>
Write ==
    /\ pc = "write"
    /\ file' = [file EXCEPT ![output[cur]].whole = TRUE]
    /\ Goto("acknowledge_review")
    /\ UNCHANGED <<bus, output>>

AcknowledgeReview ==
    /\ pc = "acknowledge_review" /\ Acknowledge("review") /\ Goto("publish_result")
    /\ UNCHANGED <<output, file>>

PublishResult ==
    /\ pc = "publish_result" /\ Publish("result", Exit)
    /\ UNCHANGED <<output, file>>

Crash ==
    /\ pc # "exit" /\ crashes < MaxCrash
    /\ crashes' = crashes + 1 /\ pc' = "exit" /\ cur' = Nobody
    /\ UNCHANGED <<bus, output, file>>

-----------------------------------------------------------------------------
BuildInit ==
    /\ bus = [m \in Message |-> "absent"]
    /\ output \in [Attempt -> Path]
    /\ file = [p \in Path |-> Blank]
    /\ pc = "exit" /\ cur = Nobody /\ crashes = 0

BuildNext ==
    \/ \E a \in Attempt : EnqueueExtraction(a) \/ \E k \in Kind : Consume(k, a)
    \/ Extract \/ AcknowledgeCommand \/ PublishNext
    \/ Adjudicate \/ AdjudicationFails \/ Write \/ AcknowledgeReview \/ PublishResult
    \/ Crash

BuildSpec == BuildInit /\ [][BuildNext]_build

-----------------------------------------------------------------------------
(* A review that was acknowledged left a complete snapshot of its own, and *)
(* so did one whose result was reported: process_graph acknowledges after  *)
(* publication, and no other attempt replaces the file.                    *)
ReviewedIsPublished ==
    \A a \in Attempt :
        bus[<<"review", a>>] = "acknowledged" \/ Sent("result", a)
            => file[output[a]] = [by |-> a, whole |-> TRUE]

(* ADR 0004: "The consumer acknowledges an input only after it has         *)
(* successfully created its next message".  process_extraction does it the *)
(* other way round, so a crash can lose a command; nothing else can: one   *)
(* that is acknowledged and in nobody's hand has its answer on the bus.    *)
OnlyCrashesLoseCommands ==
    crashes = 0 => \A a \in Attempt :
        bus[<<"command", a>>] = "acknowledged" /\ cur # a
            => Sent("review", a) \/ Sent("nothing_validated", a)

=============================================================================
