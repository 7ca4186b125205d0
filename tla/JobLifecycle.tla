----------------------------- MODULE JobLifecycle -----------------------------
(***************************************************************************)
(* What the job runtime promises its clients, with no queue, no worker and *)
(* no processing list: an idempotency key is bound once, to one job; a job *)
(* is queued until it begins, may be sent back to the queue while it runs, *)
(* succeeds only if it has begun, and ends once.                           *)
(***************************************************************************)
CONSTANTS Job, Key, Body, Nil

VARIABLES status, keyOf, bodyOf, cancel, accepted

binding == <<keyOf, bodyOf>>

Init ==
    /\ status = [j \in Job |-> "absent"]
    /\ keyOf = [j \in Job |-> Nil]
    /\ bodyOf = [j \in Job |-> Nil]
    /\ cancel = {}
    /\ accepted = {}

\* A key nobody has used is bound to a job nobody has named.
Bind == \E j \in Job, k \in Key, b \in Body :
    /\ status[j] = "absent"
    /\ \A i \in Job : keyOf[i] # k
    /\ status' = [status EXCEPT ![j] = "queued"]
    /\ keyOf' = [keyOf EXCEPT ![j] = k]
    /\ bodyOf' = [bodyOf EXCEPT ![j] = b]
    /\ UNCHANGED <<cancel, accepted>>

\* A reply repeats what is bound.
Accept == \E j \in Job :
    /\ status[j] # "absent"
    /\ accepted' = accepted \cup {[key |-> keyOf[j], body |-> bodyOf[j], job |-> j]}
    /\ UNCHANGED <<status, binding, cancel>>

Move(j, from, to) ==
    /\ status[j] = from
    /\ status' = [status EXCEPT ![j] = to]
    /\ UNCHANGED <<binding, cancel, accepted>>

Begin(j)   == Move(j, "queued", "running")
Succeed(j) == Move(j, "running", "succeeded")

\* A job fails while it runs, or for want of a handler before it begins.
Fail(j) == \E from \in {"queued", "running"} : Move(j, from, "failed")

\* Only a job somebody asked to cancel is cancelled.
Cancel(j) == j \in cancel /\ \E from \in {"queued", "running"} : Move(j, from, "cancelled")

RequestCancel(j) ==
    /\ status[j] \in {"queued", "running"}
    /\ cancel' = cancel \cup {j}
    /\ UNCHANGED <<status, binding, accepted>>

\* A restart sends everything that was running back to the queue at once.
Restart ==
    /\ status' = [j \in Job |-> IF status[j] = "running" THEN "queued" ELSE status[j]]
    /\ UNCHANGED <<binding, cancel, accepted>>

Next ==
    \/ Bind \/ Accept \/ Restart
    \/ \E j \in Job : Begin(j) \/ Succeed(j) \/ Fail(j) \/ Cancel(j) \/ RequestCancel(j)

vars == <<status, keyOf, bodyOf, cancel, accepted>>

Spec == Init /\ [][Next]_vars
=============================================================================
