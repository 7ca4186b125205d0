---------------------------- MODULE EvidenceIntake ----------------------------
(***************************************************************************)
(* evidence/: a collection run asks one allow-listed adapter after another,*)
(* appends what it returns to the DuckDB ledger and records a receipt for  *)
(* each call.  Every INSERT is a transaction of its own; the process may   *)
(* die, and DuckDB may raise, between any two of them.                     *)
(*                                                                         *)
(* An observation is its idempotency key, an error is its text.            *)
(***************************************************************************)
EXTENDS Naturals, Sequences

CONSTANTS
    Obs,        \* observations the sources have
    Available,  \* available_at of each
    Run,        \* run identifiers
    Calls,      \* the adapter calls of a run, in order: adapter and offers
    Error,      \* what an adapter may raise
    LastTime,   \* bound: the clock
    MaxBegun,   \* bound: collections
    MaxFault    \* bound: deaths of the process and errors of DuckDB

Time == 0 .. LastTime + 1  \* what may be asked about: the next day too

ASSUME IntakeAssumption ==
    /\ LastTime \in Nat /\ MaxBegun \in Nat /\ MaxFault \in Nat
    /\ Available \in [Obs -> Time]
    /\ \A i \in DOMAIN Calls : Calls[i].offers \subseteq Obs

VARIABLES
    clock,
    ledger,     \* evidence_observations: the observation and the run that emitted it
    receipts,   \* evidence_run_receipts
    collect,    \* the collection that is running
    begun,      \* how many began
    faults

intake == <<ledger, receipts, collect, begun, faults>>

Idle == [at |-> "idle", run |-> "", call |-> 0, left |-> {}, got |-> {}, error |-> ""]

-----------------------------------------------------------------------------
Known == {o.obs : o \in ledger}

\* InitialSemiconductorSourceRun.collect; a run identifier may be used again.
BeginRun(r) ==
    /\ collect.at = "idle" /\ begun < MaxBegun
    /\ begun' = begun + 1
    /\ collect' = [Idle EXCEPT !.at = "ask", !.run = r, !.call = 1]
    /\ UNCHANGED <<ledger, receipts, faults>>

\* A document is not retrieved before it was available: the contract refuses it.
Retrievable == {o \in Calls[collect.call].offers : Available[o] <= clock}

AdapterReturns ==
    /\ collect.at = "ask"
    /\ \E os \in SUBSET Retrievable :
          collect' = [collect EXCEPT !.at = "append", !.left = os, !.got = os]
    /\ UNCHANGED <<ledger, receipts, begun, faults>>

\* Also record_failure: no document was found to collect from.
AdapterRaises ==
    /\ collect.at = "ask"
    /\ \E e \in Error : collect' = [collect EXCEPT !.at = "failed", !.error = e]
    /\ UNCHANGED <<ledger, receipts, begun, faults>>

\* append: an observation whose key is there stays the one of the earlier run.
Append1(o) ==
    /\ collect.at = "append" /\ o \in collect.left
    /\ ledger' = IF o \in Known THEN ledger ELSE ledger \cup {[obs |-> o, run |-> collect.run]}
    /\ collect' = [collect EXCEPT !.left = @ \ {o}]
    /\ UNCHANGED <<receipts, begun, faults>>

AppendRaises ==
    /\ collect.at = "append" /\ collect.left # {} /\ faults < MaxFault
    /\ faults' = faults + 1
    /\ collect' = [collect EXCEPT !.at = "failed", !.left = {}, !.got = {}, !.error = "database"]
    /\ UNCHANGED <<ledger, receipts, begun>>

\* _receipt: the key has neither the time nor the call.
Receipt(status) ==
    [run |-> collect.run, adapter |-> Calls[collect.call].adapter, status |-> status,
     keys |-> collect.got, error |-> collect.error]

\* append_run_receipt, and on to the next adapter.
Record(status) ==
    /\ receipts' = receipts \cup {Receipt(status)}
    /\ collect' = IF collect.call = Len(Calls) THEN Idle
                  ELSE [Idle EXCEPT !.at = "ask", !.run = collect.run, !.call = collect.call + 1]
    /\ UNCHANGED <<ledger, begun, faults>>

MutAllAppended == TRUE
AllAppended == collect.left = {}
RecordCompleted == collect.at = "append" /\ AllAppended /\ Record("completed")
RecordFailed == collect.at = "failed" /\ Record("failed")

\* The process dies, or the receipt cannot be written.
Die ==
    /\ collect.at # "idle" /\ faults < MaxFault
    /\ faults' = faults + 1
    /\ collect' = Idle
    /\ UNCHANGED <<ledger, receipts, begun>>

IntakeInit ==
    /\ ledger = {} /\ receipts = {} /\ collect = Idle /\ begun = 0 /\ faults = 0

IntakeStep ==
    \/ \E r \in Run : BeginRun(r)
    \/ AdapterReturns \/ AdapterRaises
    \/ (\E o \in Obs : Append1(o)) \/ AppendRaises
    \/ RecordCompleted \/ RecordFailed
    \/ Die

-----------------------------------------------------------------------------
(* The books of the intake balance: a completed receipt lists only what    *)
(* the ledger has, whatever died in between; and, as long as nothing has   *)
(* failed, nothing is in the ledger that no receipt of its run lists.      *)
IntakeIsAccounted ==
    /\ \A r \in receipts : r.status = "completed" => r.keys \subseteq Known
    /\ faults = 0 /\ collect.at = "idle" =>
          \A o \in ledger : \E r \in receipts : r.run = o.run /\ o.obs \in r.keys
=============================================================================
