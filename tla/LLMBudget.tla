------------------------------- MODULE LLMBudget -------------------------------
(***************************************************************************)
(* llm/budget.py and LiteLLMClient.complete_json of llm/models.py: every   *)
(* call of a cloud model first reserves its price in a SQLite ledger that  *)
(* all the agents of all the processes share.                              *)
(*                                                                         *)
(* Money is counted in calls: each reserves the same amount.  A reservation*)
(* reads the day, takes the write lock, adds up the day and inserts, and   *)
(* another caller, midnight or a crash may come between any two of these.  *)
(***************************************************************************)
EXTENDS Integers

CONSTANTS
    Caller,     \* agents that call a model
    LastDay,    \* bound: days
    DailyCap,   \* calls the daily limit pays for
    Nobody      \* sentinel

ASSUME BudgetAssumption ==
    LastDay \in Nat \ {0} /\ DailyCap \in Nat \ {0} /\ Nobody \notin Caller

Day == 1 .. LastDay

VARIABLES
    today,
    reserved,   \* llm_reservations: how many of each day
    writer,     \* the holder of SQLite's write lock
    call        \* how far each caller's complete_json is, and the day it read

budget == <<today, reserved, writer, call>>

NoCall == [at |-> "none", day |-> 0]

-----------------------------------------------------------------------------
Midnight ==
    /\ today < LastDay
    /\ today' = today + 1
    /\ UNCHANGED <<reserved, writer, call>>

\* complete_json is entered; reserve computes the day before it connects.
CompleteJson(c) ==
    /\ call[c].at = "none"
    /\ call' = [call EXCEPT ![c] = [at |-> "dated", day |-> today]]
    /\ UNCHANGED <<today, reserved, writer>>

\* select sum(amount) of the day the caller has read.
SumDay(c) ==
    /\ call[c].at = "dated"
    /\ writer' = c
    /\ \/ /\ reserved[call[c].day] < DailyCap
          /\ call' = [call EXCEPT ![c].at = "under"]
       \/ \* the amounts are floats: the last call may or may not fit
          /\ reserved[call[c].day] >= DailyCap - 1
          /\ call' = [call EXCEPT ![c].at = "over"]
    /\ UNCHANGED <<today, reserved>>

\* BEGIN IMMEDIATE waits for the write lock; the sum is read under it.
MutBeginImmediate(c) == SumDay(c)
BeginImmediate(c) == writer = Nobody /\ SumDay(c)

\* sqlite3.connect waits five seconds for a lock, then raises.
Locked(c) ==
    /\ call[c].at = "dated" /\ writer # Nobody
    /\ call' = [call EXCEPT ![c].at = "failed"]
    /\ UNCHANGED <<today, reserved, writer>>

\* The insert and the commit.
Reserve(c) ==
    /\ call[c].at = "under"
    /\ reserved' = [reserved EXCEPT ![call[c].day] = @ + 1]
    /\ writer' = IF writer = c THEN Nobody ELSE writer
    /\ call' = [call EXCEPT ![c].at = "sent"]
    /\ UNCHANGED today

\* daily_budget_exhausted: the transaction is rolled back.
Exhausted(c) ==
    /\ call[c].at = "over"
    /\ writer' = IF writer = c THEN Nobody ELSE writer
    /\ call' = [call EXCEPT ![c].at = "failed"]
    /\ UNCHANGED <<today, reserved>>

\* The provider answers, or anything between the reservation and the decoded
\* object goes wrong; a reservation is never given back.
Answer(c) ==
    /\ call[c].at = "sent"
    /\ \E s \in {"answered", "failed"} : call' = [call EXCEPT ![c].at = s]
    /\ UNCHANGED <<today, reserved, writer>>

BudgetStep(c) == BeginImmediate(c) \/ Locked(c) \/ Reserve(c) \/ Exhausted(c) \/ Answer(c)

\* What the caller does once complete_json has returned or raised.
Ended(c) == call[c].at \in {"answered", "failed"}
Forget(c) ==
    /\ call' = [call EXCEPT ![c] = NoCall]
    /\ UNCHANGED <<today, reserved, writer>>

\* The process of the caller dies: SQLite rolls back what was not committed.
Abandon(c) ==
    /\ writer' = IF writer = c THEN Nobody ELSE writer
    /\ call' = [call EXCEPT ![c] = NoCall]
    /\ UNCHANGED <<today, reserved>>

BudgetInit ==
    /\ today = 1
    /\ \E n \in 0 .. DailyCap :      \* earlier calls of the first day
          reserved = [d \in Day |-> IF d = 1 THEN n ELSE 0]
    /\ writer = Nobody
    /\ call = [c \in Caller |-> NoCall]
=============================================================================
