----------------------------- MODULE ProductStore -----------------------------
(***************************************************************************)
(* persistence.PostgresProductRepository as the two processes use it: the  *)
(* API serves requests on many threads over one connection, the worker     *)
(* runs workspace-bootstrap jobs over another.  A connection has one       *)
(* transaction, whoever's statements it holds.                             *)
(***************************************************************************)
EXTENDS Naturals, FiniteSets, Sequences, SequencesExt

CONSTANTS
    Thread,     \* request threads of the API
    Id,         \* identifiers that clients choose
    Fresh,      \* identifiers that uuid4 yields
    Content,    \* what the records say; created_at makes every request's its own
    Unstorable, \* contents that PostgreSQL refuses: NaN or \u0000 in a jsonb, too long a key
    MaxVersion, \* bound: versions of one identifier
    MaxRestart  \* bound: restarts of the API, the worker and PostgreSQL

ASSUME StoreAssumption == Id \cap Fresh = {} /\ "worker" \notin Thread
ASSUME UnstorableAssumption == Unstorable \subseteq Content
ASSUME BoundAssumption == MaxVersion \in Nat /\ MaxRestart \in Nat

VARIABLES
    stored,     \* committed rows
    pending,    \* rows of each connection's open transaction
    conn,       \* "ok", in error ("aborted" by a unique violation, "refused" by a value),
                \* or "broken"
    pc, writes, at,     \* of each process: where it is, its records, the one in hand
    answered,   \* history: records some request was told are stored
    shared,     \* history: two requests of the API have been under way at once
    restarts

vars == <<stored, pending, conn, pc, writes, at, answered, shared, restarts>>

Proc == Thread \cup {"worker"}
MutConn(p) == "api"
Conn(p) == IF p = "worker" THEN "worker" ELSE "api"

Record == [table : {"workspace", "universe", "strategy"}, id : Id \cup Fresh,
           version : 1 .. MaxVersion, content : Content]

Key(r)  == <<r.table, r.id, r.version>>
MutSeen(p) == stored \cup UNION {pending[c] : c \in DOMAIN pending}
Seen(p) == stored \cup pending[Conn(p)]
Versions(p, table, i) == {r \in Seen(p) : r.table = table /\ r.id = i}
Newest(rs) == CHOOSE r \in rs : \A s \in rs : s.version <= r.version

Usable(p) == conn[Conn(p)] = "ok"
Hand(p)   == writes[p][at[p]]
IsLock(p) == Len(writes[p]) = 2
MutStorable(p) == TRUE
Storable(p) == Hand(p).content \notin Unstorable

-----------------------------------------------------------------------------
(* What PostgreSQL and psycopg do.                                         *)
Rollback(p) ==
    /\ pending' = [pending EXCEPT ![Conn(p)] = {}]
    /\ conn' = [conn EXCEPT ![Conn(p)] = IF @ = "broken" THEN @ ELSE "ok"]
Abort(p) ==
    /\ pending' = [pending EXCEPT ![Conn(p)] = {}]
    /\ conn' = [conn EXCEPT ![Conn(p)] = IF Storable(p) THEN "aborted" ELSE "refused"]
Same == UNCHANGED <<pending, conn>>

\* put_workspace_with_universe rolls back what put leaves as it is.
OnError(p) == IF IsLock(p) THEN Rollback(p) ELSE Same

Leave(ps) ==
    /\ pc' = [p \in Proc |-> IF p \in ps THEN "idle" ELSE pc[p]]
    /\ writes' = [p \in Proc |-> IF p \in ps THEN <<>> ELSE writes[p]]
    /\ at' = [p \in Proc |-> IF p \in ps THEN 1 ELSE at[p]]
Finish(p) == Leave({p}) /\ UNCHANGED <<shared, restarts>>
Fail(p)   == Finish(p) /\ UNCHANGED <<stored, answered>>

Begin(p, rs) ==
    /\ writes' = [writes EXCEPT ![p] = rs]
    /\ at' = [at EXCEPT ![p] = 1]
    /\ pc' = [pc EXCEPT ![p] = "select"]
    /\ shared' = (shared \/ \E t \in Thread \ {p} : p \in Thread /\ pc[t] # "idle")
    /\ UNCHANGED <<stored, pending, conn, answered, restarts>>

-----------------------------------------------------------------------------
Row(table, i, v, c) == [table |-> table, id |-> i, version |-> v, content |-> c]

\* uuid4 and the clock never yield a value twice.
Known == stored \cup answered \cup UNION {ToSet(writes[p]) : p \in Proc}
New(c) == c \notin {r.content : r \in Known}

CreateWorkspace(t, i, c) ==
    pc[t] = "idle" /\ New(c) /\ Begin(t, <<Row("workspace", i, 1, c)>>)

LockPlan(t, f, c, d) ==
    /\ pc[t] = "idle" /\ New(c) /\ New(d) /\ f \notin {r.id : r \in Known}
    /\ Begin(t, <<Row("universe", f, 1, c), Row("workspace", f, 1, d)>>)

NextVersion(rs) == IF rs = {} THEN 1 ELSE Newest(rs).version + 1

SaveStrategy(t, i, c) ==
    LET rs == Versions(t, "strategy", i) IN
    /\ pc[t] = "idle" /\ Usable(t) /\ New(c)
    /\ NextVersion(rs) <= MaxVersion
    /\ Begin(t, <<Row("strategy", i, NextVersion(rs), c)>>)

\* workspace_bootstrap_handler
Bootstrap(i) ==
    LET rs == Versions("worker", "workspace", i) IN
    /\ pc["worker"] = "idle" /\ Usable("worker")
    /\ rs # {} /\ NextVersion(rs) <= MaxVersion
    /\ Begin("worker", <<Row("workspace", i, NextVersion(rs), Newest(rs).content)>>)

-----------------------------------------------------------------------------
\* The record in hand is written.
Advance(p) ==
    /\ IF at[p] < Len(writes[p])
       THEN at' = [at EXCEPT ![p] = @ + 1] /\ pc' = [pc EXCEPT ![p] = "select"]
       ELSE pc' = [pc EXCEPT ![p] = "commit"] /\ UNCHANGED at
    /\ UNCHANGED <<stored, conn, writes, answered, shared, restarts>>

Succeed(p) == Finish(p) /\ answered' = answered \cup ToSet(writes[p])

MutTaken(p) == {r \in Seen(p) : r.table = Hand(p).table /\ r.id = Hand(p).id}
Taken(p) == {r \in Seen(p) : Key(r) = Key(Hand(p))}

\* The digests differ: two requests never write the same record.
Conflict(p) == pc[p] = "select" /\ Usable(p) /\ Taken(p) # {} /\ OnError(p) /\ Fail(p)

Select(p) ==
    /\ pc[p] = "select" /\ Usable(p) /\ Taken(p) = {}
    /\ pc' = [pc EXCEPT ![p] = "insert"]
    /\ UNCHANGED <<stored, pending, conn, writes, at, answered, shared, restarts>>

Insert(p) ==
    /\ pc[p] = "insert" /\ Usable(p) /\ Taken(p) = {} /\ Storable(p)
    /\ pending' = [pending EXCEPT ![Conn(p)] = @ \cup {Hand(p)}]
    /\ Advance(p)

\* A unique violation, or a value that is not jsonb, ends the transaction for everybody
\* on the connection; a put by itself leaves it so for all that comes after.
Violation(p) ==
    /\ pc[p] = "insert" /\ Usable(p) /\ (Taken(p) # {} \/ ~ Storable(p))
    /\ IF IsLock(p) THEN Rollback(p) ELSE Abort(p)
    /\ Fail(p)

\* The statement raises; a new request fails at its first one.  A lock's rollback is
\* what makes a connection in error usable again.
Raise(p) ==
    /\ pc[p] \in {"select", "insert"} /\ ~ Usable(p)
    /\ OnError(p) /\ Fail(p)

\* COMMIT of an aborted transaction rolls it back and raises nothing.
MutFlushed(p) == {Hand(p)} \cap pending[Conn(p)]
MutUnflushed(p) == {}
Flushed(p) == pending[Conn(p)]

Commit(p) ==
    /\ pc[p] = "commit" /\ conn[Conn(p)] # "broken"
    /\ stored' = stored \cup Flushed(p)
    /\ Rollback(p)
    /\ Succeed(p)

CommitRaises(p) ==
    /\ pc[p] = "commit" /\ conn[Conn(p)] = "broken"
    /\ OnError(p) /\ Fail(p)

-----------------------------------------------------------------------------
Restart(c) ==
    /\ restarts < MaxRestart /\ restarts' = restarts + 1
    /\ pending' = [pending EXCEPT ![c] = {}]
    /\ conn' = [conn EXCEPT ![c] = "ok"]
    /\ Leave({p \in Proc : Conn(p) = c})
    /\ UNCHANGED <<stored, answered, shared>>

RestartPostgres ==
    /\ restarts < MaxRestart /\ restarts' = restarts + 1
    /\ pending' = [c \in DOMAIN pending |-> {}]
    /\ conn' = [c \in DOMAIN conn |-> "broken"]
    /\ UNCHANGED <<stored, pc, writes, at, answered, shared>>

-----------------------------------------------------------------------------
Init ==
    /\ stored = {} /\ answered = {} /\ shared = FALSE /\ restarts = 0
    /\ pending = [c \in {"api", "worker"} |-> {}]
    /\ conn = [c \in {"api", "worker"} |-> "ok"]
    /\ pc = [p \in Proc |-> "idle"]
    /\ writes = [p \in Proc |-> <<>>]
    /\ at = [p \in Proc |-> 1]

Request(t) ==
    \/ \E i \in Id, c \in Content : CreateWorkspace(t, i, c) \/ SaveStrategy(t, i, c)
    \/ \E f \in Fresh, c, d \in Content : LockPlan(t, f, c, d)

PutStep(p) ==
    \/ Conflict(p) \/ Select(p) \/ Insert(p)
    \/ Violation(p) \/ Raise(p) \/ Commit(p) \/ CommitRaises(p)

Next ==
    \/ \E t \in Thread : Request(t)
    \/ \E i \in Id \cup Fresh : Bootstrap(i)
    \/ \E p \in Proc : PutStep(p)
    \/ \E c \in {"api", "worker"} : Restart(c)
    \/ RestartPostgres

Spec == Init /\ [][Next]_vars

-----------------------------------------------------------------------------
(* What a request was told is stored is stored and stays stored, a 201 of  *)
(* create_workspace or save_strategy, a lock, a bootstrap that succeeded:  *)
(* as long as the API has served one request at a time.                    *)
AnsweredIsStored == ~ shared => answered \subseteq stored

(* The same promise without the condition, and weaker: what was answered   *)
(* is stored or about to be ("can be reloaded from durable storage").      *)
NothingAnsweredIsLost == answered \subseteq stored \cup pending["api"] \cup pending["worker"]

(* A locked workspace and its universe are stored together or not at all,  *)
(* in spite of restarts, one request at a time                             *)
(* (put_workspace_with_universe, "in one database transaction").           *)
LockIsAtomic ==
    ~ shared => \A f \in Fresh :
        (\E r \in stored : Key(r) = <<"universe", f, 1>>)
            <=> (\E r \in stored : Key(r) = <<"workspace", f, 1>>)

(* A bootstrap the worker finished is stored, whatever the requests of the *)
(* API do to their own connection meanwhile.                               *)
BootstrapIsDurable ==
    \A r \in answered : r.table = "workspace" /\ r.version > 1 => r \in stored

(* Every later version of a workspace says what the stored version before  *)
(* it says: workspace_bootstrap_handler copies a committed row.            *)
WorkspaceChain ==
    \A r \in stored : r.table = "workspace" /\ r.version > 1 =>
        Row("workspace", r.id, r.version - 1, r.content) \in stored

(* A write fails for a cause of its own as long as PostgreSQL is up.  The  *)
(* worker's never fail, whatever the API does: its version is free and its *)
(* content a stored one's.  One request at a time, the look before the     *)
(* INSERT finds every conflict and a unique violation never happens; what  *)
(* else fails holds a value PostgreSQL refuses, or comes after a put (not  *)
(* a lock) that did and left its transaction in error.                     *)
WritesFailForCause ==
    [][\A p \in Proc :
          (Conflict(p) \/ Violation(p) \/ Raise(p)) /\ conn[Conn(p)] # "broken" =>
            /\ p # "worker"
            /\ \/ shared
               \/ Conflict(p) /\ \E r \in Seen(p) : Key(r) = Key(Hand(p)) /\ r # Hand(p)
               \/ Violation(p) /\ ~ Storable(p)
               \/ Raise(p) /\ conn["api"] = "refused"]_vars

=============================================================================
