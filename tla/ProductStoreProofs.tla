-------------------------- MODULE ProductStoreProofs --------------------------
(***************************************************************************)
(* What the store promises for any number of requests, identifiers,        *)
(* versions and restarts: of the worker always, of a request of the API as *)
(* long as no two have overlapped.                                         *)
(***************************************************************************)
EXTENDS ProductStore, TLAPS

Conns == {"api", "worker"}

Typed ==
    /\ conn \in [Conns -> {"ok", "aborted", "refused", "broken"}]
    /\ DOMAIN pending = Conns
    /\ pc \in [Proc -> {"idle", "select", "insert", "commit"}]
    /\ DOMAIN writes = Proc /\ DOMAIN at = Proc
    /\ shared \in BOOLEAN

Workspace(r) ==
    /\ r = Row("workspace", r.id, r.version, r.content)
    /\ r.version \in Nat \ {0}

IsPut(rs) ==
    /\ rs = <<rs[1]>> /\ rs[1].id \in Id
    /\ rs[1].table = "workspace" => Workspace(rs[1]) /\ rs[1].version = 1
IsPlan(rs) ==
    /\ rs = <<rs[1], rs[2]>> /\ rs[1].id \in Fresh
    /\ Key(rs[1]) = <<"universe", rs[1].id, 1>>
    /\ Key(rs[2]) = <<"workspace", rs[1].id, 1>> /\ Workspace(rs[2])

\* What a request of the API writes, and how far it can be.
RequestShape ==
    \A t \in Thread : pc[t] # "idle" =>
        \/ IsPut(writes[t]) /\ at[t] = 1
        \/ IsPlan(writes[t]) /\ at[t] \in {1, 2} /\ (pc[t] = "commit" => at[t] = 2)

\* The worker writes one later version of a stored workspace.
Hers == writes["worker"][1]
WorkerShape ==
    pc["worker"] # "idle" =>
        /\ writes["worker"] = <<Hers>> /\ at["worker"] = 1
        /\ Workspace(Hers) /\ Hers.version > 1
        /\ Row("workspace", Hers.id, Hers.version - 1, Hers.content) \in stored
        /\ \A r \in stored : r.table = "workspace" /\ r.id = Hers.id => r.version < Hers.version

StoredWorkspaces ==
    /\ \A r \in stored : r.table = "workspace" => Workspace(r)
    /\ \A i \in Id \cup Fresh :
         LET rs == {r \in stored : r.table = "workspace" /\ r.id = i} IN
         rs # {} => \E r \in rs : \A s \in rs : s.version <= r.version

\* Rows of an open transaction are rows somebody is about to commit.
PendingWorkspaces ==
    /\ \A c \in Conns : conn[c] # "ok" => pending[c] = {}
    /\ \A r \in pending["api"] : r.table = "workspace" => Workspace(r) /\ r.version = 1
    /\ pending["worker"] \subseteq IF pc["worker"] = "commit" THEN {Hers} ELSE {}

\* The k-th record of p is written.
Written(p, k) == k \in DOMAIN writes[p] /\ (k < at[p] \/ pc[p] = "commit")

\* Nobody else uses the connection of p.
Alone(p) == p = "worker" \/ ~ shared

OneAtATime ==
    ~ shared => \A t, u \in Thread : pc[t] # "idle" /\ pc[u] # "idle" => t = u

HandsFull ==
    \A p \in Proc : Alone(p) /\ pc[p] # "idle" =>
        /\ pc[p] \in {"insert", "commit"} \/ at[p] = 2 => conn[Conn(p)] \in {"ok", "broken"}
        /\ conn[Conn(p)] = "ok" => \A k \in {1, 2} : Written(p, k) => writes[p][k] \in pending[Conn(p)]

NothingElsePending ==
    ~ shared => \A r \in pending["api"] :
        \E t \in Thread : pc[t] # "idle" /\ \E k \in {1, 2} : Written(t, k) /\ r = writes[t][k]

IInv ==
    /\ Typed /\ RequestShape /\ WorkerShape /\ StoredWorkspaces /\ PendingWorkspaces
    /\ OneAtATime /\ HandsFull /\ NothingElsePending
    /\ AnsweredIsStored /\ BootstrapIsDurable /\ WorkspaceChain /\ LockIsAtomic
-----------------------------------------------------------------------------
\* What a process writes is one record or two.
LEMMA Lengths ==
    ASSUME NEW rs
    PROVE  /\ rs = <<rs[1]>> => Len(rs) = 1 /\ DOMAIN rs = {1}
           /\ rs = <<rs[1], rs[2]>> => Len(rs) = 2 /\ DOMAIN rs = {1, 2}
<1>1. \A a : Len(<<a>>) = 1 /\ DOMAIN <<a>> = {1}
    OBVIOUS
<1>2. \A a, b : Len(<<a, b>>) = 2 /\ DOMAIN <<a, b>> = {1, 2}
    OBVIOUS
<1> QED
    BY <1>1, <1>2, Zenon

LEMMA WritesShape ==
    ASSUME IInv, NEW p \in Proc, pc[p] # "idle"
    PROVE  \/ Len(writes[p]) = 1 /\ DOMAIN writes[p] = {1} /\ at[p] = 1
           \/ /\ Len(writes[p]) = 2 /\ DOMAIN writes[p] = {1, 2} /\ at[p] \in {1, 2}
              /\ pc[p] = "commit" => at[p] = 2
<1>1. CASE p = "worker"
    BY <1>1, Lengths DEF IInv, WorkerShape, Hers
<1>2. CASE p \in Thread
  <2>1. \/ IsPut(writes[p]) /\ at[p] = 1
        \/ IsPlan(writes[p]) /\ at[p] \in {1, 2} /\ (pc[p] = "commit" => at[p] = 2)
    BY <1>2 DEF IInv, RequestShape
  <2> QED
    BY <2>1, Lengths DEF IsPut, IsPlan
<1> QED
    BY <1>1, <1>2 DEF Proc

LEMMA InitHolds == Init => IInv
<1> SUFFICES ASSUME Init PROVE IInv
    OBVIOUS
<1>1. Typed
    BY DEF Init, Typed, Conns
<1>2. /\ \A p \in Proc : pc[p] = "idle"
      /\ stored = {} /\ answered = {} /\ \A c \in Conns : pending[c] = {}
    BY DEF Init, Conns
<1>3. RequestShape /\ WorkerShape /\ OneAtATime /\ HandsFull
    BY <1>2 DEF RequestShape, WorkerShape, OneAtATime, HandsFull, Proc
<1>4. StoredWorkspaces /\ PendingWorkspaces /\ NothingElsePending
    BY <1>2 DEF StoredWorkspaces, PendingWorkspaces, NothingElsePending, Conns
<1>5. AnsweredIsStored /\ BootstrapIsDurable /\ WorkspaceChain /\ LockIsAtomic
    BY <1>2 DEF AnsweredIsStored, BootstrapIsDurable, WorkspaceChain, LockIsAtomic
<1> QED
    BY <1>1, <1>3, <1>4, <1>5 DEF IInv

\* A request of the API begins with one record or with the two of a lock.
LEMMA BeginKeeps ==
    ASSUME IInv, NEW t \in Thread, NEW rs, pc[t] = "idle", Begin(t, rs),
           IsPut(rs) \/ IsPlan(rs)
    PROVE  IInv'
<1>1. /\ t \in Proc /\ t # "worker" /\ "worker" \in Proc
      /\ \A u \in Thread : u \in Proc /\ u # "worker"
    BY StoreAssumption DEF Proc
<1>2. /\ pc'[t] = "select" /\ writes'[t] = rs /\ at'[t] = 1
      /\ \A p \in Proc \ {t} : pc'[p] = pc[p] /\ writes'[p] = writes[p] /\ at'[p] = at[p]
    BY <1>1 DEF IInv, Typed, Begin
<1>3. Typed'
    BY <1>1 DEF IInv, Typed, Begin
<1>4. RequestShape'
    BY <1>1, <1>2 DEF IInv, RequestShape, Begin
<1>5. WorkerShape' /\ StoredWorkspaces' /\ PendingWorkspaces'
    BY <1>1, <1>2 DEF IInv, WorkerShape, StoredWorkspaces, PendingWorkspaces, Begin, Hers
<1>6. OneAtATime'
    BY <1>1, <1>2 DEF IInv, OneAtATime, Begin, Typed
<1>7. HandsFull'
  <2> SUFFICES ASSUME NEW p \in Proc, Alone(p)', pc'[p] # "idle"
               PROVE  /\ pc'[p] \in {"insert", "commit"} \/ at'[p] = 2 => conn'[Conn(p)] \in {"ok", "broken"}
                      /\ conn'[Conn(p)] = "ok" =>
                           \A k \in {1, 2} : Written(p, k)' => writes'[p][k] \in pending'[Conn(p)]
    BY DEF HandsFull, Conn
  <2>1. CASE p = t
    BY <2>1, <1>2 DEF Written, Begin
  <2>2. CASE p # t
    <3>1. /\ pc[p] # "idle" /\ pc'[p] = pc[p] /\ writes'[p] = writes[p] /\ at'[p] = at[p]
          /\ conn' = conn /\ pending' = pending
      BY <2>2, <1>2 DEF Begin
    <3>2. Alone(p)
      BY DEF Begin, Alone
    <3>3. \A k \in {1, 2} : Written(p, k)' <=> Written(p, k)
      BY <3>1 DEF Written
    <3>4. /\ pc[p] \in {"insert", "commit"} \/ at[p] = 2 => conn[Conn(p)] \in {"ok", "broken"}
          /\ conn[Conn(p)] = "ok" =>
               \A k \in {1, 2} : Written(p, k) => writes[p][k] \in pending[Conn(p)]
      BY <3>1, <3>2 DEF IInv, HandsFull
    <3> QED
      BY <3>1, <3>3, <3>4
  <2> QED
    BY <2>1, <2>2
<1>8. NothingElsePending'
  <2> SUFFICES ASSUME ~ shared', NEW r \in pending["api"]
               PROVE  \E u \in Thread : pc'[u] # "idle" /\ \E k \in {1, 2} : Written(u, k)' /\ r = writes'[u][k]
    BY DEF NothingElsePending, Begin
  <2>1. PICK u \in Thread : pc[u] # "idle" /\ \E k \in {1, 2} : Written(u, k) /\ r = writes[u][k]
    BY DEF IInv, NothingElsePending, Begin, Typed
  <2>2. u # t
    BY <2>1
  <2> QED
    BY <2>1, <2>2, <1>1, <1>2 DEF Written
<1>9. AnsweredIsStored' /\ BootstrapIsDurable' /\ WorkspaceChain' /\ LockIsAtomic'
    BY DEF IInv, AnsweredIsStored, BootstrapIsDurable, WorkspaceChain, LockIsAtomic, Begin, Typed
<1> QED
    BY <1>3, <1>4, <1>5, <1>6, <1>7, <1>8, <1>9 DEF IInv

\* A bootstrap begins with the version after the newest stored one.
LEMMA BootstrapKeeps ==
    ASSUME IInv, NEW i \in Id \cup Fresh, Bootstrap(i)
    PROVE  IInv'
<1> DEFINE rs == Versions("worker", "workspace", i)
<1> DEFINE new == Row("workspace", i, NextVersion(rs), Newest(rs).content)
<1>1. /\ "worker" \in Proc /\ Conn("worker") = "worker"
      /\ \A u \in Thread : u \in Proc /\ u # "worker"
    BY StoreAssumption DEF Proc, Conn
<1>2. pc["worker"] = "idle" /\ rs # {} /\ Begin("worker", <<new>>)
    BY DEF Bootstrap
<1>3. /\ pc'["worker"] = "select" /\ writes'["worker"] = <<new>> /\ at'["worker"] = 1
      /\ \A p \in Thread : pc'[p] = pc[p] /\ writes'[p] = writes[p] /\ at'[p] = at[p]
      /\ shared' = shared
    BY <1>1, <1>2 DEF IInv, Typed, Begin
<1>4. pending["worker"] = {}
    BY <1>2 DEF IInv, PendingWorkspaces
<1>5. rs = {r \in stored : r.table = "workspace" /\ r.id = i}
    BY <1>1, <1>4 DEF Versions, Seen
<1>6. /\ Newest(rs) \in rs
      /\ \A s \in rs : s.version <= Newest(rs).version
  <2>1. \E r \in rs : \A s \in rs : s.version <= r.version
    BY <1>2, <1>5 DEF IInv, StoredWorkspaces
  <2> QED
    BY <2>1 DEF Newest
<1>7. /\ Workspace(Newest(rs)) /\ Newest(rs).id = i /\ Newest(rs) \in stored
      /\ \A s \in rs : Workspace(s)
    BY <1>5, <1>6 DEF IInv, StoredWorkspaces
<1>8. /\ new = Row("workspace", i, Newest(rs).version + 1, Newest(rs).content)
      /\ Newest(rs).version \in Nat \ {0}
    BY <1>2, <1>7 DEF NextVersion, Workspace
<1>9. /\ new.table = "workspace" /\ new.id = i /\ new.content = Newest(rs).content
      /\ new.version = Newest(rs).version + 1
    BY <1>8 DEF Row
<1> HIDE DEF rs, new
<1>10. WorkerShape'
  <2>1. Workspace(new) /\ new.version > 1
    BY <1>8, <1>9 DEF Workspace, Row
  <2>2. Row("workspace", new.id, new.version - 1, new.content) \in stored
    BY <1>7, <1>8, <1>9 DEF Workspace
  <2>3. \A r \in stored : r.table = "workspace" /\ r.id = new.id => r.version < new.version
    BY <1>5, <1>6, <1>7, <1>8, <1>9 DEF Workspace
  <2> QED
    BY <1>2, <1>3, <2>1, <2>2, <2>3 DEF WorkerShape, Hers, Begin
<1>11. Typed'
    BY <1>2, <1>1 DEF IInv, Typed, Begin
<1>12. RequestShape' /\ OneAtATime'
    BY <1>1, <1>3 DEF IInv, RequestShape, OneAtATime
<1>13. StoredWorkspaces'
    BY <1>2 DEF IInv, StoredWorkspaces, Begin
<1>14. PendingWorkspaces'
    BY <1>2, <1>3, <1>4 DEF IInv, PendingWorkspaces, Begin
<1>15. HandsFull'
    BY <1>1, <1>2, <1>3 DEF IInv, HandsFull, Written, Begin, Alone, Proc, Conn
<1>16. NothingElsePending'
    BY <1>1, <1>2, <1>3 DEF IInv, NothingElsePending, Written, Begin
<1>17. AnsweredIsStored' /\ BootstrapIsDurable' /\ WorkspaceChain' /\ LockIsAtomic'
    BY <1>2, <1>3 DEF IInv, AnsweredIsStored, BootstrapIsDurable, WorkspaceChain, LockIsAtomic, Begin
<1> QED
    BY <1>10, <1>11, <1>12, <1>13, <1>14, <1>15, <1>16, <1>17 DEF IInv

-----------------------------------------------------------------------------
\* Two busy processes of one connection are two requests of the API, or one process.
LEMMA SoleUser ==
    ASSUME IInv, NEW p \in Proc, NEW q \in Proc, Alone(q),
           pc[p] # "idle", pc[q] # "idle", Conn(p) = Conn(q)
    PROVE  p = q
BY StoreAssumption DEF IInv, OneAtATime, Alone, Conn, Proc

\* What is left of a transaction whose user leaves with an error.
Left(p) ==
    \/ Rollback(p) \/ Abort(p)
    \/ Same /\ \A k \in {1, 2} : ~ Written(p, k)
    \/ Same /\ conn[Conn(p)] # "ok"

LEMMA FailKeeps ==
    ASSUME IInv, NEW p \in Proc, pc[p] # "idle", Fail(p), Left(p)
    PROVE  IInv'
<1>1. /\ "worker" \in Proc /\ Conn("worker") = "worker"
      /\ \A u \in Thread : u \in Proc /\ u # "worker" /\ Conn(u) = "api"
      /\ \A q \in Proc : q = "worker" \/ q \in Thread
    BY StoreAssumption DEF Proc, Conn
<1>2. /\ pc'[p] = "idle"
      /\ \A q \in Proc \ {p} : pc'[q] = pc[q] /\ writes'[q] = writes[q] /\ at'[q] = at[q]
      /\ shared' = shared /\ stored' = stored /\ answered' = answered
    BY DEF Fail, Finish, Leave
<1>3. Typed'
    BY DEF IInv, Typed, Fail, Finish, Leave, Left, Rollback, Abort, Same, Conns, Conn
<1>4. /\ \A c \in Conns \ {Conn(p)} : pending'[c] = pending[c] /\ conn'[c] = conn[c]
      /\ \A c \in Conns : pending'[c] = {} \/ (pending'[c] = pending[c] /\ conn'[c] = conn[c])
    BY DEF IInv, Typed, Left, Rollback, Abort, Same, Conns, Conn
<1>5. Alone(p) => pending'[Conn(p)] = {}
  <2>1. CASE Rollback(p) \/ Abort(p)
    BY <2>1 DEF IInv, Typed, Rollback, Abort, Conns, Conn
  <2>2. CASE Same /\ conn[Conn(p)] # "ok"
    BY <2>2 DEF IInv, PendingWorkspaces, Same, Conns, Conn
  <2>3. CASE Same /\ (\A k \in {1, 2} : ~ Written(p, k)) /\ p = "worker"
    <3>1. pc[p] # "commit"
      BY <2>3 DEF IInv, WorkerShape, Written
    <3> QED
      BY <2>3, <3>1, <1>1 DEF IInv, PendingWorkspaces, Same
  <2>4. CASE Same /\ (\A k \in {1, 2} : ~ Written(p, k)) /\ ~ shared /\ p # "worker"
    BY <2>4, <1>1 DEF IInv, NothingElsePending, OneAtATime, Same
  <2> QED
    BY <2>1, <2>2, <2>3, <2>4 DEF Left, Alone
<1>6. RequestShape'
    BY <1>1, <1>2 DEF IInv, RequestShape
<1>7. WorkerShape' /\ StoredWorkspaces' /\ OneAtATime'
    BY <1>1, <1>2 DEF IInv, WorkerShape, StoredWorkspaces, OneAtATime, Hers
<1>8. PendingWorkspaces'
  <2>1. \A c \in Conns : conn'[c] # "ok" => pending'[c] = {}
    BY <1>4 DEF IInv, PendingWorkspaces
  <2>2. \A r \in pending'["api"] : r.table = "workspace" => Workspace(r) /\ r.version = 1
    BY <1>4 DEF IInv, PendingWorkspaces, Conns
  <2>3. pending'["worker"] \subseteq IF pc'["worker"] = "commit" THEN {Hers'} ELSE {}
    <3>1. CASE p = "worker"
      BY <3>1, <1>1, <1>5 DEF Alone
    <3>2. CASE p # "worker"
      BY <3>2, <1>1, <1>2, <1>4 DEF IInv, PendingWorkspaces, Conns, Hers
    <3> QED
      BY <3>1, <3>2
  <2> QED
    BY <2>1, <2>2, <2>3 DEF PendingWorkspaces
<1>9. HandsFull'
  <2> SUFFICES ASSUME NEW q \in Proc, Alone(q)', pc'[q] # "idle"
               PROVE  /\ pc'[q] \in {"insert", "commit"} \/ at'[q] = 2 => conn'[Conn(q)] \in {"ok", "broken"}
                      /\ conn'[Conn(q)] = "ok" =>
                           \A k \in {1, 2} : Written(q, k)' => writes'[q][k] \in pending'[Conn(q)]
    BY DEF HandsFull, Conn
  <2>1. q # p /\ Alone(q) /\ pc[q] # "idle"
    BY <1>2 DEF Alone
  <2>2. Conn(q) # Conn(p) /\ Conn(q) \in Conns
    BY <2>1, SoleUser DEF Conn, Conns
  <2> QED
    BY <2>1, <2>2, <1>2, <1>4 DEF IInv, HandsFull, Written
<1>10. NothingElsePending'
  <2> SUFFICES ASSUME ~ shared, NEW r \in pending'["api"]
               PROVE  \E t \in Thread : pc'[t] # "idle" /\ \E k \in {1, 2} : Written(t, k)' /\ r = writes'[t][k]
    BY <1>2 DEF NothingElsePending
  <2>1. p = "worker" /\ pending'["api"] = pending["api"]
    BY <1>1, <1>4, <1>5 DEF Alone, Conns
  <2>2. PICK t \in Thread : pc[t] # "idle" /\ \E k \in {1, 2} : Written(t, k) /\ r = writes[t][k]
    BY <2>1 DEF IInv, NothingElsePending
  <2> QED
    BY <2>1, <2>2, <1>1, <1>2 DEF Written
<1>11. AnsweredIsStored' /\ BootstrapIsDurable' /\ WorkspaceChain' /\ LockIsAtomic'
    BY <1>2 DEF IInv, AnsweredIsStored, BootstrapIsDurable, WorkspaceChain, LockIsAtomic
<1> QED
    BY <1>3, <1>6, <1>7, <1>8, <1>9, <1>10, <1>11 DEF IInv

LEMMA SelectKeeps ==
    ASSUME IInv, NEW p \in Proc, Select(p)
    PROVE  IInv'
<1>1. /\ pc'[p] = "insert" /\ pc[p] = "select" /\ conn[Conn(p)] = "ok"
      /\ \A q \in Proc \ {p} : pc'[q] = pc[q]
    BY DEF IInv, Typed, Select, Usable
<1>2. UNCHANGED <<stored, pending, conn, writes, at, answered, shared, restarts>>
    BY DEF Select
<1>3. "worker" \in Proc /\ \A t \in Thread : t \in Proc
    BY DEF Proc
<1>4. Typed'
    BY DEF IInv, Typed, Select
<1>5. RequestShape' /\ WorkerShape' /\ StoredWorkspaces' /\ OneAtATime'
    BY <1>1, <1>2, <1>3
    DEF IInv, RequestShape, WorkerShape, StoredWorkspaces, OneAtATime, Hers
<1>6. PendingWorkspaces'
    BY <1>1, <1>2, <1>3 DEF IInv, PendingWorkspaces, Hers
<1>7. HandsFull'
    BY <1>1, <1>2 DEF IInv, HandsFull, Written, Alone, Conn
<1>8. NothingElsePending'
    BY <1>1, <1>2, <1>3 DEF IInv, NothingElsePending, Written
<1>9. AnsweredIsStored' /\ BootstrapIsDurable' /\ WorkspaceChain' /\ LockIsAtomic'
    BY <1>2 DEF IInv, AnsweredIsStored, BootstrapIsDurable, WorkspaceChain, LockIsAtomic
<1> QED
    BY <1>4, <1>5, <1>6, <1>7, <1>8, <1>9 DEF IInv

\* The second record of a lock follows the first, the commit follows the last.
LEMMA InsertKeeps ==
    ASSUME IInv, NEW p \in Proc, Insert(p)
    PROVE  IInv'
<1>1. /\ pc[p] = "insert" /\ conn[Conn(p)] = "ok"
      /\ pending' = [pending EXCEPT ![Conn(p)] = @ \cup {Hand(p)}]
      /\ UNCHANGED <<stored, conn, writes, answered, shared, restarts>>
    BY DEF Insert, Advance, Usable
<1>2. /\ "worker" \in Proc /\ Conn("worker") = "worker" /\ Conn(p) \in Conns
      /\ \A t \in Thread : t \in Proc /\ t # "worker" /\ Conn(t) = "api"
      /\ \A q \in Proc : q = "worker" \/ q \in Thread
    BY StoreAssumption DEF Proc, Conn, Conns
<1>3. /\ pending'[Conn(p)] = pending[Conn(p)] \cup {writes[p][at[p]]}
      /\ \A c \in Conns \ {Conn(p)} : pending'[c] = pending[c]
    BY <1>1, <1>2 DEF IInv, Typed, Hand
<1>4. \A q \in Proc \ {p} : pc'[q] = pc[q] /\ at'[q] = at[q]
    BY DEF Insert, Advance, IInv, Typed
<1>5. \/ Len(writes[p]) = 1 /\ at[p] = 1 /\ at'[p] = 1 /\ pc'[p] = "commit"
      \/ Len(writes[p]) = 2 /\ at[p] = 1 /\ at'[p] = 2 /\ pc'[p] = "select"
      \/ Len(writes[p]) = 2 /\ at[p] = 2 /\ at'[p] = 2 /\ pc'[p] = "commit"
  <2>1. \/ Len(writes[p]) = 1 /\ at[p] = 1
        \/ Len(writes[p]) = 2 /\ at[p] \in {1, 2}
    BY <1>1, WritesShape
  <2>2. CASE at[p] = Len(writes[p])
    <3>1. at' = at /\ pc' = [pc EXCEPT ![p] = "commit"]
      BY <2>1, <2>2 DEF Insert, Advance
    <3> QED
      BY <2>1, <2>2, <3>1 DEF IInv, Typed
  <2>3. CASE at[p] = 1 /\ Len(writes[p]) = 2
    <3>1. at' = [at EXCEPT ![p] = 2] /\ pc' = [pc EXCEPT ![p] = "select"]
      BY <2>3 DEF Insert, Advance
    <3> QED
      BY <2>3, <3>1 DEF IInv, Typed
  <2> QED
    BY <2>1, <2>2, <2>3
<1>6. Typed'
    BY <1>1, <1>2 DEF IInv, Typed, Insert, Advance
<1>7. RequestShape'
    BY <1>1, <1>2, <1>4, <1>5 DEF IInv, RequestShape, IsPut, IsPlan
<1>8. WorkerShape' /\ StoredWorkspaces' /\ OneAtATime'
    BY <1>1, <1>2, <1>4, <1>5
    DEF IInv, WorkerShape, StoredWorkspaces, OneAtATime, Hers
<1>9. PendingWorkspaces'
  <2>1. \A c \in Conns : conn'[c] # "ok" => pending'[c] = {}
    BY <1>1, <1>3 DEF IInv, PendingWorkspaces
  <2>2. CASE p = "worker"
    BY <2>1, <2>2, <1>1, <1>2, <1>3, <1>5 DEF IInv, PendingWorkspaces, WorkerShape, Hers, Conns
  <2>3. CASE p \in Thread
    <3>1. writes[p][at[p]].table = "workspace" =>
             Workspace(writes[p][at[p]]) /\ writes[p][at[p]].version = 1
      BY <2>3, <1>1 DEF IInv, RequestShape, IsPut, IsPlan, Key
    <3> QED
      BY <2>1, <2>3, <3>1, <1>1, <1>2, <1>3, <1>4 DEF IInv, PendingWorkspaces, Hers, Conns
  <2> QED
    BY <2>2, <2>3, <1>2
<1>10. HandsFull'
  <2> SUFFICES ASSUME NEW q \in Proc, Alone(q), pc'[q] # "idle"
               PROVE  /\ pc'[q] \in {"insert", "commit"} \/ at'[q] = 2 => conn[Conn(q)] \in {"ok", "broken"}
                      /\ conn[Conn(q)] = "ok" =>
                           \A k \in {1, 2} : Written(q, k)' => writes[q][k] \in pending'[Conn(q)]
    BY <1>1 DEF HandsFull, Conn, Alone
  <2>1. CASE q = p
    <3>1. \A k \in {1, 2} : Written(p, k)' => Written(p, k) \/ k = at[p]
      BY <1>1, <1>5 DEF Written
    <3> QED
      BY <2>1, <3>1, <1>1, <1>3 DEF IInv, HandsFull
  <2>2. CASE q # p
    <3>1. Conn(q) # Conn(p) /\ Conn(q) \in Conns
      BY <2>2, <1>1, <1>4, SoleUser DEF Conn, Conns
    <3> QED
      BY <2>2, <3>1, <1>1, <1>3, <1>4 DEF IInv, HandsFull, Written
  <2> QED
    BY <2>1, <2>2
<1>11. NothingElsePending'
  <2> SUFFICES ASSUME ~ shared, NEW r \in pending'["api"]
               PROVE  \E t \in Thread : pc'[t] # "idle" /\ \E k \in {1, 2} : Written(t, k)' /\ r = writes[t][k]
    BY <1>1 DEF NothingElsePending
  <2>0. /\ \A k \in {1, 2} : Written(p, k) => Written(p, k)'
        /\ at[p] \in {1, 2} /\ \A k \in {1, 2} : k = at[p] => Written(p, k)'
    <3>1. \/ DOMAIN writes[p] = {1} /\ at[p] = 1
          \/ DOMAIN writes[p] = {1, 2} /\ at[p] \in {1, 2}
      BY <1>1, WritesShape
    <3> QED
      BY <1>1, <1>5, <3>1 DEF Written
  <2>1. CASE r \in pending["api"]
    <3>1. PICK t \in Thread : pc[t] # "idle" /\ \E k \in {1, 2} : Written(t, k) /\ r = writes[t][k]
      BY <2>1 DEF IInv, NothingElsePending
    <3>2. pc'[t] # "idle"
      BY <3>1, <1>2, <1>4, <1>5
    <3>3. \A k \in {1, 2} : Written(t, k) => Written(t, k)'
      BY <2>0, <1>1, <1>2, <1>4 DEF Written
    <3> QED
      BY <3>1, <3>2, <3>3
  <2>2. CASE r \notin pending["api"]
    <3>1. p \in Thread /\ r = writes[p][at[p]] /\ pc'[p] # "idle"
      BY <2>2, <1>2, <1>3, <1>5 DEF Conns
    <3>2. \E k \in {1, 2} : Written(p, k)' /\ r = writes[p][k]
      BY <3>1, <2>0
    <3> QED
      BY <3>1, <3>2
  <2> QED
    BY <2>1, <2>2
<1>12. AnsweredIsStored' /\ BootstrapIsDurable' /\ WorkspaceChain' /\ LockIsAtomic'
    BY <1>1 DEF IInv, AnsweredIsStored, BootstrapIsDurable, WorkspaceChain, LockIsAtomic
<1> QED
    BY <1>6, <1>7, <1>8, <1>9, <1>10, <1>11, <1>12 DEF IInv

\* A commit makes durable what the whole connection has written; of a process that
\* is alone on it, exactly its own records.
LEMMA CommitKeeps ==
    ASSUME IInv, NEW p \in Proc, Commit(p)
    PROVE  IInv'
<1> DEFINE rows == pending[Conn(p)]
<1>1. /\ "worker" \in Proc /\ Conn("worker") = "worker" /\ Conn(p) \in Conns
      /\ \A t \in Thread : t \in Proc /\ t # "worker" /\ Conn(t) = "api"
      /\ \A q \in Proc : q = "worker" \/ q \in Thread
    BY StoreAssumption DEF Proc, Conn, Conns
<1>2. /\ pc[p] = "commit" /\ conn[Conn(p)] # "broken"
      /\ stored' = stored \cup rows
      /\ answered' = answered \cup ToSet(writes[p])
      /\ pc'[p] = "idle" /\ shared' = shared
      /\ \A q \in Proc \ {p} : pc'[q] = pc[q] /\ writes'[q] = writes[q] /\ at'[q] = at[q]
    BY DEF Commit, Flushed, Succeed, Finish, Leave
<1>3. /\ pending'[Conn(p)] = {} /\ conn'[Conn(p)] = "ok"
      /\ \A c \in Conns \ {Conn(p)} : pending'[c] = pending[c] /\ conn'[c] = conn[c]
    BY <1>1, <1>2 DEF IInv, Typed, Commit, Rollback
<1>4. Typed'
    BY <1>1 DEF IInv, Typed, Commit, Rollback, Succeed, Finish, Leave
<1>5. Alone(p) => ToSet(writes[p]) \subseteq rows
  <2> SUFFICES ASSUME Alone(p), NEW k \in DOMAIN writes[p]
               PROVE  writes[p][k] \in rows
    BY DEF ToSet
  <2>1. conn[Conn(p)] = "ok"
    BY <1>1, <1>2 DEF IInv, Typed, HandsFull
  <2>2. k \in {1, 2} /\ Written(p, k)
    BY <1>2, WritesShape DEF Written
  <2> QED
    BY <1>2, <2>1, <2>2 DEF IInv, HandsFull
<1>6. p = "worker" => rows \subseteq {Hers} /\ Hers \in rows /\ writes[p] = <<Hers>>
  <2> SUFFICES ASSUME p = "worker" PROVE rows \subseteq {Hers} /\ Hers \in rows /\ writes[p] = <<Hers>>
    OBVIOUS
  <2>1. rows \subseteq {Hers} /\ writes[p] = <<Hers>>
    BY <1>1, <1>2 DEF IInv, PendingWorkspaces, WorkerShape
  <2>2. conn["worker"] = "ok"
    BY <1>1, <1>2 DEF IInv, Typed, HandsFull, Alone
  <2>3. Written("worker", 1)
    BY <1>2, WritesShape DEF Written
  <2> QED
    BY <1>1, <1>2, <2>1, <2>2, <2>3 DEF IInv, HandsFull, Alone, Hers
<1>7. p \in Thread => rows = pending["api"]
    BY <1>1
<1>8. p \in Thread => \A r \in rows : r.table = "workspace" => Workspace(r) /\ r.version = 1
    BY <1>7 DEF IInv, PendingWorkspaces
<1>9. p = "worker" => /\ Workspace(Hers) /\ Hers.version > 1 /\ Hers.table = "workspace"
                      /\ Row("workspace", Hers.id, Hers.version - 1, Hers.content) \in stored
                      /\ \A r \in stored : r.table = "workspace" /\ r.id = Hers.id
                                             => r.version < Hers.version
    BY <1>2 DEF IInv, WorkerShape, Workspace, Row
<1> HIDE DEF rows
<1>10. RequestShape' /\ OneAtATime'
    BY <1>1, <1>2 DEF IInv, RequestShape, OneAtATime
<1>11. WorkerShape'
  <2>1. CASE p = "worker"
    BY <2>1, <1>2 DEF WorkerShape
  <2>2. CASE p \in Thread
    BY <2>2, <1>1, <1>2, <1>8 DEF IInv, WorkerShape, Hers
  <2> QED
    BY <2>1, <2>2, <1>1
<1>12. StoredWorkspaces'
  <2>1. \A r \in stored' : r.table = "workspace" => Workspace(r)
    BY <1>1, <1>2, <1>6, <1>8, <1>9 DEF IInv, StoredWorkspaces
  <2>2. ASSUME NEW i \in Id \cup Fresh, NEW x \in stored', x.table = "workspace" /\ x.id = i
        PROVE  \E r \in stored' : /\ r.table = "workspace" /\ r.id = i
                                  /\ \A s \in stored' : s.table = "workspace" /\ s.id = i => s.version <= r.version
    <3>1. CASE p = "worker" /\ Hers.id = i
      <4>1. Hers \in stored' /\ \A s \in stored' : s.table = "workspace" /\ s.id = i => s.version <= Hers.version
        BY <3>1, <1>2, <1>6, <1>9, <2>1 DEF Workspace
      <4> QED
        BY <3>1, <4>1, <1>9
    <3>2. CASE p = "worker" /\ Hers.id # i
      <4>1. \A s \in stored' : s.id = i => s \in stored
        BY <3>2, <1>2, <1>6
      <4>2. PICK r \in stored : /\ r.table = "workspace" /\ r.id = i
                                /\ \A s \in stored : s.table = "workspace" /\ s.id = i => s.version <= r.version
        BY <2>2, <4>1 DEF IInv, StoredWorkspaces
      <4> QED
        BY <4>1, <4>2, <1>2
    <3>3. CASE p \in Thread /\ \E y \in stored : y.table = "workspace" /\ y.id = i
      <4>1. PICK r \in stored : /\ r.table = "workspace" /\ r.id = i
                                /\ \A s \in stored : s.table = "workspace" /\ s.id = i => s.version <= r.version
        BY <3>3 DEF IInv, StoredWorkspaces
      <4>2. r.version \in Nat \ {0}
        BY <4>1, <1>2, <2>1 DEF Workspace
      <4>3. \A s \in rows : s.table = "workspace" /\ s.id = i => s.version <= r.version
        BY <3>3, <4>2, <1>8
      <4> QED
        BY <4>1, <4>3, <1>2
    <3>4. CASE p \in Thread /\ ~ \E y \in stored : y.table = "workspace" /\ y.id = i
      <4>1. \A s \in stored' : s.table = "workspace" /\ s.id = i => s.version = 1
        BY <3>4, <1>2, <1>8
      <4> QED
        BY <4>1, <2>2
    <3> QED
      BY <3>1, <3>2, <3>3, <3>4, <1>1
  <2> QED
    BY <2>1, <2>2 DEF StoredWorkspaces
<1>13. PendingWorkspaces'
  <2>1. \A c \in Conns : pending'[c] = {} \/ (pending'[c] = pending[c] /\ conn'[c] = conn[c])
    BY <1>3
  <2>2. pending'["worker"] \subseteq IF pc'["worker"] = "commit" THEN {Hers'} ELSE {}
    <3>1. CASE p = "worker"
      BY <3>1, <1>1, <1>3
    <3>2. CASE p \in Thread
      BY <3>2, <1>1, <1>2, <1>3 DEF IInv, PendingWorkspaces, Conns, Hers
    <3> QED
      BY <3>1, <3>2, <1>1
  <2> QED
    BY <2>1, <2>2 DEF IInv, PendingWorkspaces, Conns
<1>14. HandsFull'
  <2> SUFFICES ASSUME NEW q \in Proc, Alone(q)', pc'[q] # "idle"
               PROVE  /\ pc'[q] \in {"insert", "commit"} \/ at'[q] = 2 => conn'[Conn(q)] \in {"ok", "broken"}
                      /\ conn'[Conn(q)] = "ok" =>
                           \A k \in {1, 2} : Written(q, k)' => writes'[q][k] \in pending'[Conn(q)]
    BY DEF HandsFull, Conn
  <2>1. q # p /\ Alone(q) /\ pc[q] # "idle"
    BY <1>2 DEF Alone
  <2>2. Conn(q) # Conn(p) /\ Conn(q) \in Conns
    BY <2>1, <1>2, SoleUser DEF Conn, Conns
  <2> QED
    BY <2>1, <2>2, <1>2, <1>3 DEF IInv, HandsFull, Written
<1>15. NothingElsePending'
  <2> SUFFICES ASSUME ~ shared, NEW r \in pending'["api"]
               PROVE  \E t \in Thread : pc'[t] # "idle" /\ \E k \in {1, 2} : Written(t, k)' /\ r = writes'[t][k]
    BY <1>2 DEF NothingElsePending
  <2>1. p = "worker" /\ pending'["api"] = pending["api"]
    BY <1>1, <1>3 DEF Conns
  <2>2. PICK t \in Thread : pc[t] # "idle" /\ \E k \in {1, 2} : Written(t, k) /\ r = writes[t][k]
    BY <2>1 DEF IInv, NothingElsePending
  <2> QED
    BY <2>1, <2>2, <1>1, <1>2 DEF Written
<1>16. AnsweredIsStored'
  <2>1. ~ shared => Alone(p)
    BY DEF Alone
  <2> QED
    BY <2>1, <1>2, <1>5 DEF IInv, AnsweredIsStored
<1>17. BootstrapIsDurable'
  <2> SUFFICES ASSUME NEW r \in ToSet(writes[p]), r.table = "workspace", r.version > 1
               PROVE  r \in stored'
    BY <1>2 DEF IInv, BootstrapIsDurable
  <2>1. CASE p = "worker"
    BY <2>1, <1>2, <1>5 DEF Alone
  <2>2. CASE p \in Thread
    <3>1. PICK k \in DOMAIN writes[p] : r = writes[p][k]
      BY DEF ToSet
    <3>2. CASE IsPut(writes[p])
      BY <3>1, <3>2, Lengths DEF IsPut
    <3>3. CASE IsPlan(writes[p])
      BY <3>1, <3>3, Lengths DEF IsPlan, Key
    <3> QED
      BY <2>2, <3>2, <3>3, <1>2 DEF IInv, RequestShape
  <2> QED
    BY <2>1, <2>2, <1>1
<1>18. WorkspaceChain'
    BY <1>1, <1>2, <1>6, <1>8, <1>9 DEF IInv, WorkspaceChain
<1>19. LockIsAtomic'
  <2> SUFFICES ASSUME ~ shared, NEW f \in Fresh
               PROVE  (\E r \in rows : Key(r) = <<"universe", f, 1>>)
                         <=> (\E r \in rows : Key(r) = <<"workspace", f, 1>>)
    BY <1>2 DEF IInv, LockIsAtomic
  <2>1. CASE p = "worker"
    BY <2>1, <1>6, <1>9 DEF Key
  <2>2. CASE p \in Thread
    <3>1. rows = ToSet(writes[p])
      <4>1. \A r \in rows : \E t \in Thread : pc[t] # "idle" /\ \E k \in {1, 2} : Written(t, k) /\ r = writes[t][k]
        BY <2>2, <1>7 DEF IInv, NothingElsePending
      <4>2. \A r \in rows : \E k \in {1, 2} : Written(p, k) /\ r = writes[p][k]
        BY <4>1, <2>2, <1>2 DEF IInv, OneAtATime
      <4> QED
        BY <4>2, <1>5 DEF Alone, Written, ToSet
    <3>2. CASE IsPut(writes[p])
      <4>1. \A r \in rows : r.id \in Id
        BY <3>1, <3>2, Lengths DEF IsPut, ToSet
      <4> QED
        BY <4>1, StoreAssumption DEF Key
    <3>3. CASE IsPlan(writes[p])
      <4>1. rows = {writes[p][1], writes[p][2]}
        BY <3>1, <3>3, Lengths DEF IsPlan, ToSet
      <4> QED
        BY <4>1, <3>3 DEF IsPlan, Key
    <3> QED
      BY <2>2, <3>2, <3>3, <1>2 DEF IInv, RequestShape
  <2> QED
    BY <2>1, <2>2, <1>1
<1> QED
    BY <1>4, <1>10, <1>11, <1>12, <1>13, <1>14, <1>15, <1>16, <1>17, <1>18, <1>19 DEF IInv

LEMMA RestartKeeps ==
    ASSUME IInv, NEW c \in Conns, Restart(c)
    PROVE  IInv'
<1>1. /\ "worker" \in Proc /\ Conn("worker") = "worker"
      /\ \A t \in Thread : t \in Proc /\ t # "worker" /\ Conn(t) = "api"
      /\ \A q \in Proc : Conn(q) \in Conns /\ (q = "worker" \/ q \in Thread)
    BY StoreAssumption DEF Proc, Conn, Conns
<1>2. /\ pending'[c] = {} /\ conn'[c] = "ok"
      /\ \A d \in Conns \ {c} : pending'[d] = pending[d] /\ conn'[d] = conn[d]
      /\ \A q \in Proc : Conn(q) = c => pc'[q] = "idle"
      /\ \A q \in Proc : Conn(q) # c =>
            pc'[q] = pc[q] /\ writes'[q] = writes[q] /\ at'[q] = at[q]
      /\ UNCHANGED <<stored, answered, shared>>
    BY DEF Restart, Leave, IInv, Typed
<1>3. Typed'
    BY DEF IInv, Typed, Restart, Leave, Conns
<1>4. RequestShape' /\ OneAtATime' /\ StoredWorkspaces'
    BY <1>1, <1>2 DEF IInv, RequestShape, OneAtATime, StoredWorkspaces
<1>5. WorkerShape'
    BY <1>1, <1>2 DEF IInv, WorkerShape, Hers
<1>6. PendingWorkspaces'
    BY <1>1, <1>2 DEF IInv, PendingWorkspaces, Hers, Conns
<1>7. HandsFull'
    BY <1>1, <1>2 DEF IInv, HandsFull, Alone, Written, Conn
<1>8. NothingElsePending'
  <2>1. CASE c = "api"
    BY <2>1, <1>2 DEF NothingElsePending
  <2>2. CASE c = "worker"
    BY <2>2, <1>1, <1>2 DEF IInv, NothingElsePending, Written, Conns
  <2> QED
    BY <2>1, <2>2 DEF Conns
<1>9. AnsweredIsStored' /\ BootstrapIsDurable' /\ WorkspaceChain' /\ LockIsAtomic'
    BY <1>2 DEF IInv, AnsweredIsStored, BootstrapIsDurable, WorkspaceChain, LockIsAtomic
<1> QED
    BY <1>3, <1>4, <1>5, <1>6, <1>7, <1>8, <1>9 DEF IInv

\* Both connections break and are empty.
LEMMA RestartPostgresKeeps ==
    ASSUME IInv, RestartPostgres
    PROVE  IInv'
<1>1. /\ \A c \in Conns : pending'[c] = {} /\ conn'[c] = "broken"
      /\ UNCHANGED <<stored, pc, writes, at, answered, shared>>
      /\ \A q \in Proc : Conn(q) \in Conns
      /\ "worker" \in Proc
    BY DEF RestartPostgres, IInv, Typed, Conns, Conn, Proc
<1>2. Typed'
    BY DEF IInv, Typed, RestartPostgres, Conns
<1>3. RequestShape' /\ OneAtATime' /\ StoredWorkspaces' /\ WorkerShape'
    BY <1>1 DEF IInv, RequestShape, OneAtATime, StoredWorkspaces, WorkerShape, Hers
<1>4. PendingWorkspaces' /\ HandsFull' /\ NothingElsePending'
    BY <1>1 DEF IInv, PendingWorkspaces, HandsFull, NothingElsePending, Conns, Conn
<1>5. AnsweredIsStored' /\ BootstrapIsDurable' /\ WorkspaceChain' /\ LockIsAtomic'
    BY <1>1 DEF IInv, AnsweredIsStored, BootstrapIsDurable, WorkspaceChain, LockIsAtomic
<1> QED
    BY <1>2, <1>3, <1>4, <1>5 DEF IInv

\* A statement that raises leaves nothing of its own behind.
LEMMA ErrorsKeep ==
    ASSUME IInv, NEW p \in Proc, Conflict(p) \/ Violation(p) \/ Raise(p) \/ CommitRaises(p)
    PROVE  IInv'
<1>1. pc[p] # "idle" /\ Fail(p)
    BY DEF Conflict, Violation, Raise, CommitRaises
<1>2. Left(p)
  <2>1. CASE Conflict(p)
    <3>1. IsLock(p) \/ (DOMAIN writes[p] = {1} /\ at[p] = 1)
      BY <1>1, WritesShape DEF IsLock
    <3> QED
      BY <2>1, <3>1 DEF Conflict, OnError, Left, Written
  <2>2. CASE Violation(p)
    BY <2>2 DEF Violation, Left
  <2>3. CASE Raise(p)
    BY <2>3 DEF Raise, OnError, Left, Usable
  <2>4. CASE CommitRaises(p)
    BY <2>4 DEF CommitRaises, OnError, Left
  <2> QED
    BY <2>1, <2>2, <2>3, <2>4
<1> QED
    BY <1>1, <1>2, FailKeeps

LEMMA RequestsKeep ==
    ASSUME IInv, NEW t \in Thread, Request(t)
    PROVE  IInv'
<1>1. ASSUME NEW i \in Id, NEW c \in Content, CreateWorkspace(t, i, c)
      PROVE  IInv'
  <2>1. IsPut(<<Row("workspace", i, 1, c)>>)
    BY DEF IsPut, Row, Workspace
  <2> QED
    BY <1>1, <2>1, BeginKeeps DEF CreateWorkspace
<1>2. ASSUME NEW i \in Id, NEW c \in Content, SaveStrategy(t, i, c)
      PROVE  IInv'
  <2>1. PICK v : Begin(t, <<Row("strategy", i, v, c)>>) /\ pc[t] = "idle"
    BY <1>2 DEF SaveStrategy
  <2>2. IsPut(<<Row("strategy", i, v, c)>>)
    BY DEF IsPut, Row
  <2> QED
    BY <2>1, <2>2, BeginKeeps
<1>3. ASSUME NEW f \in Fresh, NEW c \in Content, NEW d \in Content, LockPlan(t, f, c, d)
      PROVE  IInv'
  <2>1. IsPlan(<<Row("universe", f, 1, c), Row("workspace", f, 1, d)>>)
    BY DEF IsPlan, Row, Key, Workspace
  <2> QED
    BY <1>3, <2>1, BeginKeeps DEF LockPlan
<1> QED
    BY <1>1, <1>2, <1>3 DEF Request

LEMMA StutterKeeps == IInv /\ UNCHANGED vars => IInv'
<1> SUFFICES ASSUME IInv, UNCHANGED vars PROVE IInv'
    OBVIOUS
<1>1. Typed' /\ RequestShape' /\ OneAtATime' /\ StoredWorkspaces' /\ WorkerShape'
    BY DEF vars, IInv, Typed, RequestShape, OneAtATime, StoredWorkspaces, WorkerShape, Hers
<1>2. PendingWorkspaces' /\ HandsFull' /\ NothingElsePending'
    BY DEF vars, IInv, PendingWorkspaces, HandsFull, NothingElsePending, Conn, Hers, Written, Alone
<1>3. AnsweredIsStored' /\ BootstrapIsDurable' /\ WorkspaceChain' /\ LockIsAtomic'
    BY DEF vars, IInv, AnsweredIsStored, BootstrapIsDurable, WorkspaceChain, LockIsAtomic
<1> QED
    BY <1>1, <1>2, <1>3 DEF IInv

LEMMA NextKeeps == IInv /\ [Next]_vars => IInv'
<1> SUFFICES ASSUME IInv, [Next]_vars PROVE IInv'
    OBVIOUS
<1>1. ASSUME NEW t \in Thread, Request(t) PROVE IInv'
    BY <1>1, RequestsKeep
<1>2. ASSUME NEW i \in Id \cup Fresh, Bootstrap(i) PROVE IInv'
    BY <1>2, BootstrapKeeps
<1>3. ASSUME NEW p \in Proc, PutStep(p) PROVE IInv'
    BY <1>3, ErrorsKeep, SelectKeeps, InsertKeeps, CommitKeeps DEF PutStep
<1>4. ASSUME NEW c \in {"api", "worker"}, Restart(c) PROVE IInv'
    BY <1>4, RestartKeeps DEF Conns
<1>5. CASE RestartPostgres
    BY <1>5, RestartPostgresKeeps
<1>6. CASE UNCHANGED vars
    BY <1>6, StutterKeeps
<1> QED
    BY <1>1, <1>2, <1>3, <1>4, <1>5, <1>6 DEF Next

THEOREM Invariance == Spec => []IInv
<1>1. Init => IInv
    BY InitHolds
<1>2. IInv /\ [Next]_vars => IInv'
    BY NextKeeps
<1> QED
    BY <1>1, <1>2, PTL DEF Spec

-----------------------------------------------------------------------------
(* While the API has served one request at a time, what it has answered is *)
(* stored (PostgresProductRepository.put), in spite of restarts.           *)
THEOREM AnswersAreStored == Spec => []AnsweredIsStored
<1>1. IInv => AnsweredIsStored
    BY DEF IInv
<1> QED
    BY <1>1, Invariance, PTL

(* ... and a lock is stored whole or not at all                            *)
(* (put_workspace_with_universe).                                          *)
THEOREM LocksAreAtomic == Spec => []LockIsAtomic
<1>1. IInv => LockIsAtomic
    BY DEF IInv
<1> QED
    BY <1>1, Invariance, PTL

(* What the worker reports as bootstrapped is stored, however the requests *)
(* of the API overlap (workspace_bootstrap_handler).                       *)
THEOREM BootstrapsAreDurable == Spec => []BootstrapIsDurable
<1>1. IInv => BootstrapIsDurable
    BY DEF IInv
<1> QED
    BY <1>1, Invariance, PTL

(* Every later version of a workspace repeats the stored one before it.    *)
THEOREM WorkspacesChain == Spec => []WorkspaceChain
<1>1. IInv => WorkspaceChain
    BY DEF IInv
<1> QED
    BY <1>1, Invariance, PTL

-----------------------------------------------------------------------------
(***************************************************************************)
(* Why a write fails.                                                      *)
(***************************************************************************)
(* What is written is what PostgreSQL takes.                               *)
Clean == \A r \in stored \cup pending["api"] \cup pending["worker"] : r.content \notin Unstorable

LEMMA CleanStep == IInv /\ Clean /\ [Next]_vars => Clean'
<1> SUFFICES ASSUME IInv, Clean, [Next]_vars PROVE Clean'
  OBVIOUS
<1>1. DOMAIN pending = Conns
  BY DEF IInv, Typed
<1>2. ASSUME stored' = stored, \A c \in Conns : pending'[c] \subseteq pending[c] PROVE Clean'
  BY <1>2 DEF Clean, Conns
<1>3. ASSUME NEW t \in Thread, Request(t) PROVE Clean'
  BY <1>2, <1>3 DEF Request, CreateWorkspace, SaveStrategy, LockPlan, Begin
<1>4. ASSUME NEW i \in Id \cup Fresh, Bootstrap(i) PROVE Clean'
  BY <1>2, <1>4 DEF Bootstrap, Begin
<1>5. ASSUME NEW p \in Proc, PutStep(p) PROVE Clean'
  <2>1. CASE Insert(p)
    <3>1. stored' = stored /\ pending' = [pending EXCEPT ![Conn(p)] = @ \cup {Hand(p)}]
          /\ Hand(p).content \notin Unstorable
      BY <2>1 DEF Insert, Advance, Storable
    <3>2. \A c \in Conns : pending'[c] \subseteq pending[c] \cup {Hand(p)}
      BY <1>1, <3>1
    <3> QED BY <3>1, <3>2 DEF Clean, Conns
  <2>2. CASE Commit(p)
    <3>1. stored' = stored \cup pending[Conn(p)]
          /\ pending' = [pending EXCEPT ![Conn(p)] = {}] /\ Conn(p) \in Conns
      BY <2>2 DEF Commit, Flushed, Rollback, Conn, Conns
    <3>2. \A c \in Conns : pending'[c] \subseteq pending[c]
      BY <1>1, <3>1
    <3> QED BY <3>1, <3>2 DEF Clean, Conns
  <2>3. CASE Select(p)
    BY <1>2, <2>3 DEF Select
  <2>4. CASE Conflict(p) \/ Violation(p) \/ Raise(p) \/ CommitRaises(p)
    <3>1. stored' = stored /\ (Rollback(p) \/ Abort(p) \/ Same)
      BY <2>4 DEF Conflict, Violation, Raise, CommitRaises, Fail, OnError
    <3> QED BY <1>1, <1>2, <3>1 DEF Rollback, Abort, Same
  <2> QED BY <1>5, <2>1, <2>2, <2>3, <2>4 DEF PutStep
<1>6. ASSUME NEW c \in {"api", "worker"}, Restart(c) PROVE Clean'
  BY <1>1, <1>2, <1>6 DEF Restart
<1>7. CASE RestartPostgres
  BY <1>1, <1>2, <1>7 DEF RestartPostgres
<1>8. CASE UNCHANGED vars
  BY <1>2, <1>8 DEF vars
<1> QED BY <1>3, <1>4, <1>5, <1>6, <1>7, <1>8 DEF Next

(* The worker's transaction is never in error, and that of requests one at *)
(* a time never for a unique violation: what a request writes is told from *)
(* what is stored by its content, and once it has looked, its key stays    *)
(* free.                                                                   *)
Novel(t) == \A r \in stored, k \in DOMAIN writes[t] : r.content # writes[t][k].content
Unspoilt ==
    /\ conn["worker"] \in {"ok", "broken"}
    /\ ~ shared =>
        /\ conn["api"] # "aborted"
        /\ \A t \in Thread : pc[t] # "idle" => Novel(t)
        /\ \A t \in Thread : pc[t] = "insert" => Taken(t) = {}

LEMMA UnspoiltInit == Init => Unspoilt
  BY DEF Init, Unspoilt, Proc

(* A request whose records are all of a new content starts.                *)
LEMMA UnspoiltBegins ==
    ASSUME IInv, Unspoilt, NEW p \in Proc, NEW rs, Begin(p, rs), pc[p] = "idle",
           p \in Thread => \A k \in DOMAIN rs : New(rs[k].content)
    PROVE  Unspoilt'
<1>1. /\ pc' = [pc EXCEPT ![p] = "select"] /\ writes' = [writes EXCEPT ![p] = rs]
      /\ at' = [at EXCEPT ![p] = 1]
      /\ shared' = (shared \/ \E t \in Thread \ {p} : p \in Thread /\ pc[t] # "idle")
      /\ UNCHANGED <<stored, pending, conn>>
  BY DEF Begin
<1>2. /\ DOMAIN pc = Proc /\ DOMAIN writes = Proc /\ DOMAIN at = Proc /\ "worker" \notin Thread
      /\ shared \in BOOLEAN
  BY StoreAssumption DEF IInv, Typed
<1>3. SUFFICES ASSUME ~ shared'
               PROVE  /\ \A t \in Thread : pc'[t] # "idle" => Novel(t)'
                      /\ \A t \in Thread : pc'[t] = "insert" => Taken(t)' = {}
  BY <1>1, <1>2 DEF Unspoilt
<1>4. ~ shared /\ (p \in Thread => \A t \in Thread \ {p} : pc[t] = "idle") BY <1>1, <1>2, <1>3
<1>5. ASSUME NEW t \in Thread, pc'[t] # "idle" PROVE Novel(t)'
  <2>1. CASE t = p
    <3>1. \A k \in DOMAIN rs, r \in stored : r.content # rs[k].content
      BY <2>1 DEF New, Known
    <3> QED BY <1>1, <1>2, <2>1, <3>1 DEF Novel, Proc
  <2>2. CASE t # p
    <3>1. pc'[t] = pc[t] /\ writes'[t] = writes[t] BY <1>1, <1>2, <2>2 DEF Proc
    <3> QED BY <1>1, <1>4, <1>5, <3>1 DEF Unspoilt, Novel
  <2> QED BY <2>1, <2>2
<1>6. ASSUME NEW t \in Thread, pc'[t] = "insert" PROVE Taken(t)' = {}
  <2>1. t # p /\ t \in Proc BY <1>1, <1>2, <1>6 DEF Proc
  <2>2. pc[t] = "insert" /\ writes'[t] = writes[t] /\ at'[t] = at[t]
    BY <1>1, <1>2, <1>6, <2>1
  <2> QED BY <1>1, <1>4, <2>2 DEF Unspoilt, Taken, Seen, Hand, Conn
<1> QED BY <1>5, <1>6

(* The worker's version is greater than any it can see.                    *)
LEMMA HersIsFree ==
    ASSUME IInv, pc["worker"] \in {"select", "insert"}
    PROVE  Taken("worker") = {} /\ Hand("worker") \notin Seen("worker")
<1>1. /\ Hand("worker") = Hers /\ Seen("worker") = stored /\ Workspace(Hers)
      /\ \A r \in stored : r.table = "workspace" /\ r.id = Hers.id => r.version < Hers.version
  BY DEF IInv, WorkerShape, PendingWorkspaces, Hand, Hers, Seen, Conn, Conns
<1>2. Hers.table = "workspace" /\ Hers.version \in Nat BY <1>1 DEF Workspace, Row
<1>3. \A r \in stored : Key(r) # Key(Hers) BY <1>1, <1>2 DEF Key
<1> QED BY <1>1, <1>3 DEF Taken

(* Where a process stands alone, what it has in hand nobody has stored.    *)
LEMMA HandIsNew ==
    ASSUME IInv, Unspoilt, ~ shared, NEW p \in Proc, pc[p] \in {"select", "insert"}
    PROVE  Hand(p) \notin Seen(p)
<1>1. CASE p = "worker" BY <1>1, HersIsFree
<1>2. CASE p \in Thread /\ p # "worker"
  <2>1. at[p] \in DOMAIN writes[p] BY WritesShape
  <2>2. Hand(p) \notin stored BY <1>2, <2>1 DEF Unspoilt, Novel, Hand
  <2>3. ASSUME Hand(p) \in pending["api"] PROVE FALSE
    <3>1. PICK t \in Thread :
            pc[t] # "idle" /\ \E k \in {1, 2} : Written(t, k) /\ Hand(p) = writes[t][k]
      BY <2>3 DEF IInv, NothingElsePending
    <3>2. t = p BY <1>2, <3>1 DEF IInv, OneAtATime
    <3>3. PICK k \in {1, 2} : k \in DOMAIN writes[p] /\ k < at[p] /\ writes[p][at[p]] = writes[p][k]
      BY <3>1, <3>2 DEF Written, Hand
    <3>4. at[p] = 2 /\ k = 1 /\ IsPlan(writes[p])
      BY <1>2, <3>3 DEF IInv, RequestShape
    <3> QED BY <3>3, <3>4 DEF IsPlan, Key
  <2> QED BY <1>2, <2>2, <2>3 DEF Seen, Conn
<1> QED BY <1>1, <1>2 DEF Proc

LEMMA ViolationIsDeserved ==
    ASSUME IInv, Clean, Unspoilt, NEW p \in Proc, Violation(p)
    PROVE  p \in Thread /\ p # "worker" /\ (shared \/ ~ Storable(p))
<1>1. pc[p] = "insert" /\ (Taken(p) # {} \/ ~ Storable(p)) BY DEF Violation
<1>2. p # "worker"
  <2> SUFFICES ASSUME p = "worker" PROVE FALSE
    OBVIOUS
  <2>1. Taken("worker") = {} BY <1>1, HersIsFree
  <2>2. Row("workspace", Hers.id, Hers.version - 1, Hers.content) \in stored /\ at["worker"] = 1
    BY <1>1 DEF IInv, WorkerShape
  <2>3. Hers.content \notin Unstorable BY <2>2 DEF Clean, Row
  <2> QED BY <1>1, <2>1, <2>2, <2>3 DEF Storable, Hand, Hers
<1>3. p \in Thread BY <1>2 DEF Proc
<1>4. ~ shared => Taken(p) = {} BY <1>1, <1>3 DEF Unspoilt
<1> QED BY <1>1, <1>2, <1>3, <1>4

(* An error leaves a connection as it was, rolled back or broken, unless   *)
(* it is a violation.                                                      *)
LEMMA ErrorsAreClean ==
    ASSUME IInv, Clean, Unspoilt, NEW p \in Proc, pc[p] # "idle",
           Conflict(p) \/ Violation(p) \/ Raise(p) \/ CommitRaises(p)
    PROVE  Unspoilt'
<1>1. /\ UNCHANGED <<stored, shared>> /\ shared \in BOOLEAN
      /\ pc' = [q \in Proc |-> IF q = p THEN "idle" ELSE pc[q]]
      /\ \A q \in Proc \ {p} : writes'[q] = writes[q] /\ at'[q] = at[q]
      /\ Thread \subseteq Proc
  BY DEF Conflict, Violation, Raise, CommitRaises, Fail, Finish, Leave, IInv, Typed, Proc
<1>2. CASE Violation(p) /\ p \in Thread /\ shared
  <2>1. UNCHANGED conn \/ \E v : conn' = [conn EXCEPT !["api"] = v]
    BY <1>2, StoreAssumption DEF Violation, Rollback, Abort, Conn
  <2>2. conn'["worker"] = conn["worker"] BY <2>1 DEF IInv, Typed, Conns
  <2> QED BY <1>1, <1>2, <2>2 DEF Unspoilt
<1>3. CASE ~ Violation(p) \/ ~ shared
  <2>1. \/ Same \/ Rollback(p)
        \/ Conn(p) = "api" /\ Abort(p) /\ ~ Storable(p)
    BY <1>3, ViolationIsDeserved DEF Conflict, Violation, Raise, CommitRaises, OnError, Conn
  <2>2. /\ conn'["worker"] \in {"ok", "broken"}
        /\ ~ shared => conn'["api"] # "aborted"
    <3>1. conn' = conn \/ (\E v \in {"ok", "broken"} : conn' = [conn EXCEPT ![Conn(p)] = v])
          \/ conn' = [conn EXCEPT !["api"] = "refused"]
      BY <2>1 DEF Same, Rollback, Abort, IInv, Typed, Conns, Conn
    <3> QED BY <3>1 DEF Unspoilt, IInv, Typed, Conns, Conn
  <2>3. \A c \in Conns : pending'[c] \subseteq pending[c]
    BY <2>1 DEF Same, Rollback, Abort, IInv, Typed, Conns, Conn
  <2>4. ASSUME ~ shared, NEW t \in Thread, pc'[t] # "idle"
        PROVE  /\ pc[t] # "idle" /\ Novel(t)'
               /\ pc'[t] = "insert" => Taken(t)' = {}
    <3>1. t # p /\ t \in Proc /\ pc'[t] = pc[t] BY <1>1, <2>4
    <3>2. Novel(t)' BY <1>1, <2>4, <3>1 DEF Unspoilt, Novel
    <3>3. Seen(t)' \subseteq Seen(t) BY <1>1, <2>3 DEF Seen, Conn, Conns
    <3>4. Hand(t)' = Hand(t) BY <1>1, <3>1 DEF Hand
    <3>5. pc'[t] = "insert" => Taken(t)' = {}
      BY <2>4, <3>1, <3>3, <3>4 DEF Unspoilt, Taken, Key
    <3> QED BY <2>4, <3>1, <3>2, <3>5
  <2> QED BY <1>1, <2>2, <2>4 DEF Unspoilt, Conns
<1> QED BY <1>2, <1>3, ViolationIsDeserved

(* The process that goes on is alone on its connection.                    *)
LEMMA UnspoiltGoesOn ==
    ASSUME IInv, Unspoilt, NEW p \in Proc, Select(p) \/ Insert(p) PROVE Unspoilt'
<1>1. /\ UNCHANGED <<stored, shared, conn, writes>> /\ shared \in BOOLEAN
      /\ \E s \in {"select", "insert", "commit"} : pc' = [pc EXCEPT ![p] = s]
      /\ pc[p] # "idle" /\ pc \in [Proc -> {"idle", "select", "insert", "commit"}]
      /\ \A q \in Proc \ {p} : at'[q] = at[q]
      /\ Thread \subseteq Proc
  BY DEF Select, Insert, Advance, IInv, Typed, Proc
<1>2. ASSUME ~ shared, NEW t \in Thread, pc'[t] # "idle" PROVE Novel(t)'
  <2>1. pc[t] # "idle" BY <1>1, <1>2
  <2> QED BY <1>1, <1>2, <2>1 DEF Unspoilt, Novel
<1>3. ASSUME ~ shared, NEW t \in Thread, pc'[t] = "insert" PROVE Taken(t)' = {}
  <2>1. CASE t = p
    <3>1. Select(p) BY <1>1, <1>3, <2>1 DEF Insert, Advance
    <3> QED BY <1>1, <2>1, <3>1 DEF Select, Taken, Seen, Hand
  <2>2. CASE t # p
    <3>1. pc[t] = "insert" /\ at'[t] = at[t] BY <1>1, <1>3, <2>2
    <3>2. p = "worker" BY <1>1, <1>3, <2>2, <3>1 DEF IInv, OneAtATime, Proc
    <3>3. pending'["api"] = pending["api"]
      BY <3>2 DEF Select, Insert, Conn, IInv, Typed, Conns
    <3> QED BY <1>1, <1>3, <2>2, <3>1, <3>3, StoreAssumption, <3>2
        DEF Unspoilt, Taken, Seen, Hand, Conn
  <2> QED BY <2>1, <2>2
<1> QED BY <1>1, <1>2, <1>3 DEF Unspoilt

LEMMA UnspoiltCommits ==
    ASSUME IInv, Unspoilt, NEW p \in Proc, Commit(p) PROVE Unspoilt'
<1>1. /\ pc[p] = "commit" /\ conn[Conn(p)] # "broken" /\ shared' = shared /\ shared \in BOOLEAN
      /\ stored' = stored \cup pending[Conn(p)] /\ Rollback(p)
      /\ pc' = [q \in Proc |-> IF q = p THEN "idle" ELSE pc[q]]
      /\ \A q \in Proc \ {p} : writes'[q] = writes[q] /\ at'[q] = at[q]
      /\ Thread \subseteq Proc
  BY DEF Commit, Flushed, Succeed, Finish, Leave, IInv, Typed, Proc
<1>2. \A c \in Conns : conn'[c] \in {"ok", "broken"} \/ conn'[c] = conn[c]
  BY <1>1 DEF Rollback, IInv, Typed, Conns, Conn
<1>3. ASSUME ~ shared, NEW t \in Thread, pc'[t] # "idle"
      PROVE  /\ Novel(t)'
             /\ pc'[t] = "insert" => Taken(t)' = {}
  <2>1. t # p /\ t \in Proc /\ pc'[t] = pc[t] BY <1>1, <1>3
  <2>2. p = "worker" BY <1>1, <1>3, <2>1 DEF IInv, OneAtATime, Proc
  <2>3. /\ stored' \subseteq stored \cup {Hers} /\ pending'["api"] = pending["api"]
        /\ Workspace(Hers) /\ Hers.version > 1
        /\ Row("workspace", Hers.id, Hers.version - 1, Hers.content) \in stored
    BY <1>1, <2>2
    DEF IInv, PendingWorkspaces, WorkerShape, Conn, Conns, Rollback, Typed
  <2>4. Novel(t) BY <1>3, <2>1 DEF Unspoilt
  <2>5. Novel(t)'
    <3>1. \A k \in DOMAIN writes[t] : Hers.content # writes[t][k].content
      BY <2>3, <2>4 DEF Novel, Row
    <3> QED BY <1>1, <2>1, <2>3, <2>4, <3>1 DEF Novel
  <2>6. ASSUME pc'[t] = "insert" PROVE Taken(t)' = {}
    <3>1. Taken(t) = {} /\ Hand(t)' = Hand(t) BY <1>1, <1>3, <2>1, <2>6 DEF Unspoilt, Hand
    <3>2. Hers.table = "workspace" /\ Hers.version \in Nat BY <2>3 DEF Workspace, Row
    <3>3. Key(Hers) # Key(Hand(t))
      <4>1. \/ IsPut(writes[t]) /\ at[t] = 1
            \/ IsPlan(writes[t]) /\ at[t] \in {1, 2}
        BY <1>3, <2>1 DEF IInv, RequestShape
      <4>2. Hand(t).table = "workspace" => Hand(t).version = 1
        BY <4>1 DEF IsPut, IsPlan, Key, Hand
      <4> QED BY <2>3, <3>2, <4>2 DEF Key
    <3>4. t # "worker" BY StoreAssumption
    <3> QED BY <2>3, <3>1, <3>3, <3>4 DEF Taken, Seen, Conn, Key
  <2> QED BY <2>5, <2>6
<1> QED BY <1>1, <1>2, <1>3 DEF Unspoilt, Conns

LEMMA UnspoiltRestarts ==
    ASSUME IInv, Unspoilt, (\E c \in Conns : Restart(c)) \/ RestartPostgres PROVE Unspoilt'
<1>1. /\ UNCHANGED <<stored, shared>> /\ Thread \subseteq Proc
      /\ \A c \in Conns : /\ conn'[c] \in {"ok", "broken"} \/ conn'[c] = conn[c]
                          /\ pending'[c] \subseteq pending[c]
  BY DEF Restart, RestartPostgres, IInv, Typed, Conns, Proc
<1>2. ASSUME NEW t \in Thread, pc'[t] # "idle"
      PROVE  pc'[t] = pc[t] /\ writes'[t] = writes[t] /\ at'[t] = at[t]
  BY <1>1, <1>2 DEF Restart, RestartPostgres, Leave
<1>3. ASSUME ~ shared, NEW t \in Thread, pc'[t] # "idle"
      PROVE  Novel(t)' /\ (pc'[t] = "insert" => Taken(t)' = {})
  <2>1. Novel(t)' BY <1>1, <1>2, <1>3 DEF Unspoilt, Novel
  <2>2. Seen(t)' \subseteq Seen(t) BY <1>1 DEF Seen, Conn, Conns
  <2>3. Hand(t)' = Hand(t) BY <1>2, <1>3 DEF Hand
  <2> QED BY <1>2, <1>3, <2>1, <2>2, <2>3 DEF Unspoilt, Taken, Key
<1> QED BY <1>1, <1>3 DEF Unspoilt, Conns

LEMMA UnspoiltStep == IInv /\ Clean /\ Unspoilt /\ [Next]_vars => Unspoilt'
<1> SUFFICES ASSUME IInv, Clean, Unspoilt, [Next]_vars PROVE Unspoilt'
  OBVIOUS
<1>1. CASE \E t \in Thread : Request(t)
  <2>1. PICK t \in Thread : Request(t) BY <1>1
  <2>2. ASSUME NEW rs, Begin(t, rs), pc[t] = "idle", \A k \in DOMAIN rs : New(rs[k].content)
        PROVE  Unspoilt'
    BY <2>2, UnspoiltBegins DEF Proc
  <2>3. \A table, i, v, c : \A k \in DOMAIN <<Row(table, i, v, c)>> :
          <<Row(table, i, v, c)>>[k].content = c
    BY DEF Row
  <2>4. CASE \E i \in Id, c \in Content : CreateWorkspace(t, i, c)
    BY <2>2, <2>3, <2>4 DEF CreateWorkspace
  <2>5. CASE \E i \in Id, c \in Content : SaveStrategy(t, i, c)
    BY <2>2, <2>3, <2>5 DEF SaveStrategy
  <2>6. CASE \E f \in Fresh, c, d \in Content : LockPlan(t, f, c, d)
    <3>1. PICK f \in Fresh, c \in Content, d \in Content : LockPlan(t, f, c, d) BY <2>6
    <3> DEFINE rs == <<Row("universe", f, 1, c), Row("workspace", f, 1, d)>>
    <3>2. \A k \in DOMAIN rs : rs[k].content \in {c, d} BY DEF Row
    <3>3. New(c) /\ New(d) /\ Begin(t, rs) /\ pc[t] = "idle" BY <3>1 DEF LockPlan
    <3> HIDE DEF rs
    <3>4. \A k \in DOMAIN rs : New(rs[k].content) BY <3>2, <3>3
    <3> QED BY <2>2, <3>3, <3>4
  <2> QED BY <2>1, <2>4, <2>5, <2>6 DEF Request
<1>2. CASE \E i \in Id \cup Fresh : Bootstrap(i)
  <2>1. \E rs : Begin("worker", rs) /\ pc["worker"] = "idle" BY <1>2 DEF Bootstrap
  <2> QED BY <2>1, UnspoiltBegins, StoreAssumption DEF Proc
<1>3. CASE \E p \in Proc : PutStep(p)
  <2>1. PICK p \in Proc : PutStep(p) BY <1>3
  <2>2. CASE Conflict(p) \/ Violation(p) \/ Raise(p) \/ CommitRaises(p)
    <3>1. pc[p] # "idle" BY <2>2 DEF Conflict, Violation, Raise, CommitRaises
    <3> QED BY <2>2, <3>1, ErrorsAreClean
  <2> QED BY <2>1, <2>2, UnspoiltGoesOn, UnspoiltCommits DEF PutStep
<1>4. CASE (\E c \in Conns : Restart(c)) \/ RestartPostgres BY <1>4, UnspoiltRestarts
<1>5. CASE UNCHANGED vars
  BY <1>5 DEF vars, Unspoilt, Novel, Taken, Seen, Hand
<1> QED BY <1>1, <1>2, <1>3, <1>4, <1>5 DEF Next, Conns

LEMMA Unspoiled == Spec => [](IInv /\ Clean /\ Unspoilt)
<1>1. Init => Clean BY DEF Init, Clean
<1> QED BY <1>1, CleanStep, UnspoiltInit, UnspoiltStep, Invariance, PTL DEF Spec

(* A write fails for a cause of its own (put raises ImmutableVersionError, *)
(* or PostgreSQL refuses the value) or, in a put, because of the value of  *)
(* a put before it; the worker's never fail, and of requests one at a time *)
(* no two collide.                                                         *)
THEOREM WritesOnlyFailForCause == Spec => WritesFailForCause
<1> DEFINE A == \A p \in Proc :
                  (Conflict(p) \/ Violation(p) \/ Raise(p)) /\ conn[Conn(p)] # "broken" =>
                    /\ p # "worker"
                    /\ \/ shared
                       \/ Conflict(p) /\ \E r \in Seen(p) : Key(r) = Key(Hand(p)) /\ r # Hand(p)
                       \/ Violation(p) /\ ~ Storable(p)
                       \/ Raise(p) /\ conn["api"] = "refused"
<1>1. ASSUME IInv, Clean, Unspoilt, NEW p \in Proc, conn[Conn(p)] # "broken", Conflict(p)
      PROVE  /\ p # "worker"
             /\ shared \/ \E r \in Seen(p) : Key(r) = Key(Hand(p)) /\ r # Hand(p)
  <2>1. pc[p] = "select" /\ Taken(p) # {} BY <1>1 DEF Conflict
  <2>2. p # "worker" BY <1>1, <2>1, HersIsFree
  <2>3. PICK r \in Seen(p) : Key(r) = Key(Hand(p)) BY <2>1 DEF Taken
  <2>4. shared \/ r # Hand(p) BY <1>1, <2>1, <2>3, HandIsNew DEF IInv, Typed
  <2> QED BY <2>2, <2>3, <2>4
<1>2. ASSUME IInv, Unspoilt, NEW p \in Proc, conn[Conn(p)] # "broken", Raise(p)
      PROVE  p # "worker" /\ (shared \/ conn["api"] = "refused")
  <2>1. conn[Conn(p)] \in {"aborted", "refused"}
    BY <1>2 DEF Raise, Usable, IInv, Typed, Conns, Conn
  <2>2. Conn(p) = "api" /\ p # "worker" BY <2>1, <1>2 DEF Unspoilt, Conn
  <2> QED BY <1>2, <2>1, <2>2 DEF Unspoilt, IInv, Typed
<1>3. IInv /\ Clean /\ Unspoilt /\ [Next]_vars => [A]_vars
  BY <1>1, <1>2, ViolationIsDeserved
<1> QED BY <1>3, Unspoiled, PTL DEF Spec, WritesFailForCause
=============================================================================
