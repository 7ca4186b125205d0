--------------------------- MODULE LivingGraphProofs ---------------------------
(***************************************************************************)
(* From evidence to a reviewed graph: what EvidenceIntake and LivingGraph, *)
(* which extends it, keep for any sources, evidence, decisions of the      *)
(* model and callers; and what AgentWorkflow, the command that asks for a  *)
(* graph to be built from evidence, keeps for any invocations, paths and   *)
(* crashes.  The two have no state in common.                              *)
(***************************************************************************)
EXTENDS LivingGraph, AgentWorkflow, TLAPS

-----------------------------------------------------------------------------
(***************************************************************************)
(* The books of the intake.                                                *)
(***************************************************************************)

(* The fields of the one collection.                                       *)
Formed(c) ==
    c = [at |-> c.at, run |-> c.run, call |-> c.call, left |-> c.left, got |-> c.got,
         error |-> c.error]
(* Who answers for what the ledger has: a receipt, or, as long as nothing  *)
(* has failed, the call that is being appended.                            *)
Accounted(o) ==
    \/ \E r \in receipts : r.run = o.run /\ o.obs \in r.keys
    \/ collect.at = "append" /\ collect.run = o.run /\ o.obs \in collect.got
Books ==
    /\ faults \in Nat /\ Formed(collect)
    /\ \A o \in ledger : o.obs \in Obs
    /\ collect.at = "append" =>
          collect.left \subseteq collect.got /\ collect.got \ collect.left \subseteq Known
    /\ \A r \in receipts : r.status = "completed" => r.keys \subseteq Known
    /\ faults = 0 => \A o \in ledger : Accounted(o)

LEMMA IdleIsFormed == Formed(Idle) /\ Idle.at = "idle"
BY DEF Formed, Idle

LEMMA AskingIsFormed ==
    ASSUME NEW r, NEW i, NEW k, k = [Idle EXCEPT !.at = "ask", !.run = r, !.call = i]
    PROVE  Formed(k) /\ k.at = "ask"
<1>1. k = [at |-> "ask", run |-> r, call |-> i, left |-> {}, got |-> {}, error |-> ""]
  BY DEF Idle
<1> QED BY <1>1 DEF Formed

LEMMA BooksInit == IntakeInit => Books
<1> SUFFICES ASSUME IntakeInit PROVE Books OBVIOUS
<1>1. ledger = {} /\ receipts = {} /\ faults = 0 /\ collect = Idle BY DEF IntakeInit
<1>2. Formed(collect) /\ collect.at # "append" BY <1>1, IdleIsFormed
<1> QED BY <1>1, <1>2 DEF Books

LEMMA BooksStep == Books /\ IntakeStep => Books'
<1> SUFFICES ASSUME Books, IntakeStep PROVE Books' OBVIOUS
<1> DEFINE c == collect
<1>1. ASSUME ledger' = ledger, receipts' = receipts, collect.at # "append",
             faults' \in {faults, faults + 1}, Formed(collect)',
             collect'.at = "append" => collect'.left = collect'.got
      PROVE  Books'
  <2>1. Known' = Known BY <1>1 DEF Known
  <2>2. collect'.left = collect'.got => collect'.got \ collect'.left = {} OBVIOUS
  <2>3. faults' \in Nat /\ (faults' = 0 => faults = 0) BY <1>1 DEF Books
  <2> QED BY <1>1, <2>1, <2>2, <2>3 DEF Books, Accounted
<1>2. ASSUME NEW r \in Run, BeginRun(r) PROVE Books'
  <2>1. collect.at # "append" /\ collect' = [Idle EXCEPT !.at = "ask", !.run = r, !.call = 1]
    BY <1>2 DEF BeginRun
  <2>2. Formed(collect)' /\ collect'.at = "ask" BY <2>1, AskingIsFormed
  <2> QED BY <1>1, <1>2, <2>1, <2>2 DEF BeginRun
<1>3. CASE AdapterReturns
  <2>1. PICK os : collect' = [collect EXCEPT !.at = "append", !.left = os, !.got = os]
    BY <1>3 DEF AdapterReturns
  <2>2. Formed(collect)' /\ collect'.left = collect'.got BY <2>1 DEF Books, Formed
  <2> QED BY <1>1, <1>3, <2>2 DEF AdapterReturns
<1>4. CASE AdapterRaises
  <2>1. PICK e : collect' = [collect EXCEPT !.at = "failed", !.error = e]
    BY <1>4 DEF AdapterRaises
  <2>2. Formed(collect)' /\ collect'.at = "failed" BY <2>1 DEF Books, Formed
  <2> QED BY <1>1, <1>4, <2>2 DEF AdapterRaises
<1>5. ASSUME NEW o \in Obs, Append1(o) PROVE Books'
  <2>1. /\ collect.at = "append" /\ o \in collect.left /\ UNCHANGED <<receipts, faults>>
        /\ collect' = [collect EXCEPT !.left = @ \ {o}]
    BY <1>5 DEF Append1
  <2>2. /\ Formed(collect)' /\ collect'.at = "append" /\ collect'.run = collect.run
        /\ collect'.got = collect.got /\ collect'.left = collect.left \ {o}
    BY <2>1 DEF Books, Formed
  <2> DEFINE new == [obs |-> o, run |-> collect.run]
  <2>3. ledger' = ledger \/ ledger' = ledger \cup {new} BY <1>5 DEF Append1
  <2>4. Known' = Known \cup {o}
    <3>1. CASE o \in Known BY <1>5, <3>1 DEF Append1, Known
    <3>2. CASE o \notin Known
      <4>1. ledger' = ledger \cup {new} /\ new.obs = o BY <1>5, <3>2 DEF Append1
      <4> HIDE DEF new
      <4> QED BY <4>1 DEF Known
    <3> QED BY <3>1, <3>2
  <2>5. collect.left \subseteq collect.got BY <2>1 DEF Books
  <2>6. Accounted(new)' BY <2>2, <2>1, <2>5 DEF Accounted
  <2>7. \A x \in ledger : Accounted(x) => Accounted(x)' BY <2>1, <2>2 DEF Accounted
  <2>8. faults' = 0 => \A x \in ledger' : Accounted(x)'
    BY <2>1, <2>3, <2>6, <2>7 DEF Books
  <2>9. \A x \in ledger' : x.obs \in Obs BY <2>3 DEF Books
  <2> QED BY <2>1, <2>2, <2>4, <2>8, <2>9 DEF Books
<1>6. ASSUME UNCHANGED <<ledger, receipts>>, faults' = faults + 1, Formed(collect)',
             collect'.at # "append"
      PROVE  Books'
  <2>1. Known' = Known BY <1>6 DEF Known
  <2>2. faults' \in Nat /\ faults' # 0 BY <1>6 DEF Books
  <2> QED BY <1>6, <2>1, <2>2 DEF Books
<1>7. CASE AppendRaises
  <2>1. collect' = [collect EXCEPT !.at = "failed", !.left = {}, !.got = {}, !.error = "database"]
    BY <1>7 DEF AppendRaises
  <2>2. Formed(collect)' /\ collect'.at = "failed" BY <2>1 DEF Books, Formed
  <2> QED BY <1>6, <1>7, <2>2 DEF AppendRaises
<1>8. CASE Die BY <1>6, <1>8, IdleIsFormed DEF Die
<1>9. ASSUME NEW s, Record(s), collect.at = "append" => collect.left = {} /\ s = "completed",
             collect.at # "append" => s # "completed"
      PROVE  Books'
  <2>1. ledger' = ledger /\ faults' = faults /\ receipts' = receipts \cup {Receipt(s)}
    BY <1>9 DEF Record
  <2>2. Known' = Known BY <2>1 DEF Known
  <2>3. /\ Receipt(s).run = collect.run /\ Receipt(s).status = s /\ Receipt(s).keys = collect.got
    BY DEF Receipt
  <2>4. s = "completed" => collect.got \subseteq Known BY <1>9 DEF Books
  <2>5. Formed(collect)' /\ collect'.at # "append"
    <3>1. CASE collect' = Idle BY <3>1, IdleIsFormed
    <3>2. CASE collect' = [Idle EXCEPT !.at = "ask", !.run = collect.run, !.call = collect.call + 1]
      BY <3>2, AskingIsFormed
    <3> QED BY <1>9, <3>1, <3>2 DEF Record
  <2>6. \A x \in ledger : Accounted(x) => Accounted(x)' BY <2>1, <2>3 DEF Accounted
  <2> QED BY <2>1, <2>2, <2>3, <2>4, <2>5, <2>6 DEF Books
<1>10. CASE RecordCompleted BY <1>9, <1>10 DEF RecordCompleted, AllAppended
<1>11. CASE RecordFailed BY <1>9, <1>11 DEF RecordFailed
<1> QED BY <1>2, <1>3, <1>4, <1>5, <1>7, <1>8, <1>10, <1>11 DEF IntakeStep

LEMMA BooksHold == Books /\ [Next]_vars => Books'
<1>1. CASE IntakeStep BY <1>1, BooksStep
<1>2. ASSUME UNCHANGED intake, Books PROVE Books'
  BY <1>2 DEF intake, Books, Formed, Known, Accounted
<1>3. [Next]_vars => IntakeStep \/ UNCHANGED intake
  BY DEF Next, vars, Consolidate, BuildFromRun, BeginAdjudication, Decide, PublishNew,
         AdjudicationRaises, Tick
<1> QED BY <1>1, <1>2, <1>3

(* A completed receipt lists only what the ledger has, and without a       *)
(* failure the ledger has only what a receipt of its run lists, for any    *)
(* sources, adapters, answers and deaths (EvidenceRunner.collect).         *)
THEOREM IntakeAlwaysBalances == Spec => []IntakeIsAccounted
<1>1. Books => IntakeIsAccounted BY DEF Books, IntakeIsAccounted, Accounted
<1>2. Init => Books BY BooksInit DEF Init
<1> QED BY <1>1, <1>2, BooksHold, PTL DEF Spec

-----------------------------------------------------------------------------
(***************************************************************************)
(* The snapshots.                                                          *)
(***************************************************************************)
Graph == [Edge -> ReviewedEdge \cup {None}]
Snapshot == [created : Nat, base : Nat, edges : Graph]
Draft == [created : Nat, base : Nat, edges : Graph, left : SUBSET SUBSET Obs]

(* Nothing in these edges is later than a time.                            *)
NoLater(x, t) ==
    /\ x.filed <= t /\ x.reviewed <= t /\ (x.to # Open => x.to <= t)
    /\ \A o \in x.because : Available[o] <= t
Timely(es, t) == \A e \in Edge : es[e] # None => NoLater(es[e], t)
(* What has ended in the first has ended in the second.                    *)
StillEnded(es, fs) ==
    \A e \in Edge : es[e] # None /\ es[e].to # Open => fs[e] # None /\ fs[e].to # Open

(* A snapshot is built from an earlier one, and keeps what has ended; if   *)
(* its lineage is in order, nothing in it is later than itself.            *)
Filed(i) ==
    /\ snapshots[i].base \in 0 .. i - 1
    /\ InOrder(i) => Timely(snapshots[i].edges, CreatedAt(i))
    /\ snapshots[i].base # 0 => StillEnded(snapshots[snapshots[i].base].edges, snapshots[i].edges)
Drafted ==
    draft # None =>
        /\ draft \in Draft /\ draft.base \in DOMAIN snapshots
        /\ \A c \in draft.left : \A o \in c : Available[o] <= draft.created
        /\ InOrder(draft.base) /\ CreatedAt(draft.base) <= draft.created
              => Timely(draft.edges, draft.created)
        /\ StillEnded(snapshots[draft.base].edges, draft.edges)
Living ==
    /\ clock \in Nat /\ snapshots \in Seq(Snapshot)
    /\ \A i \in DOMAIN snapshots : Filed(i)
    /\ Drafted

-----------------------------------------------------------------------------
(* A decision on evidence that is available by some time.                  *)
LEMMA DecisionFacts ==
    ASSUME NEW c \in SUBSET Obs, NEW d \in Decisions(c)
    PROVE  /\ d.edge \in Edge /\ d.cited \in c /\ d.supporting \subseteq c
           /\ d.action \in {"approve_edge", "update_state", "retire_edge"}
BY DEF Decisions

LEMMA NewEdgeFacts ==
    ASSUME NEW t \in Nat, NEW c \in SUBSET Obs, \A o \in c : Available[o] <= t,
           NEW d \in Decisions(c)
    PROVE  NewEdge(d, t) \in ReviewedEdge /\ NewEdge(d, t).to = Open /\ NoLater(NewEdge(d, t), t)
<1>1. d.cited \in c /\ d.supporting \in SUBSET c BY DecisionFacts
<1>2. Available[d.cited] \in Nat /\ Available[d.cited] <= t
  BY <1>1, IntakeAssumption DEF Time
<1> DEFINE x == NewEdge(d, t)
<1>3. /\ x = [from |-> t, to |-> Open, filed |-> Available[d.cited], reviewed |-> t,
             because |-> d.supporting]
  BY DEF NewEdge, ReviewedAt
<1> HIDE DEF x
<1>4. x \in ReviewedEdge BY <1>1, <1>2, <1>3 DEF ReviewedEdge
<1>5. x.to = Open /\ NoLater(x, t) BY <1>1, <1>2, <1>3 DEF NoLater
<1> QED BY <1>4, <1>5 DEF x

LEMMA UpdatedEdgeFacts ==
    ASSUME NEW t \in Nat, NEW c \in SUBSET Obs, \A o \in c : Available[o] <= t,
           NEW d \in Decisions(c), NEW x \in ReviewedEdge
    PROVE  /\ UpdatedEdge(x, d, t) \in ReviewedEdge /\ UpdatedEdge(x, d, t).to = x.to
           /\ NoLater(x, t) => NoLater(UpdatedEdge(x, d, t), t)
<1>1. d.cited \in c /\ d.supporting \in SUBSET c BY DecisionFacts
<1>2. Available[d.cited] \in Nat /\ Available[d.cited] <= t
  BY <1>1, IntakeAssumption DEF Time
<1> DEFINE a == Available[d.cited]
           os == x.because \cup d.supporting
           y == UpdatedEdge(x, d, t)
<1>3. y = [x EXCEPT !.filed = a, !.reviewed = t, !.because = os]
  BY DEF UpdatedEdge, ReviewedAt
<1>4. a \in Nat /\ a <= t /\ os \in SUBSET Obs BY <1>1, <1>2 DEF ReviewedEdge
<1>5. \A o \in os : o \in x.because \/ Available[o] <= t BY <1>1
<1> HIDE DEF y, a, os
<1>6. y \in ReviewedEdge /\ y.to = x.to /\ y.filed = a /\ y.reviewed = t /\ y.because = os
  BY <1>3, <1>4 DEF ReviewedEdge
<1>7. NoLater(x, t) => NoLater(y, t) BY <1>4, <1>5, <1>6 DEF NoLater
<1> QED BY <1>6, <1>7 DEF y

LEMMA RetiredEdgeFacts ==
    ASSUME NEW t \in Nat, NEW x \in ReviewedEdge, NEW y, y = [x EXCEPT !.to = t]
    PROVE  y \in ReviewedEdge /\ y.to = t /\ (NoLater(x, t) => NoLater(y, t))
BY DEF ReviewedEdge, NoLater

(* Whatever the model decides, the edges stay edges, nothing in them       *)
(* becomes later than the adjudication, and what has ended stays ended.    *)
LEMMA AppliedFacts ==
    ASSUME NEW t \in Nat, NEW c \in SUBSET Obs, \A o \in c : Available[o] <= t,
           NEW d \in Decisions(c), NEW es \in Graph
    PROVE  LET fs == Applied(es, d, t) IN
           /\ fs \in Graph
           /\ Timely(es, t) => Timely(fs, t)
           /\ \A e \in Edge : es[e] # None => fs[e] # None
           /\ \A e \in Edge : es[e] # None /\ es[e].to # Open => fs[e].to # Open
<1> DEFINE fs == Applied(es, d, t)
           k == d.edge
<1>1. k \in Edge /\ d.action \in {"approve_edge", "update_state", "retire_edge"}
  BY DecisionFacts
<1>2. es[k] # None => es[k] \in ReviewedEdge BY <1>1 DEF Graph
<1>3. ASSUME NEW x \in ReviewedEdge, fs = [es EXCEPT ![k] = x],
             Timely(es, t) => NoLater(x, t),
             es[k] # None /\ es[k].to # Open => x.to # Open
      PROVE  /\ fs \in Graph /\ (Timely(es, t) => Timely(fs, t))
             /\ \A e \in Edge : es[e] # None => fs[e] # None
             /\ \A e \in Edge : es[e] # None /\ es[e].to # Open => fs[e].to # Open
  <2> HIDE DEF fs, k
  <2>1. fs[k] = x /\ \A e \in Edge \ {k} : fs[e] = es[e] BY <1>1, <1>3 DEF Graph
  <2>2. x # None BY EdgeAssumption
  <2>3. fs \in Graph BY <1>3 DEF Graph
  <2> QED BY <1>1, <1>3, <2>1, <2>2, <2>3 DEF Timely
<1>4. CASE d.action = "approve_edge" /\ es[k] = None
  <2>1. fs = [es EXCEPT ![k] = NewEdge(d, t)] BY <1>4 DEF Applied, Approved
  <2> HIDE DEF fs, k
  <2> QED BY <1>3, <1>4, <2>1, NewEdgeFacts DEF fs
<1>5. CASE d.action = "retire_edge" /\ es[k] # None
  <2> DEFINE x == [es[k] EXCEPT !.to = t]
  <2>1. fs = [es EXCEPT ![k] = x] BY <1>1, <1>5 DEF Applied, Moved, Graph
  <2>2. x \in ReviewedEdge /\ x.to = t /\ (NoLater(es[k], t) => NoLater(x, t))
    BY <1>2, <1>5, RetiredEdgeFacts
  <2>3. t # Open BY EdgeAssumption DEF Open
  <2>4. Timely(es, t) => NoLater(es[k], t) BY <1>1, <1>5 DEF Timely
  <2> HIDE DEF fs, k, x
  <2> QED BY <1>3, <2>1, <2>2, <2>3, <2>4 DEF fs
<1>6. CASE d.action = "update_state" /\ es[k] # None
  <2> DEFINE x == UpdatedEdge(es[k], d, t)
  <2>1. fs = [es EXCEPT ![k] = x] BY <1>1, <1>6 DEF Applied, Moved, Graph
  <2>2. x \in ReviewedEdge /\ x.to = es[k].to /\ (NoLater(es[k], t) => NoLater(x, t))
    BY <1>2, <1>6, UpdatedEdgeFacts
  <2>4. Timely(es, t) => NoLater(es[k], t) BY <1>1, <1>6 DEF Timely
  <2> HIDE DEF fs, k, x
  <2> QED BY <1>3, <2>1, <2>2, <2>4 DEF fs
<1>7. CASE fs = es BY <1>7
<1>8. \/ d.action = "approve_edge" /\ es[k] = None
      \/ d.action = "retire_edge" /\ es[k] # None
      \/ d.action = "update_state" /\ es[k] # None
      \/ fs = es
  BY <1>1 DEF Applied, Moved
<1> QED BY <1>4, <1>5, <1>6, <1>7, <1>8

-----------------------------------------------------------------------------
(* A set of snapshots with what they start from, none older than that.     *)
Lineage(s, is) ==
    \A k \in is : s[k].base # 0 => s[k].base \in is /\ s[s[k].base].created <= s[k].created

LEMMA InOrderMeans ==
    ASSUME NEW i
    PROVE  InOrder(i) <=> \E is \in SUBSET DOMAIN snapshots : i \in is /\ Lineage(snapshots, is)
BY DEF InOrder, Lineage, CreatedAt

LEMMA SnapshotFacts ==
    ASSUME snapshots \in Seq(Snapshot)
    PROVE  /\ Len(snapshots) \in Nat /\ DOMAIN snapshots = 1 .. Len(snapshots)
           /\ \A i \in DOMAIN snapshots :
                 /\ i \in Nat /\ snapshots[i] \in Snapshot /\ CreatedAt(i) = snapshots[i].created
                 /\ CreatedAt(i) \in Nat /\ snapshots[i].base \in Nat
                 /\ snapshots[i].edges \in Graph
<1>1. Len(snapshots) \in Nat /\ DOMAIN snapshots = 1 .. Len(snapshots) OBVIOUS
<1>2. \A i \in DOMAIN snapshots : snapshots[i] \in Snapshot OBVIOUS
<1> QED BY <1>1, <1>2 DEF CreatedAt, Snapshot

(* The next file leaves the lineages of the others alone, and its own ends *)
(* with what it starts from.                                               *)
LEMMA LineageOfNext ==
    ASSUME NEW s \in Seq(Snapshot), \A i \in DOMAIN s : s[i].base \in 0 .. i - 1,
           NEW x \in Snapshot, x.base \in DOMAIN s,
           NEW is \in SUBSET DOMAIN Append(s, x), Lineage(Append(s, x), is)
    PROVE  /\ Lineage(s, is \cap DOMAIN s)
           /\ Len(s) + 1 \in is => x.base \in is /\ s[x.base].created <= x.created
<1> DEFINE u == Append(s, x)
           n == Len(s) + 1
<1>1. /\ n \in Nat /\ DOMAIN s = 1 .. n - 1 /\ DOMAIN u = 1 .. n /\ u[n] = x
      /\ \A i \in DOMAIN s : u[i] = s[i] /\ i \in Nat
  OBVIOUS
<1> HIDE DEF u, n
<1>2. \A k \in is : u[k].base # 0 => u[k].base \in is /\ u[u[k].base].created <= u[k].created
  BY DEF Lineage, u
<1>3. ASSUME NEW k \in is \cap DOMAIN s, s[k].base # 0
      PROVE  s[k].base \in is \cap DOMAIN s /\ s[s[k].base].created <= s[k].created
  <2>1. u[k] = s[k] BY <1>1
  <2>2. s[k].base \in DOMAIN s BY <1>1, <1>3
  <2> QED BY <1>1, <1>2, <1>3, <2>1, <2>2
<1>4. n \in is => x.base \in is /\ s[x.base].created <= x.created
  <2>1. x.base # 0 /\ u[x.base] = s[x.base] BY <1>1
  <2> QED BY <1>1, <1>2, <2>1
<1> QED BY <1>3, <1>4 DEF Lineage, n

LEMMA LaterStill ==
    ASSUME NEW es \in Graph, NEW t \in Nat, NEW u \in Nat, t <= u, Timely(es, t)
    PROVE  Timely(es, u)
<1> SUFFICES ASSUME NEW e \in Edge, es[e] # None PROVE NoLater(es[e], u) BY DEF Timely
<1>1. NoLater(es[e], t) /\ es[e] \in ReviewedEdge BY DEF Timely, Graph
<1> DEFINE x == es[e]
<1>2. /\ x.filed \in Nat /\ x.reviewed \in Nat /\ (x.to # Open => x.to \in Nat)
      /\ \A o \in x.because : Available[o] \in Nat
  BY <1>1, IntakeAssumption DEF ReviewedEdge, Time
<1> HIDE DEF x
<1>3. NoLater(x, t) BY <1>1 DEF x
<1>4. NoLater(x, u) BY <1>2, <1>3 DEF NoLater
<1> QED BY <1>4 DEF x

-----------------------------------------------------------------------------
LEMMA LivingInit == Init => Living
<1> SUFFICES ASSUME Init PROVE Living OBVIOUS
<1> DEFINE x == [from |-> 0, to |-> Open, filed |-> 0, reviewed |-> 0, because |-> {}]
           es == [e \in Edge |-> IF e \in Seed THEN x ELSE None]
           s == [created |-> 0, base |-> 0, edges |-> es]
<1>1. snapshots = <<s>> /\ clock = 0 /\ draft = None BY DEF Init
<1>2. x \in ReviewedEdge /\ NoLater(x, 0) BY DEF ReviewedEdge, NoLater
<1>3. es \in Graph /\ Timely(es, 0)
  <2> HIDE DEF x
  <2> QED BY <1>2 DEF Graph, Timely
<1>4. s \in Snapshot /\ s.base = 0 /\ s.created = 0 /\ s.edges = es
  <2> HIDE DEF es
  <2> QED BY <1>3 DEF Snapshot
<1> HIDE DEF s, es
<1>5. snapshots \in Seq(Snapshot) /\ DOMAIN snapshots = {1} /\ snapshots[1] = s BY <1>1, <1>4
<1>6. Filed(1)
  <2>1. snapshots[1].base = 0 /\ 0 \in 0 .. 1 - 1 BY <1>4, <1>5
  <2>2. Timely(snapshots[1].edges, CreatedAt(1)) BY <1>3, <1>4, <1>5 DEF CreatedAt
  <2> QED BY <2>1, <2>2 DEF Filed
<1> QED BY <1>1, <1>5, <1>6 DEF Living, Drafted

(* The files do not change.                                                *)
LEMMA FilesStay ==
    ASSUME Living, snapshots' = snapshots, clock' \in Nat, Drafted' PROVE Living'
BY DEF Living, Filed, InOrder, CreatedAt

LEMMA BeginKeeps ==
    ASSUME Living, NEW os \in SUBSET Obs, NEW base \in DOMAIN snapshots, NEW t \in Nat,
           BeginAdjudication(os, base, t)
    PROVE  Living'
<1> DEFINE es == snapshots[base].edges
           cs == Clusters(Eligible(os, t))
<1>1. snapshots' = snapshots /\ clock' = clock BY DEF BeginAdjudication
<1>2. draft' = [created |-> t, base |-> base, edges |-> es, left |-> cs]
  BY DEF BeginAdjudication
<1>3. es \in Graph /\ base \in Nat /\ CreatedAt(base) \in Nat BY SnapshotFacts DEF Living
<1>4. cs \in SUBSET SUBSET Obs /\ \A c \in cs : \A o \in c : Available[o] <= t
  BY DEF Clusters, Eligible
<1>5. InOrder(base) => Timely(es, CreatedAt(base)) BY DEF Living, Filed
<1>6. StillEnded(es, es) BY DEF StillEnded
<1> HIDE DEF cs, es
<1>7. /\ draft' \in Draft /\ draft'.base = base /\ draft'.created = t /\ draft'.edges = es
      /\ draft'.left = cs
  BY <1>2, <1>3, <1>4 DEF Draft
<1>8. InOrder(base) /\ CreatedAt(base) <= t => Timely(es, t) BY <1>3, <1>5, LaterStill
<1>9. InOrder(base)' = InOrder(base) /\ CreatedAt(base)' = CreatedAt(base)
  BY <1>1 DEF InOrder, CreatedAt
<1>10. Drafted'
  BY <1>1, <1>4, <1>6, <1>7, <1>8, <1>9 DEF Drafted, InOrder, CreatedAt, es
<1> QED BY <1>1, <1>10, FilesStay DEF Living

LEMMA DecideKeeps == ASSUME Living, NEW c \in SUBSET Obs, Decide(c) PROVE Living'
<1>1. snapshots' = snapshots /\ clock' = clock /\ draft # None /\ c \in draft.left
  BY DEF Decide
<1>2. /\ draft \in Draft /\ draft.base \in DOMAIN snapshots
      /\ \A o \in c : Available[o] <= draft.created
  BY <1>1 DEF Living, Drafted
<1>3. PICK t \in Nat, es \in Graph, base \in Nat :
         t = draft.created /\ es = draft.edges /\ base = draft.base
  BY <1>2 DEF Draft
<1>4. PICK fs : /\ fs = es \/ \E d \in Decisions(c) : fs = Applied(es, d, t)
                /\ draft' = [draft EXCEPT !.left = @ \ {c}, !.edges = fs]
  BY <1>3 DEF Decide
<1>5. /\ fs \in Graph /\ (Timely(es, t) => Timely(fs, t))
      /\ \A e \in Edge : es[e] # None => fs[e] # None
      /\ \A e \in Edge : es[e] # None /\ es[e].to # Open => fs[e].to # Open
  <2>1. CASE fs = es BY <1>3, <2>1
  <2>2. ASSUME NEW d \in Decisions(c), fs = Applied(es, d, t)
        PROVE  /\ fs \in Graph /\ (Timely(es, t) => Timely(fs, t))
               /\ \A e \in Edge : es[e] # None => fs[e] # None
               /\ \A e \in Edge : es[e] # None /\ es[e].to # Open => fs[e].to # Open
    BY <1>2, <1>3, <2>2, AppliedFacts
  <2> QED BY <1>4, <2>1, <2>2
<1>6. /\ draft' \in Draft /\ draft'.base = base /\ draft'.created = t /\ draft'.edges = fs
      /\ draft'.left \subseteq draft.left
  BY <1>2, <1>3, <1>4, <1>5 DEF Draft
<1>7. StillEnded(snapshots[base].edges, fs)
  BY <1>1, <1>3, <1>5 DEF Living, Drafted, StillEnded
<1>8. InOrder(base)' = InOrder(base) /\ CreatedAt(base)' = CreatedAt(base)
  BY <1>1 DEF InOrder, CreatedAt
<1>9. /\ InOrder(base) /\ CreatedAt(base) <= t => Timely(fs, t)
      /\ \A k \in draft.left : \A o \in k : Available[o] <= t
  BY <1>1, <1>3, <1>5 DEF Living, Drafted
<1>10. Drafted'
  BY <1>1, <1>2, <1>3, <1>6, <1>7, <1>8, <1>9 DEF Drafted, InOrder, CreatedAt
<1> QED BY <1>1, <1>10, FilesStay DEF Living

LEMMA PublishKeeps == ASSUME Living, PublishNew PROVE Living'
<1>1. PICK x, n : /\ x = [created |-> draft.created, base |-> draft.base, edges |-> draft.edges]
                  /\ n = Len(snapshots) + 1
                  /\ snapshots' = Append(snapshots, x) /\ clock' = clock
                  /\ draft # None /\ draft' = None
  BY DEF PublishNew
<1>2. draft \in Draft /\ draft.base \in DOMAIN snapshots BY <1>1 DEF Living, Drafted
<1>3. /\ x \in Snapshot /\ x.created = draft.created /\ x.base = draft.base
      /\ x.edges = draft.edges
  BY <1>1, <1>2 DEF Draft, Snapshot
<1>4. /\ snapshots \in Seq(Snapshot) /\ \A i \in DOMAIN snapshots : snapshots[i].base \in 0 .. i - 1
  BY DEF Living, Filed
<1>5. /\ snapshots' \in Seq(Snapshot) /\ n \in Nat /\ DOMAIN snapshots = 1 .. n - 1
      /\ DOMAIN snapshots' = 1 .. n /\ snapshots'[n] = x
      /\ \A i \in DOMAIN snapshots : snapshots'[i] = snapshots[i]
  BY <1>1, <1>3, <1>4
<1>6. ASSUME NEW is \in SUBSET DOMAIN snapshots', Lineage(snapshots', is)
      PROVE  /\ Lineage(snapshots, is \cap DOMAIN snapshots)
             /\ n \in is => x.base \in is /\ snapshots[x.base].created <= x.created
  BY <1>1, <1>2, <1>3, <1>4, <1>6, LineageOfNext
<1>7. ASSUME NEW i \in DOMAIN snapshots, InOrder(i)' PROVE InOrder(i)
  <2>1. PICK is \in SUBSET DOMAIN snapshots' : i \in is /\ Lineage(snapshots', is)
    BY <1>7 DEF InOrder, Lineage, CreatedAt
  <2> QED BY <1>6, <2>1, InOrderMeans
<1>8. ASSUME InOrder(n)'
      PROVE  InOrder(x.base) /\ CreatedAt(x.base) <= x.created
  <2>1. PICK is \in SUBSET DOMAIN snapshots' : n \in is /\ Lineage(snapshots', is)
    BY <1>8 DEF InOrder, Lineage, CreatedAt
  <2>2. x.base \in is \cap DOMAIN snapshots /\ snapshots[x.base].created <= x.created
    BY <1>2, <1>3, <1>6, <2>1
  <2> QED BY <1>6, <2>1, <2>2, InOrderMeans DEF CreatedAt
<1>9. ASSUME NEW i \in DOMAIN snapshots PROVE Filed(i)'
  <2>1. Filed(i) /\ i \in 1 .. n - 1 /\ snapshots[i].base \in 0 .. i - 1
    BY <1>4, <1>5 DEF Living
  <2>2. snapshots'[i] = snapshots[i] /\ CreatedAt(i)' = CreatedAt(i) BY <1>5 DEF CreatedAt
  <2>3. snapshots[i].base # 0 => snapshots'[snapshots[i].base] = snapshots[snapshots[i].base]
    BY <1>5, <2>1
  <2> QED BY <1>7, <2>1, <2>2, <2>3 DEF Filed
<1>10. Filed(n)'
  <2>1. x.base \in 1 .. n - 1 /\ snapshots'[x.base] = snapshots[x.base] BY <1>2, <1>3, <1>5
  <2>2. x.base \in 0 .. n - 1 BY <1>5, <2>1
  <2>3. InOrder(n)' => Timely(x.edges, x.created)
    BY <1>1, <1>3, <1>8 DEF Living, Drafted
  <2>4. StillEnded(snapshots[x.base].edges, x.edges) BY <1>1, <1>3 DEF Living, Drafted
  <2> QED BY <1>5, <2>1, <2>2, <2>3, <2>4 DEF Filed, CreatedAt
<1>11. \A i \in DOMAIN snapshots' : Filed(i)' BY <1>5, <1>9, <1>10
<1> QED BY <1>1, <1>5, <1>11 DEF Living, Drafted

LEMMA LivingStep == Books /\ Living /\ [Next]_vars => Living'
<1> SUFFICES ASSUME Books, Living, [Next]_vars PROVE Living' OBVIOUS
<1>1. CASE UNCHANGED <<clock, snapshots, draft>>
  BY <1>1 DEF Living, Filed, Drafted, InOrder, CreatedAt
<1>2. ASSUME NEW base \in DOMAIN snapshots, NEW t \in 0 .. clock, Consolidate(base, t)
      PROVE  Living'
  <2>1. AsOf(t) \in SUBSET Obs /\ t \in Nat BY DEF Books, AsOf, Known, Living
  <2> QED BY <1>2, <2>1, BeginKeeps DEF Consolidate
<1>3. ASSUME NEW base \in DOMAIN snapshots, NEW r \in Run, BuildFromRun(r, base)
      PROVE  Living'
  <2>1. PICK os \in Selections(ForRun(r), base) : BeginAdjudication(os, base, clock)
    BY <1>3 DEF BuildFromRun
  <2>2. os \in SUBSET Obs BY GraphAssumption DEF Selections
  <2>3. clock \in Nat BY DEF Living
  <2> QED BY <2>1, <2>2, <2>3, BeginKeeps
<1>4. ASSUME NEW c \in SUBSET Obs, Decide(c) PROVE Living' BY <1>4, DecideKeeps
<1>5. CASE PublishNew BY <1>5, PublishKeeps
<1>6. CASE AdjudicationRaises
  <2>1. snapshots' = snapshots /\ clock' = clock /\ draft' = None
    BY <1>6 DEF AdjudicationRaises
  <2> QED BY <2>1, FilesStay DEF Living, Drafted
<1>7. CASE Tick
  <2>1. snapshots' = snapshots /\ clock' = clock + 1 /\ draft' = None BY <1>7 DEF Tick
  <2> QED BY <2>1, FilesStay DEF Living, Drafted
<1> QED BY <1>1, <1>2, <1>3, <1>4, <1>5, <1>6, <1>7 DEF Next, vars

LEMMA GraphInit == Init => Books /\ Living
BY BooksInit, LivingInit DEF Init
LEMMA GraphStep == Books /\ Living /\ [Next]_vars => Books' /\ Living'
BY BooksHold, LivingStep

-----------------------------------------------------------------------------
(***************************************************************************)
(* The readers.                                                            *)
(***************************************************************************)

(* In a lineage that is in order the latest date in a snapshot is its own. *)
LEMMA AvailableWhenCreated ==
    ASSUME Living, NEW i \in DOMAIN snapshots, InOrder(i)
    PROVE  AvailableAt(i) = CreatedAt(i)
<1>1. PICK c \in Nat, es \in Graph : c = CreatedAt(i) /\ es = snapshots[i].edges
  BY SnapshotFacts DEF Living
<1>2. Timely(es, c) BY <1>1 DEF Living, Filed
<1> DEFINE xs == {es[e] : e \in Edge} \ {None}
           T == {c} \cup {x.filed : x \in xs} \cup {x.reviewed : x \in xs}
           P(t) == c <= t /\ \A x \in xs : x.filed <= t /\ x.reviewed <= t
<1>3. \A x \in xs : x.filed \in Nat /\ x.reviewed \in Nat /\ x.filed <= c /\ x.reviewed <= c
  BY <1>2 DEF Timely, NoLater, Graph, ReviewedEdge
<1>4. AvailableAt(i) = CHOOSE t \in T : P(t) BY <1>1 DEF AvailableAt
<1> HIDE DEF xs
<1>5. c \in T /\ P(c) BY <1>1, <1>3
<1>6. \A t \in T : P(t) => t = c BY <1>1, <1>3
<1> HIDE DEF T, P
<1>7. AvailableAt(i) \in T /\ P(AvailableAt(i)) BY <1>4, <1>5
<1> QED BY <1>1, <1>6, <1>7

(* What is not later than a snapshot was available when it was read.       *)
LEMMA ReadInTime ==
    ASSUME Living, NEW i \in DOMAIN snapshots, InOrder(i), NEW t \in Nat, CreatedAt(i) <= t,
           NEW e \in Scored(i, t), NEW o \in snapshots[i].edges[e].because
    PROVE  Available[o] <= t
<1>1. PICK c \in Nat, es \in Graph : c = CreatedAt(i) /\ es = snapshots[i].edges
  BY SnapshotFacts DEF Living
<1>2. e \in Edge /\ es[e] # None BY <1>1 DEF Scored
<1>3. es[e] \in ReviewedEdge /\ NoLater(es[e], c) BY <1>1, <1>2 DEF Living, Filed, Timely, Graph
<1>4. o \in Obs /\ Available[o] <= c BY <1>1, <1>3 DEF NoLater, ReviewedEdge
<1>5. Available[o] \in Nat BY <1>4, IntakeAssumption DEF Time
<1> QED BY <1>1, <1>4, <1>5

(* The rows of replays and panels are of snapshots that were there.        *)
LEMMA RowsInTime ==
    ASSUME Living,
           NEW row \in (UNION {Replay(t) \cup Panel(t) : t \in Time}) \cup
                       (UNION {StaticPanel(i, LastTime + 1) : i \in DOMAIN snapshots}),
           InOrder(row.snapshot)
    PROVE  \E i \in DOMAIN snapshots, t \in Nat :
               row = Row(i, t) /\ InOrder(i) /\ CreatedAt(i) <= t
<1>1. \A i, t : Row(i, t).snapshot = i BY DEF Row
<1>2. \A i \in DOMAIN snapshots : CreatedAt(i) \in Nat BY SnapshotFacts DEF Living
<1>3. LastTime + 1 \in Nat /\ Time \subseteq Nat BY IntakeAssumption DEF Time
<1>4. ASSUME NEW t \in Time, row \in Replay(t)
      PROVE  \E i \in DOMAIN snapshots : row = Row(i, t) /\ CreatedAt(i) <= t
  BY <1>4 DEF Replay, SelectAsOf, Newest
<1>5. ASSUME NEW u \in Time, row \in Panel(u)
      PROVE  \E i \in DOMAIN snapshots, t \in Nat : row = Row(i, t) /\ CreatedAt(i) <= t
  <2>1. PICK t \in 0 .. u : \E i \in SelectSnapshot(t) : row = Row(i, t) BY <1>5 DEF Panel
  <2>2. PICK i \in SelectSnapshot(t) : row = Row(i, t) BY <2>1
  <2>3. i \in DOMAIN snapshots /\ AvailableAt(i) <= t
    BY DEF SelectSnapshot, Newest, Availability
  <2>4. AvailableAt(i) = CreatedAt(i) BY <1>1, <2>2, <2>3, AvailableWhenCreated
  <2> QED BY <2>2, <2>3, <2>4
<1>6. ASSUME NEW i \in DOMAIN snapshots, row \in StaticPanel(i, LastTime + 1)
      PROVE  \E t \in Nat : row = Row(i, t) /\ CreatedAt(i) <= t
  <2>1. PICK t \in AvailableAt(i) .. LastTime + 1 : row = Row(i, t) BY <1>6 DEF StaticPanel
  <2>2. AvailableAt(i) = CreatedAt(i) BY <1>1, <2>1, AvailableWhenCreated
  <2>3. t \in Nat /\ CreatedAt(i) <= t BY <1>2, <1>3, <2>1, <2>2
  <2> QED BY <2>1, <2>3
<1> QED BY <1>1, <1>3, <1>4, <1>5, <1>6

(* No replay or panel row was moved by evidence that became available      *)
(* later, for any evidence, registry, decisions of the model, as-of times  *)
(* and bases, while as-of times in the lineage of its snapshot do not move *)
(* back (GraphAdjudicatorAgent, SnapshotTimeline, historical_panel).       *)
THEOREM NeverHindsight == Spec => []NoHindsight
<1>1. Books /\ Living => NoHindsight
  <2> SUFFICES ASSUME Living,
                 NEW row \in (UNION {Replay(t) \cup Panel(t) : t \in Time}) \cup
                             (UNION {StaticPanel(i, LastTime + 1) : i \in DOMAIN snapshots}),
                 InOrder(row.snapshot), NEW e \in row.scored,
                 NEW o \in snapshots[row.snapshot].edges[e].because
               PROVE  Available[o] <= row.at
    BY DEF NoHindsight
  <2>1. PICK i \in DOMAIN snapshots, t \in Nat :
            row = Row(i, t) /\ InOrder(i) /\ CreatedAt(i) <= t
    BY RowsInTime
  <2>2. row.at = t /\ row.snapshot = i /\ row.scored = Scored(i, t) BY <2>1 DEF Row
  <2> QED BY <2>1, <2>2, ReadInTime
<1> QED BY <1>1, GraphInit, GraphStep, PTL DEF Spec

(* The lineages of a straight history are in order.                        *)
LEMMA StraightIsInOrder ==
    ASSUME Living, Straight, NEW i \in DOMAIN snapshots PROVE InOrder(i)
<1>1. /\ DOMAIN snapshots = 1 .. Len(snapshots) /\ Len(snapshots) \in Nat
      /\ \A k \in DOMAIN snapshots : CreatedAt(k) \in Nat /\ snapshots[k].base \in 0 .. k - 1
  BY SnapshotFacts DEF Living, Filed
<1>2. ASSUME NEW k \in DOMAIN snapshots, snapshots[k].base # 0
      PROVE  /\ snapshots[k].base \in DOMAIN snapshots
             /\ CreatedAt(snapshots[k].base) <= CreatedAt(k)
  <2>1. k \in Nat /\ k > 1 BY <1>1, <1>2
  <2>2. snapshots[k].base = k - 1 /\ CreatedAt(k - 1) < CreatedAt(k) BY <2>1 DEF Straight
  <2>3. k - 1 \in DOMAIN snapshots BY <1>1, <2>1
  <2> QED BY <1>1, <2>2, <2>3
<1> QED BY <1>2 DEF InOrder

(* Replays and panels choose the same snapshot while every one starts from *)
(* the newest, however the evidence came in (SnapshotTimeline.select_as_of,*)
(* _select_snapshot).                                                      *)
THEOREM ReadersAlwaysAgree == Spec => []ReadersAgree
<1>1. Books /\ Living => ReadersAgree
  <2> SUFFICES ASSUME Living, Straight, NEW t \in Time PROVE SelectAsOf(t) = SelectSnapshot(t)
    BY DEF ReadersAgree
  <2>1. \A i \in DOMAIN snapshots : AvailableAt(i) = CreatedAt(i)
    BY StraightIsInOrder, AvailableWhenCreated
  <2>2. Availability = Creation BY <2>1 DEF Availability, Creation
  <2>3. {i \in DOMAIN snapshots : Availability[i] <= t}
          = {i \in DOMAIN snapshots : CreatedAt(i) <= t}
    BY <2>1 DEF Availability
  <2> QED BY <2>2, <2>3 DEF SelectAsOf, SelectSnapshot
<1> QED BY <1>1, GraphInit, GraphStep, PTL DEF Spec

(* A relationship that has been retired is scored by no later snapshot     *)
(* after its own time, whatever is decided about it (_apply_decision).     *)
THEOREM RetirementIsFinal == Spec => []RetiredIsFinal
<1>1. Books /\ Living => RetiredIsFinal
  <2> SUFFICES ASSUME Living, Straight, NEW i \in DOMAIN snapshots \ {1}, NEW e \in Edge,
                      snapshots[i - 1].edges[e] # None,
                      snapshots[i - 1].edges[e].to # Open,
                      NEW t \in Time, t > CreatedAt(i)
               PROVE  e \notin Scored(i, t)
    BY DEF RetiredIsFinal
  <2>1. i \in Nat /\ i > 1 /\ snapshots[i].base = i - 1 /\ i - 1 # 0
    BY SnapshotFacts DEF Living, Straight
  <2>2. PICK c \in Nat, es \in Graph : c = CreatedAt(i) /\ es = snapshots[i].edges
    BY SnapshotFacts DEF Living
  <2>3. StillEnded(snapshots[i - 1].edges, es) BY <2>1, <2>2 DEF Living, Filed
  <2>4. es[e] # None /\ es[e].to # Open BY <2>3 DEF StillEnded
  <2>5. Timely(es, c) BY <2>2, StraightIsInOrder DEF Living, Filed
  <2>6. es[e].to \in Nat /\ es[e].to <= c
    BY <2>4, <2>5 DEF Timely, NoLater, Graph, ReviewedEdge
  <2>7. t \in Nat BY IntakeAssumption DEF Time
  <2>8. ~ IsEffective(es[e], t) BY <2>2, <2>4, <2>6, <2>7 DEF IsEffective
  <2> QED BY <2>2, <2>8 DEF Scored
<1> QED BY <1>1, GraphInit, GraphStep, PTL DEF Spec

-----------------------------------------------------------------------------
(***************************************************************************)
(* The command build-graph-from-evidence.                                  *)
(***************************************************************************)
Whole(a) == [by |-> a, whole |-> TRUE]

(* Types; a process that runs has an attempt in hand.                      *)
BuildTyped ==
    /\ bus \in [Message -> {"absent", "pending", "acknowledged"}]
    /\ output \in [Attempt -> Path]
    /\ file \in [Path -> [by : Attempt \cup {Nobody}, whole : BOOLEAN]]
    /\ pc \in {"exit", "extract", "acknowledge_command", "publish_next", "adjudicate",
               "write", "acknowledge_review", "publish_result"}
    /\ crashes \in Nat
    /\ pc # "exit" => cur \in Attempt
    /\ pc = "exit" => cur = Nobody

(* What the process has done to the file of the attempt in its hand.       *)
Held ==
    /\ pc = "write" => file[output[cur]].by = cur
    /\ pc \in {"acknowledge_review", "publish_result"} => file[output[cur]] = Whole(cur)

(* Without a crash, an acknowledged command is answered, or the process    *)
(* that acknowledged it is about to answer.                                *)
Answered ==
    crashes = 0 => \A a \in Attempt :
        bus[<<"command", a>>] = "acknowledged"
            => \/ cur = a /\ pc = "publish_next"
               \/ Sent("review", a) \/ Sent("nothing_validated", a)

Building == BuildTyped /\ Held /\ ReviewedIsPublished /\ Answered

-----------------------------------------------------------------------------
LEMMA KindsOfMessage == \A a \in Attempt : \A k \in Kind : <<k, a>> \in Message
BY DEF Message

LEMMA BuildingInit == BuildInit => Building
<1> SUFFICES ASSUME BuildInit PROVE Building OBVIOUS
<1>1. \A a \in Attempt : \A k \in Kind : bus[<<k, a>>] = "absent" BY KindsOfMessage DEF BuildInit
<1>2. BuildTyped
  <2>1. bus \in [Message -> {"absent", "pending", "acknowledged"}] BY DEF BuildInit
  <2>2. file \in [Path -> [by : Attempt \cup {Nobody}, whole : BOOLEAN]] BY DEF BuildInit, Blank
  <2> QED BY <2>1, <2>2 DEF BuildTyped, BuildInit
<1>3. Held BY DEF Held, BuildInit
<1>4. ReviewedIsPublished BY <1>1 DEF ReviewedIsPublished, Sent, Kind
<1>5. Answered BY <1>1 DEF Answered, Kind
<1> QED BY <1>2, <1>3, <1>4, <1>5 DEF Building

(* Every step keeps the types and the attempt in hand.                     *)
LEMMA BuildTypedStep == BuildTyped /\ [BuildNext]_build => BuildTyped'
<1> SUFFICES ASSUME BuildTyped, [BuildNext]_build PROVE BuildTyped' OBVIOUS
<1> USE KindsOfMessage DEF BuildTyped
<1>1. ASSUME NEW a \in Attempt, EnqueueExtraction(a) PROVE BuildTyped'
  BY <1>1 DEF EnqueueExtraction, Kind
<1>2. ASSUME NEW a \in Attempt, NEW k \in Kind, Consume(k, a) PROVE BuildTyped'
  BY <1>2 DEF Consume
<1>3. CASE Extract BY <1>3 DEF Extract, Goto, Exit
<1>4. CASE AcknowledgeCommand BY <1>4 DEF AcknowledgeCommand, Acknowledge, Goto, Kind
<1>5. CASE PublishNext BY <1>5 DEF PublishNext, Publish, Goto, Exit, Kind
<1>6. CASE Adjudicate
  <2>1. file' \in [Path -> [by : Attempt \cup {Nobody}, whole : BOOLEAN]] BY <1>6 DEF Adjudicate
  <2> QED BY <1>6, <2>1 DEF Adjudicate, Goto
<1>7. CASE AdjudicationFails BY <1>7 DEF AdjudicationFails, Exit
<1>8. CASE Write
  <2>1. file' \in [Path -> [by : Attempt \cup {Nobody}, whole : BOOLEAN]] BY <1>8 DEF Write
  <2> QED BY <1>8, <2>1 DEF Write, Goto
<1>9. CASE AcknowledgeReview BY <1>9 DEF AcknowledgeReview, Acknowledge, Goto, Kind
<1>10. CASE PublishResult BY <1>10 DEF PublishResult, Publish, Exit, Kind
<1>11. CASE Crash BY <1>11 DEF Crash
<1>12. CASE UNCHANGED build BY <1>12 DEF build
<1> QED
  BY <1>1, <1>2, <1>3, <1>4, <1>5, <1>6, <1>7, <1>8, <1>9, <1>10, <1>11, <1>12 DEF BuildNext

(* A complete snapshot is never written again.                             *)
LEMMA WholeStaysWhole ==
    ASSUME BuildTyped, Held, [BuildNext]_build, NEW a \in Attempt, file[output[a]] = Whole(a)
    PROVE  file'[output'[a]] = Whole(a)
<1> USE AttemptAssumption
<1>1. output' = output
  BY DEF BuildNext, build, EnqueueExtraction, Consume, Extract, AcknowledgeCommand,
      PublishNext, Adjudicate, AdjudicationFails, Write, AcknowledgeReview, PublishResult, Crash
<1>2. CASE Adjudicate
  <2>1. output[cur] # output[a] BY <1>2 DEF Adjudicate, Refuses, Whole
  <2> QED BY <1>1, <1>2, <2>1 DEF Adjudicate, BuildTyped
<1>3. CASE Write
  <2>1. CASE output[cur] # output[a] BY <1>1, <1>3, <2>1 DEF Write, BuildTyped
  <2>2. CASE output[cur] = output[a]
    <3>1. output[a] \in Path BY DEF BuildTyped
    <3>2. file'[output[a]] = [file[output[a]] EXCEPT !.whole = TRUE]
      BY <1>3, <2>2, <3>1 DEF Write, BuildTyped
    <3>3. file[output[a]].by = a BY DEF Whole
    <3>4. file[output[a]] \in [by : Attempt \cup {Nobody}, whole : BOOLEAN] BY <3>1 DEF BuildTyped
    <3> DEFINE r == file[output[a]]
    <3>5. r \in [by : Attempt \cup {Nobody}, whole : BOOLEAN] /\ r.by = a BY <3>3, <3>4
    <3>6. file'[output[a]] = [r EXCEPT !.whole = TRUE] BY <3>2
    <3>7. file'[output[a]] = Whole(a)
      <4> HIDE DEF r
      <4> QED BY <3>5, <3>6 DEF Whole
    <3> QED BY <1>1, <3>7
  <2> QED BY <2>1, <2>2
<1>4. CASE file' = file BY <1>1, <1>4
<1>5. Adjudicate \/ Write \/ file' = file
  BY DEF BuildNext, build, EnqueueExtraction, Consume, Extract, AcknowledgeCommand,
         PublishNext, AdjudicationFails, AcknowledgeReview, PublishResult, Crash
<1> QED BY <1>2, <1>3, <1>4, <1>5

LEMMA HeldStep == BuildTyped /\ Held /\ [BuildNext]_build => Held'
<1> SUFFICES ASSUME BuildTyped, Held, [BuildNext]_build PROVE Held' OBVIOUS
<1>1. ASSUME NEW a \in Attempt, EnqueueExtraction(a) PROVE Held'
  BY <1>1 DEF EnqueueExtraction, Held
<1>2. ASSUME NEW a \in Attempt, NEW k \in Kind, Consume(k, a) PROVE Held'
  BY <1>2 DEF Consume, Held
<1>3. CASE Extract BY <1>3 DEF Extract, Goto, Exit, Held
<1>4. CASE AcknowledgeCommand BY <1>4 DEF AcknowledgeCommand, Goto, Held
<1>5. CASE PublishNext BY <1>5 DEF PublishNext, Publish, Goto, Exit, Held
<1>6. CASE Adjudicate
  <2>1. cur \in Attempt /\ output[cur] \in Path BY <1>6 DEF Adjudicate, BuildTyped
  <2>2. file'[output[cur]] = [by |-> cur, whole |-> FALSE] BY <1>6, <2>1 DEF Adjudicate, BuildTyped
  <2> QED BY <1>6, <2>2 DEF Adjudicate, Goto, Held
<1>7. CASE AdjudicationFails BY <1>7 DEF AdjudicationFails, Exit, Held
<1>8. CASE Write
  <2>1. cur \in Attempt /\ output[cur] \in Path BY <1>8 DEF Write, BuildTyped
  <2>2. file'[output[cur]] = [file[output[cur]] EXCEPT !.whole = TRUE]
    BY <1>8, <2>1 DEF Write, BuildTyped
  <2>3. file[output[cur]].by = cur BY <1>8 DEF Write, Held
  <2>4. file[output[cur]] \in [by : Attempt \cup {Nobody}, whole : BOOLEAN] BY <2>1 DEF BuildTyped
  <2>5. file'[output[cur]] = Whole(cur) BY <2>2, <2>3, <2>4 DEF Whole
  <2> QED BY <1>8, <2>5 DEF Write, Goto, Held, Whole
<1>9. CASE AcknowledgeReview BY <1>9 DEF AcknowledgeReview, Goto, Held, Whole
<1>10. CASE PublishResult BY <1>10 DEF PublishResult, Publish, Exit, Held
<1>11. CASE Crash BY <1>11 DEF Crash, Held
<1>12. CASE UNCHANGED build BY <1>12 DEF build, Held, Whole
<1> QED
  BY <1>1, <1>2, <1>3, <1>4, <1>5, <1>6, <1>7, <1>8, <1>9, <1>10, <1>11, <1>12 DEF BuildNext

(* A review becomes acknowledged, or a result sent, only by the process    *)
(* that holds its complete file.                                           *)
LEMMA ReviewedStep ==
    BuildTyped /\ Held /\ ReviewedIsPublished /\ [BuildNext]_build => ReviewedIsPublished'
<1> SUFFICES ASSUME BuildTyped, Held, ReviewedIsPublished, [BuildNext]_build, NEW a \in Attempt,
                    bus'[<<"review", a>>] = "acknowledged" \/ bus'[<<"result", a>>] # "absent"
             PROVE  file'[output'[a]] = Whole(a)
  BY DEF ReviewedIsPublished, Sent, Whole
<1> USE DEF Kind
<1>1. SUFFICES file[output[a]] = Whole(a) BY <1>1, WholeStaysWhole
<1>2. CASE bus[<<"review", a>>] = "acknowledged" \/ bus[<<"result", a>>] # "absent"
  BY <1>2 DEF ReviewedIsPublished, Sent, Whole
<1>3. CASE ~ (bus[<<"review", a>>] = "acknowledged" \/ bus[<<"result", a>>] # "absent")
  <2> USE KindsOfMessage, <1>3 DEF BuildTyped
  <2>1. ASSUME NEW b \in Attempt, EnqueueExtraction(b) PROVE FALSE
    BY <2>1 DEF EnqueueExtraction
  <2>2. CASE AcknowledgeCommand BY <2>2 DEF AcknowledgeCommand, Acknowledge
  <2>3. CASE PublishNext BY <2>3 DEF PublishNext, Publish, Exit
  <2>4. CASE AcknowledgeReview
    <3>1. cur = a BY <2>4 DEF AcknowledgeReview, Acknowledge
    <3> QED BY <2>4, <3>1 DEF AcknowledgeReview, Held
  <2>5. CASE PublishResult
    <3>1. cur = a BY <2>5 DEF PublishResult, Publish, Exit
    <3> QED BY <2>5, <3>1 DEF PublishResult, Held
  <2>6. bus' # bus BY DEF BuildTyped
  <2> QED BY <2>1, <2>2, <2>3, <2>4, <2>5, <2>6
        DEF BuildNext, build, Consume, Extract, Adjudicate, AdjudicationFails, Write, Crash
<1> QED BY <1>2, <1>3

LEMMA AnsweredStep == BuildTyped /\ Answered /\ [BuildNext]_build => Answered'
<1> SUFFICES ASSUME BuildTyped, Answered, [BuildNext]_build, crashes' = 0, NEW a \in Attempt,
                    bus'[<<"command", a>>] = "acknowledged"
             PROVE  \/ cur' = a /\ pc' = "publish_next"
                    \/ bus'[<<"review", a>>] # "absent"
                    \/ bus'[<<"nothing_validated", a>>] # "absent"
  BY DEF Answered, Sent
<1> USE KindsOfMessage DEF BuildTyped, Kind, Answered, Sent
<1>1. crashes = 0
  <2>1. CASE Crash BY <2>1 DEF Crash
  <2>2. CASE PublishNext BY <2>2 DEF PublishNext, Publish, Goto, Exit
  <2>3. CASE PublishResult BY <2>3 DEF PublishResult, Publish, Exit
  <2>4. CASE UNCHANGED build BY <2>4 DEF build
  <2>5. CASE AcknowledgeCommand BY <2>5 DEF AcknowledgeCommand, Goto
  <2>6. CASE AcknowledgeReview BY <2>6 DEF AcknowledgeReview, Goto
  <2>7. CASE Extract BY <2>7 DEF Extract, Goto, Exit
  <2>8. CASE Adjudicate \/ Write BY <2>8 DEF Adjudicate, Write, Goto
  <2>9. CASE AdjudicationFails BY <2>9 DEF AdjudicationFails, Exit
  <2> QED
    BY <2>1, <2>2, <2>3, <2>4, <2>5, <2>6, <2>7, <2>8, <2>9
    DEF BuildNext, EnqueueExtraction, Consume
<1>2. CASE AcknowledgeCommand
  <2>1. CASE a = cur BY <1>2, <2>1 DEF AcknowledgeCommand, Goto
  <2>2. CASE a # cur BY <1>1, <1>2, <2>2 DEF AcknowledgeCommand, Acknowledge
  <2> QED BY <2>1, <2>2
<1>3. CASE PublishNext
  <2>1. bus[<<"command", a>>] = "acknowledged" BY <1>3 DEF PublishNext, Publish, Exit
  <2>2. CASE cur = a BY <1>3, <2>2 DEF PublishNext, Publish, Exit
  <2>3. CASE cur # a BY <1>1, <1>3, <2>1, <2>3 DEF PublishNext, Publish, Exit
  <2> QED BY <2>2, <2>3
<1>4. ASSUME NEW b \in Attempt, EnqueueExtraction(b)
      PROVE  bus'[<<"review", a>>] # "absent" \/ bus'[<<"nothing_validated", a>>] # "absent"
  BY <1>1, <1>4 DEF EnqueueExtraction
<1>5. CASE AcknowledgeReview BY <1>1, <1>5 DEF AcknowledgeReview, Acknowledge
<1>6. CASE PublishResult BY <1>1, <1>6 DEF PublishResult, Publish, Exit
<1>7. CASE UNCHANGED build BY <1>1, <1>7 DEF build
<1>8. ASSUME bus' = bus, pc # "publish_next"
      PROVE  bus'[<<"review", a>>] # "absent" \/ bus'[<<"nothing_validated", a>>] # "absent"
  BY <1>1, <1>8
<1>9. ASSUME NEW b \in Attempt, NEW k \in Kind, Consume(k, b)
      PROVE  bus'[<<"review", a>>] # "absent" \/ bus'[<<"nothing_validated", a>>] # "absent"
  BY <1>8, <1>9 DEF Consume
<1>10. CASE Extract BY <1>8, <1>10 DEF Extract
<1>11. CASE Adjudicate BY <1>8, <1>11 DEF Adjudicate
<1>12. CASE AdjudicationFails BY <1>8, <1>12 DEF AdjudicationFails
<1>13. CASE Write BY <1>8, <1>13 DEF Write
<1>14. CASE Crash BY <1>1, <1>14 DEF Crash
<1> QED
  BY <1>2, <1>3, <1>4, <1>5, <1>6, <1>7, <1>9, <1>10, <1>11, <1>12, <1>13, <1>14 DEF BuildNext

LEMMA BuildingStep == Building /\ [BuildNext]_build => Building'
BY BuildTypedStep, HeldStep, ReviewedStep, AnsweredStep DEF Building

(* A review that was acknowledged, or whose result was sent, has left a    *)
(* complete snapshot of its own, whatever died when (process_graph).       *)
THEOREM ReviewsArePublished == BuildSpec => []ReviewedIsPublished
<1>1. Building => ReviewedIsPublished BY DEF Building
<1> QED BY <1>1, BuildingInit, BuildingStep, PTL DEF BuildSpec

(* Nothing but a crash loses a command (process_extraction).               *)
THEOREM CommandsAreAnswered == BuildSpec => []OnlyCrashesLoseCommands
<1>1. Building => OnlyCrashesLoseCommands BY DEF Building, Answered, OnlyCrashesLoseCommands
<1> QED BY <1>1, BuildingInit, BuildingStep, PTL DEF BuildSpec
=============================================================================
