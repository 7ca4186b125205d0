------------------------- MODULE GraphPipelineProofs -------------------------
(***************************************************************************)
(* Theorems about GraphPipeline, and about the refresh jobs of module      *)
(* GraphRefresh that run it, for every set of edges, verdicts and snapshot *)
(* identifiers and every horizon.                                          *)
(***************************************************************************)
EXTENDS GraphRefresh, TLAPS

\* The rows of one snapshot, and what every row of a repository satisfies.
OrderedRow == {r \in EdgeRow : r.ef < r.et /\ r.kf < r.kt}

LEMMA ClockType == Clock \subseteq Nat /\ Open \in Nat /\ \A c \in Clock : c < Open
BY HorizonAssumption DEF Clock, Open

\* Snapshots are totally ordered, so a greatest one is the one Latest chooses.
LEMMA LatestIs ==
    ASSUME NEW S \in SUBSET Snapshot, NEW m \in S, \A t \in S \ {m} : Before(t, m)
    PROVE  Latest(S) = m
<1>1. ASSUME NEW t \in S PROVE t.known \in Nat /\ t.id \in Nat
  <2>1. t.known \in Clock /\ t.id \in Id
    BY DEF Snapshot
  <2>2. Clock \subseteq Nat
    BY ClockType
  <2> QED BY <2>1, <2>2, IdAssumption
<1>2. PICK l \in S : l = Latest(S) /\ \A t \in S \ {l} : Before(t, l)
  BY DEF Latest
<1>3. ~ (Before(m, l) /\ Before(l, m))
  BY <1>1, <1>2 DEF Before
<1> QED BY <1>2, <1>3

-----------------------------------------------------------------------------
\* A revision whose knowledge time has moved on keeps every row's intervals ordered.
LEMMA NextRowsType ==
    ASSUME NEW R \in SUBSET OrderedRow, NEW q \in Request, Timely(R, q)
    PROVE  NextRows(R, q) \subseteq OrderedRow
<1> USE ClockType, HorizonAssumption, MarginAssumption
<1>1. q.asof \in Clock /\ q.known \in Clock
  BY DEF Request, Assessment
<1>2. \A e \in Named(q) : e \in Edge /\ q.verdicts[e] \in Verdict
  BY DEF Request, Assessment, Named
<1>3. \A e \in Named(q) : /\ q.verdicts[e].status \in Status
                          /\ q.verdicts[e].margin \in Margin
  BY <1>2, VerdictAssumption
<1>4. \A e \in Named(q) : NewRow(e, q) \in OrderedRow
  BY <1>1, <1>2, <1>3 DEF NewRow, OrderedRow, EdgeRow
<1>5. ASSUME NEW r \in Revised(R, q)
      PROVE  /\ r \in OrderedRow /\ r.ef <= q.asof /\ q.known < r.kt /\ r.kf < q.known
  BY <1>1 DEF Revised, Active, Visible, Timely
<1>6. ASSUME NEW r \in Revised(R, q) PROVE Closed(r, q) \in OrderedRow
  BY <1>1, <1>5 DEF Closed, OrderedRow, EdgeRow
<1>7. ASSUME NEW r \in Revised(R, q), q.asof > r.ef PROVE Past(r, q) \in OrderedRow
  BY <1>1, <1>5, <1>7 DEF Past, OrderedRow, EdgeRow
<1>8. ASSUME NEW r \in Revised(R, q), NEW m \in Margin PROVE Retired(r, q, m) \in OrderedRow
  BY <1>1, <1>5, ZenonT(60) DEF Retired, OrderedRow, EdgeRow, Status
<1>9. ASSUME NEW r \in Revised(R, q), r.edge \in Named(q) PROVE Assessed(r, q) \in OrderedRow
  <2>1. CASE q.verdicts[r.edge].retire
    BY <2>1, <1>3, <1>8, <1>9 DEF Assessed
  <2>2. CASE ~ q.verdicts[r.edge].retire
    <3>1. NewRow(r.edge, q) \in OrderedRow /\ r.sup \in Clock
      BY <1>4, <1>5, <1>9 DEF OrderedRow, EdgeRow
    <3> QED BY <2>2, <3>1, <1>1 DEF Assessed, OrderedRow, EdgeRow
  <2> QED BY <2>1, <2>2
<1>10. ASSUME NEW r \in Revised(R, q) PROVE Decayed(r, q) \in OrderedRow
  <2> DEFINE left == r.margin - Elapsed(r, q)
             m == IF left < 0 THEN -1 ELSE left
  <2>1. m \in Margin
    <3>1. r.margin \in Margin /\ r.ef \in Nat /\ q.asof \in Nat /\ r.ef <= q.asof
      BY <1>1, <1>5 DEF OrderedRow, EdgeRow
    <3> QED BY <3>1 DEF Elapsed, Margin
  <2>2. CASE Expired(r, q)
    BY <2>1, <2>2, <1>8 DEF Decayed
  <2>3. CASE ~ Expired(r, q)
    <3> HIDE DEF m
    <3>1. r.edge \in Edge /\ r.sup \in Clock /\ r.elig \in Status
      BY <1>5 DEF OrderedRow, EdgeRow
    <3>2. Decayed(r, q) =
            [edge |-> r.edge, ef |-> q.asof, et |-> Open, kf |-> q.known, kt |-> Open,
             life |-> "active", elig |-> IF m < 0 THEN "ineligible" ELSE r.elig,
             margin |-> m, sup |-> r.sup, by |-> "decayed"]
      BY <2>3 DEF Decayed, m
    <3>3. q.asof < Open /\ q.known < Open
      BY <1>1
    <3>4. (IF m < 0 THEN "ineligible" ELSE r.elig) \in Status
      BY <3>1 DEF Status
    <3> QED BY <3>1, <3>2, <3>3, <3>4, <2>1, <1>1 DEF OrderedRow, EdgeRow
  <2> QED BY <2>2, <2>3
<1>11. ASSUME NEW r \in Revised(R, q) PROVE Replacement(r, q) \in OrderedRow
  BY <1>9, <1>10 DEF Replacement
<1> QED BY <1>4, <1>6, <1>7, <1>11 DEF NextRows, Added

(* The heart of replay: what the next rows say of a knowledge time that    *)
(* has passed is what the rows before said of it.                          *)
LEMMA PastIsKept ==
    ASSUME NEW R \in SUBSET OrderedRow, NEW q \in Request, Timely(R, q),
           NEW x \in Clock, NEW k \in Clock, k < q.known
    PROVE  Claims(Visible(NextRows(R, q), x, k)) = Claims(Visible(R, x, k))
<1> USE ClockType
<1>1. q.asof \in Clock /\ q.known \in Clock
  BY DEF Request, Assessment
<1>2. ASSUME NEW r \in Revised(R, q)
      PROVE  /\ r \in R /\ r \in OrderedRow
             /\ r \in Visible(R, x, k) <=> Closed(r, q) \in Visible({Closed(r, q)}, x, k)
             /\ Claim(Closed(r, q)) = Claim(r)
             /\ Past(r, q).kf = q.known
             /\ Replacement(r, q).kf = q.known
  <2>1. r \in R /\ r \in OrderedRow /\ q.known < r.kt
    BY DEF Revised, Active, Visible
  <2>2. r \in Visible(R, x, k) <=> Closed(r, q) \in Visible({Closed(r, q)}, x, k)
    BY <1>1, <2>1 DEF Visible, Closed, OrderedRow, EdgeRow
  <2>3. Claim(Closed(r, q)) = Claim(r)
    BY <2>1 DEF Claim, Closed, OrderedRow, EdgeRow
  <2>4. Past(r, q).kf = q.known
    BY <2>1 DEF Past, OrderedRow, EdgeRow
  <2>5. \A m : Retired(r, q, m).kf = q.known
    BY <2>1 DEF Retired, OrderedRow, EdgeRow
  <2>6. Replacement(r, q).kf = q.known
    BY <2>5 DEF Replacement, Assessed, Decayed, NewRow
  <2> QED BY <2>1, <2>2, <2>3, <2>4, <2>6
<1>3. \A e : NewRow(e, q).kf = q.known
  BY DEF NewRow
<1>4. ASSUME NEW r \in Visible(NextRows(R, q), x, k)
      PROVE  \E o \in Visible(R, x, k) : Claim(r) = Claim(o)
  <2>1. r \in NextRows(R, q) /\ r.kf <= k
    BY DEF Visible
  <2>0. ~ (r.kf = q.known)
    <3>1. k \in Nat /\ q.known \in Nat
      BY <1>1
    <3> QED BY <2>1, <3>1
  <2>2. r \in R \ Revised(R, q) \/ \E o \in Revised(R, q) : r = Closed(o, q)
    <3>1. r \notin Added(R, q)
      BY <2>0, <1>3 DEF Added
    <3>2. ASSUME NEW o \in Revised(R, q) PROVE r # Past(o, q) /\ r # Replacement(o, q)
      <4>1. Past(o, q).kf = q.known /\ Replacement(o, q).kf = q.known
        BY <1>2
      <4> QED BY <2>0, <4>1
    <3>3. \/ r \in R \ Revised(R, q)
          \/ r \in {Closed(o, q) : o \in Revised(R, q)}
          \/ r \in {Past(o, q) : o \in {s \in Revised(R, q) : q.asof > s.ef}}
          \/ r \in {Replacement(o, q) : o \in Revised(R, q)}
          \/ r \in Added(R, q)
      BY <2>1 DEF NextRows
    <3> QED BY <3>1, <3>2, <3>3
  <2>3. CASE r \in R \ Revised(R, q)
    BY <1>4, <2>3 DEF Visible
  <2>4. ASSUME NEW o \in Revised(R, q), r = Closed(o, q)
        PROVE  o \in Visible(R, x, k) /\ Claim(r) = Claim(o)
    BY <1>2, <1>4, <2>4 DEF Visible
  <2> QED BY <2>2, <2>3, <2>4
<1>5. ASSUME NEW o \in Visible(R, x, k)
      PROVE  \E r \in Visible(NextRows(R, q), x, k) : Claim(r) = Claim(o)
  <2>1. CASE o \in Revised(R, q)
    <3>1. Closed(o, q) \in NextRows(R, q)
      BY <2>1 DEF NextRows
    <3>2. Closed(o, q) \in Visible(NextRows(R, q), x, k)
      BY <1>2, <1>5, <2>1, <3>1 DEF Visible
    <3> QED BY <1>2, <2>1, <3>2
  <2>2. CASE o \notin Revised(R, q)
    BY <1>5, <2>2 DEF NextRows, Visible
  <2> QED BY <2>1, <2>2
<1> QED BY <1>4, <1>5 DEF Claims

-----------------------------------------------------------------------------
(***************************************************************************)
(* The inductive invariant.                                                *)
(***************************************************************************)

\* Whatever the knowledge time, one snapshot known by then comes after the others.
HasLatest ==
    /\ snapshots # {} => \E m \in snapshots : \A t \in snapshots \ {m} : Before(t, m)
    /\ \A k \in Clock : KnownBy(snapshots, k) # {} =>
         \E m \in KnownBy(snapshots, k) : \A t \in KnownBy(snapshots, k) \ {m} : Before(t, m)

IInv == TypeOK /\ HasLatest /\ HistoryKept

\* What a publication reads: the rows of a snapshot that no other one follows.
LEMMA PriorIsLast ==
    ASSUME TypeOK, HasLatest, snapshots # {}
    PROVE  Prior \in snapshots /\ \A t \in snapshots \ {Prior} : Before(t, Prior)
<1>1. PICK m \in snapshots : \A t \in snapshots \ {m} : Before(t, m)
  BY DEF HasLatest
<1>2. Prior = m
  BY <1>1, LatestIs DEF Prior, TypeOK
<1> QED BY <1>1, <1>2

LEMMA PriorRowsType ==
    ASSUME TypeOK, HasLatest
    PROVE  PriorRows \in SUBSET OrderedRow
<1>1. CASE snapshots = {}
  BY <1>1 DEF PriorRows
<1>2. CASE snapshots # {}
  <2>1. Prior \in snapshots /\ Prior \in Snapshot
    BY <1>2, PriorIsLast DEF TypeOK
  <2>2. Prior.rows \subseteq EdgeRow /\ \A r \in Prior.rows : r.ef < r.et /\ r.kf < r.kt
    BY <2>1 DEF TypeOK, Snapshot
  <2> QED BY <1>2, <2>2 DEF PriorRows, OrderedRow
<1> QED BY <1>1, <1>2

-----------------------------------------------------------------------------
\* A published snapshot is typed, new, and in order behind the latest one.
LEMMA Publication ==
    ASSUME TypeOK, HasLatest, NEW q \in Request, Run(q)
    PROVE  \E n \in Snapshot :
             /\ snapshots' = snapshots \cup {n}
             /\ n.id = q.id /\ n.asof = q.asof /\ n.known = q.known /\ n.req = q
             /\ n.rows = NextRows(PriorRows, q)
             /\ n.rows \subseteq OrderedRow
             /\ \A s \in snapshots : s.id # n.id /\ s.known <= n.known
<1> DEFINE n == [id |-> q.id, asof |-> q.asof, known |-> q.known,
                 parent |-> IF snapshots = {} THEN None ELSE Prior.id,
                 rows |-> NextRows(PriorRows, q), req |-> q]
<1>1. /\ q.id \in Id /\ q.asof \in Clock /\ q.known \in Clock
      /\ \A s \in snapshots : s.id \in Id /\ s.known \in Clock
  BY DEF Request, Assessment, TypeOK, Snapshot
<1>2. n.rows \subseteq OrderedRow
  BY PriorRowsType, NextRowsType DEF Run, Publishable
<1>3. OrderedRow \subseteq EdgeRow
  BY DEF OrderedRow
<1>4. n.parent \in Id \cup {None}
  BY PriorIsLast, <1>1
<1>5. n \in Snapshot
  <2> HIDE DEF n
  <2>1. n = [id |-> n.id, asof |-> n.asof, known |-> n.known, parent |-> n.parent,
             rows |-> n.rows, req |-> n.req]
    BY DEF n
  <2>2. n.id = q.id /\ n.asof = q.asof /\ n.known = q.known /\ n.req = q
    BY DEF n
  <2> QED BY <1>1, <1>2, <1>3, <1>4, <2>1, <2>2 DEF Snapshot
<1>6. \A s \in snapshots : s.id # q.id
  BY DEF Run, Publishable
<1>7. ASSUME NEW s \in snapshots PROVE s.known <= q.known
  <2>1. q.known >= Prior.known
    BY <1>7 DEF Run, Publishable, InOrder
  <2>2. Prior \in snapshots /\ (s = Prior \/ Before(s, Prior))
    BY PriorIsLast
  <2>3. s.known \in Nat /\ Prior.known \in Nat /\ q.known \in Nat
    BY <1>1, <2>2, ClockType
  <2> QED BY <2>1, <2>2, <2>3 DEF Before
<1>8. snapshots' = snapshots \cup {n}
  BY DEF Run
<1> QED BY <1>2, <1>5, <1>6, <1>7, <1>8

LEMMA RunKeepsType ==
    ASSUME TypeOK, HasLatest, NEW q \in Request, Run(q)
    PROVE  TypeOK'
<1>1. PICK n \in Snapshot : /\ snapshots' = snapshots \cup {n}
                            /\ n.rows \subseteq OrderedRow
                            /\ \A s \in snapshots : s.id # n.id
  BY Publication
<1>2. \A r \in n.rows : r.ef < r.et /\ r.kf < r.kt
  BY <1>1 DEF OrderedRow
<1> QED BY <1>1, <1>2 DEF TypeOK

LEMMA RunKeepsLatest ==
    ASSUME TypeOK, HasLatest, NEW q \in Request, Run(q)
    PROVE  HasLatest'
<1>1. PICK n \in Snapshot : /\ snapshots' = snapshots \cup {n}
                            /\ \A s \in snapshots : s.id # n.id /\ s.known <= n.known
  BY Publication
<1>2. \A s \in snapshots' : s.known \in Nat /\ s.id \in Nat
  <2>1. \A s \in snapshots' : s.known \in Clock /\ s.id \in Id
    BY <1>1 DEF TypeOK, Snapshot
  <2> QED BY <2>1, ClockType, IdAssumption
<1>3. \E m \in snapshots' : \A t \in snapshots' \ {m} : Before(t, m)
  <2>1. CASE snapshots = {}
    BY <1>1, <2>1
  <2>2. CASE snapshots # {}
    <3>1. Prior \in snapshots /\ \A t \in snapshots \ {Prior} : Before(t, Prior)
      BY <2>2, PriorIsLast
    <3>2. CASE Before(Prior, n)
      <4>1. \A t \in snapshots : Before(t, n)
        BY <1>1, <1>2, <3>1, <3>2 DEF Before
      <4> QED BY <1>1, <4>1
    <3>3. CASE ~ Before(Prior, n)
      <4>1. Before(n, Prior)
        BY <1>1, <1>2, <3>1, <3>3 DEF Before
      <4> QED BY <1>1, <3>1, <4>1
    <3> QED BY <3>2, <3>3
  <2> QED BY <2>1, <2>2
<1>4. ASSUME NEW k \in Clock, KnownBy(snapshots', k) # {}
      PROVE  \E m \in KnownBy(snapshots', k) :
               \A t \in KnownBy(snapshots', k) \ {m} : Before(t, m)
  <2>0. k \in Nat
    BY ClockType
  <2>1. CASE n.known <= k
    <3>1. KnownBy(snapshots', k) = snapshots'
      BY <1>1, <1>2, <2>0, <2>1 DEF KnownBy
    <3> QED BY <1>3, <3>1
  <2>2. CASE ~ (n.known <= k)
    <3>1. KnownBy(snapshots', k) = KnownBy(snapshots, k)
      BY <1>1, <2>2 DEF KnownBy
    <3> QED BY <1>4, <3>1 DEF HasLatest
  <2> QED BY <2>1, <2>2
<1> QED BY <1>3, <1>4 DEF HasLatest

LEMMA RunKeepsHistory ==
    ASSUME IInv, NEW q \in Request, Run(q)
    PROVE  HistoryKept'
<1> USE DEF IInv
<1>1. PICK n \in Snapshot : /\ snapshots' = snapshots \cup {n}
                            /\ n.known = q.known /\ n.rows = NextRows(PriorRows, q)
                            /\ \A s \in snapshots : s.id # n.id /\ s.known <= n.known
  BY Publication
<1>2. /\ n.known \in Clock /\ n.known \in Nat
      /\ \A s \in snapshots : s.known \in Nat
  <2>1. n.known \in Clock /\ \A s \in snapshots : s.known \in Clock
    BY DEF TypeOK, Snapshot
  <2> QED BY <2>1, ClockType
<1>3. SUFFICES ASSUME NEW s \in snapshots', NEW x \in Clock, NEW k \in Clock, k < s.known
               PROVE  Claims(Visible(s.rows, x, k)) = Claims(Replay(snapshots', x, k))
  BY DEF HistoryKept
<1>4. k \in Nat
  BY ClockType
<1>5. KnownBy(snapshots', k) = KnownBy(snapshots, k)
  BY <1>1, <1>2, <1>3, <1>4 DEF KnownBy
<1>6. Replay(snapshots', x, k) = Replay(snapshots, x, k)
  BY <1>5 DEF Replay
<1>7. CASE s \in snapshots
  BY <1>3, <1>6, <1>7 DEF HistoryKept
<1>8. CASE s = n
  <2>1. Claims(Visible(s.rows, x, k)) = Claims(Visible(PriorRows, x, k))
    BY <1>1, <1>3, <1>8, PriorRowsType, PastIsKept DEF Run, Publishable
  <2>2. CASE snapshots = {}
    BY <1>6, <2>1, <2>2 DEF PriorRows, Replay, KnownBy, Visible
  <2>3. CASE snapshots # {}
    <3>1. /\ Prior \in snapshots /\ PriorRows = Prior.rows
          /\ \A t \in snapshots \ {Prior} : Before(t, Prior)
      BY <2>3, PriorIsLast DEF PriorRows
    <3>2. CASE k < Prior.known
      BY <1>6, <2>1, <3>1, <3>2 DEF HistoryKept
    <3>3. CASE ~ (k < Prior.known)
      <4>1. KnownBy(snapshots, k) = snapshots
        BY <1>2, <1>4, <3>1, <3>3 DEF KnownBy, Before
      <4> QED BY <1>6, <2>1, <2>3, <3>1, <4>1 DEF Replay, Prior
    <3> QED BY <3>2, <3>3
  <2> QED BY <2>2, <2>3
<1> QED BY <1>1, <1>7, <1>8

-----------------------------------------------------------------------------
\* Every step is a run of one request, or leaves the repository alone.
LEMMA StepIsRun ==
    ASSUME [Next]_snapshots
    PROVE  UNCHANGED snapshots \/ \E q \in Request : Run(q)
<1>1. SUFFICES ASSUME NEW q \in Request, BootstrapGraph(q) \/ UpdateGraph(q)
               PROVE  \E p \in Request : Run(p)
  BY DEF Next
<1>2. [q EXCEPT !.trigger = "nightly"] \in Request
  BY DEF Request, Assessment
<1> QED BY <1>1, <1>2 DEF BootstrapGraph, UpdateGraph

LEMMA Inductive == Spec => []IInv
<1>1. Init => IInv
  BY DEF Init, IInv, TypeOK, HasLatest, HistoryKept, KnownBy
<1>2. IInv /\ [Next]_snapshots => IInv'
  <2>1. SUFFICES ASSUME IInv, [Next]_snapshots PROVE IInv'
    OBVIOUS
  <2>2. CASE UNCHANGED snapshots
    BY <2>1, <2>2 DEF IInv, TypeOK, HasLatest, HistoryKept
  <2>3. ASSUME NEW q \in Request, Run(q) PROVE IInv'
    BY <2>1, <2>3, RunKeepsType, RunKeepsLatest, RunKeepsHistory DEF IInv
  <2> QED BY <2>1, <2>2, <2>3, StepIsRun
<1> QED BY <1>1, <1>2, PTL DEF Spec

(* Snapshots and rows are well typed, identifiers unique and intervals     *)
(* ordered, although model_copy bypasses the contracts' validators.        *)
THEOREM TypeCorrect == Spec => []TypeOK
<1>1. IInv => TypeOK
  BY DEF IInv
<1> QED BY <1>1, Inductive, PTL

(* Historical views can be replayed: no publication changes what any later *)
(* snapshot says of a knowledge time that has passed.                      *)
THEOREM HistoryIsKept == Spec => []HistoryKept
<1>1. IInv => HistoryKept
  BY DEF IInv
<1> QED BY <1>1, Inductive, PTL
-----------------------------------------------------------------------------
(***************************************************************************)
(* Where eligibility comes from, and what a nightly run leaves active.     *)
(***************************************************************************)

\* Row r says what a published request made of its evidence, decayed since.
EarnedBy(r, u) ==
    /\ u.asof = r.sup
    /\ r.edge \in Named(u.req)
    /\ u.req.verdicts[r.edge].status = "eligible"
    /\ r.margin = u.req.verdicts[r.edge].margin - (r.ef - r.sup)

\* Stated of every row, visible or not: a closed row and a restated past keep it.
RowsEarned ==
    \A s \in snapshots : \A r \in s.rows :
        r.elig = "eligible" => \E u \in snapshots : EarnedBy(r, u)

LEMMA NextRowsEarned ==
    ASSUME NEW R \in SUBSET OrderedRow, NEW q \in Request, NEW S \in SUBSET Snapshot,
           \A r \in R : r.elig = "eligible" => \E u \in S : EarnedBy(r, u),
           NEW n, n.asof = q.asof, n.req = q,
           NEW r \in NextRows(R, q), r.elig = "eligible"
    PROVE  \E u \in S \cup {n} : EarnedBy(r, u)
<1> USE ClockType
<1>1. q.asof \in Clock /\ \A e \in Named(q) : q.verdicts[e] \in Verdict
  BY DEF Request, Assessment, Named
<1>2. ASSUME NEW e \in Named(q), e = r.edge, r.sup = q.asof, r.ef = q.asof,
             q.verdicts[e].status = "eligible", r.margin = q.verdicts[e].margin
      PROVE  EarnedBy(r, n)
  <2>1. q.verdicts[e].margin \in Margin
    BY <1>1, VerdictAssumption
  <2>2. q.verdicts[e].margin \in Int
    BY <2>1, MarginAssumption DEF Margin
  <2>3. q.asof \in Nat
    BY <1>1
  <2> QED BY <1>2, <2>2, <2>3 DEF EarnedBy
<1>3. CASE r \in R
  BY <1>3
<1>4. ASSUME NEW o \in Revised(R, q), r = Closed(o, q) \/ r = Past(o, q)
      PROVE  \E u \in S \cup {n} : EarnedBy(r, u)
  <2>1. o \in OrderedRow /\ o \in R
    BY DEF Revised, Active, Visible
  <2>2. /\ r.elig = o.elig /\ r.edge = o.edge /\ r.sup = o.sup
        /\ r.margin = o.margin /\ r.ef = o.ef
    BY <1>4, <2>1 DEF Closed, Past, OrderedRow, EdgeRow
  <2> QED BY <2>1, <2>2 DEF EarnedBy
<1>5. ASSUME NEW e \in Named(q), r = NewRow(e, q)
      PROVE  \E u \in S \cup {n} : EarnedBy(r, u)
  BY <1>2, <1>5 DEF NewRow
<1>6. ASSUME NEW o \in Revised(R, q), r = Replacement(o, q)
      PROVE  \E u \in S \cup {n} : EarnedBy(r, u)
  <2>1. o \in OrderedRow /\ o \in R
    BY DEF Revised, Active, Visible
  <2>2. \A m : r # Retired(o, q, m)
    BY <2>1 DEF Retired, OrderedRow, EdgeRow
  <2>3. CASE o.edge \in Named(q)
    <3>1. r = Assessed(o, q)
      BY <1>6, <2>3 DEF Replacement
    <3>2. r = [NewRow(o.edge, q) EXCEPT !.sup = IF q.verdicts[o.edge].supported THEN q.asof ELSE o.sup,
                                        !.by = "assessed"]
      BY <2>2, <3>1 DEF Assessed
    <3>3. /\ r.edge = o.edge /\ r.ef = q.asof /\ r.margin = q.verdicts[o.edge].margin
          /\ r.elig = q.verdicts[o.edge].status
          /\ r.sup = IF q.verdicts[o.edge].supported THEN q.asof ELSE o.sup
      BY <3>2 DEF NewRow
    <3>4. q.verdicts[o.edge].supported
      BY <1>1, <2>3, <3>3, SupportAssumption
    <3> QED BY <1>2, <2>3, <3>3, <3>4
  <2>4. CASE o.edge \notin Named(q)
    <3>1. r = Decayed(o, q)
      BY <1>6, <2>4 DEF Replacement
    <3>2. ~ Expired(o, q)
      BY <2>2, <3>1 DEF Decayed
    <3> DEFINE left == o.margin - Elapsed(o, q)
    <3>3. /\ r.edge = o.edge /\ r.ef = q.asof /\ r.sup = o.sup
          /\ r.elig = IF (IF left < 0 THEN -1 ELSE left) < 0 THEN "ineligible" ELSE o.elig
          /\ r.margin = IF left < 0 THEN -1 ELSE left
      BY <3>1, <3>2 DEF Decayed
    <3>4. o.margin \in Int /\ o.ef \in Nat /\ o.sup \in Nat /\ q.asof \in Nat
      <4>1. o.margin \in Margin /\ o.ef \in Clock /\ o.sup \in Clock
        BY <2>1 DEF OrderedRow, EdgeRow
      <4>2. o.margin \in Int
        BY <4>1, MarginAssumption DEF Margin
      <4> QED BY <1>1, <4>1, <4>2
    <3>5. o.elig = "eligible" /\ r.margin = o.margin - (q.asof - o.ef)
      BY <3>3, <3>4 DEF Elapsed
    <3>6. PICK u \in S : EarnedBy(o, u)
      BY <2>1, <3>5
    <3>7. u.req.verdicts[o.edge].margin \in Int
      <4>1. u.req \in Request
        BY DEF Snapshot
      <4>2. u.req.verdicts[o.edge] \in Verdict
        BY <3>6, <4>1 DEF Request, Assessment, Named, EarnedBy
      <4>3. u.req.verdicts[o.edge].margin \in Margin
        BY <4>2, VerdictAssumption
      <4> QED BY <4>3, MarginAssumption DEF Margin
    <3>8. EarnedBy(r, u)
      BY <3>3, <3>4, <3>5, <3>6, <3>7 DEF EarnedBy
    <3> QED BY <3>8
  <2> QED BY <2>3, <2>4
<1> QED BY <1>3, <1>4, <1>5, <1>6 DEF NextRows, Added

\* What is active after a nightly run has been looked at by it.
LEMMA NightlyLooks ==
    ASSUME NEW R \in SUBSET OrderedRow, NEW q \in Request, q.trigger = "nightly",
           NEW r \in NextRows(R, q), r.life = "active", r.edge \notin Named(q),
           r.ef <= q.asof, q.asof < r.et, r.kf <= q.known, q.known < r.kt
    PROVE  q.asof - r.sup < RetireAge
<1> USE ClockType
<1>1. q.asof \in Nat /\ q.known \in Nat /\ RetireAge \in Nat
  <2>1. q.asof \in Clock /\ q.known \in Clock
    BY DEF Request, Assessment
  <2> QED BY <2>1, RetireAssumption
<1>2. ASSUME NEW o \in OrderedRow, o.edge \notin Named(q), r = Replacement(o, q)
      PROVE  q.asof - r.sup < RetireAge
  <2>1. r = Decayed(o, q)
    BY <1>2 DEF Replacement
  <2>2. \A m : r # Retired(o, q, m)
    BY <1>2 DEF Retired, OrderedRow, EdgeRow
  <2>3. ~ Expired(o, q)
    BY <2>1, <2>2 DEF Decayed
  <2>4. r.sup = o.sup
    BY <2>1, <2>3 DEF Decayed
  <2>5. o.sup \in Nat
    BY <1>2 DEF OrderedRow, EdgeRow
  <2> QED BY <1>1, <2>3, <2>4, <2>5 DEF Expired
<1>3. CASE r \in R \ Revised(R, q)
  <2>1. r \in Active(R, q)
    BY <1>3 DEF Active, Visible
  <2>2. Replacement(r, q) = r
    BY <1>3, <2>1 DEF Revised, Affected
  <2> QED BY <1>2, <1>3, <2>2
<1>4. ASSUME NEW o \in Revised(R, q) PROVE r # Closed(o, q) /\ r # Past(o, q)
  <2>1. o \in OrderedRow
    BY DEF Revised, Active, Visible
  <2>2. Closed(o, q).kt = q.known /\ Past(o, q).et = q.asof
    BY <2>1 DEF Closed, Past, OrderedRow, EdgeRow
  <2> QED BY <1>1, <2>2
<1>5. ASSUME NEW o \in Revised(R, q), r = Replacement(o, q) PROVE q.asof - r.sup < RetireAge
  <2>1. o \in OrderedRow
    BY DEF Revised, Active, Visible
  <2>2. r.edge = o.edge
    BY <1>5, <2>1
    DEF Replacement, Assessed, Decayed, NewRow, Retired, OrderedRow, EdgeRow
  <2> QED BY <1>2, <1>5, <2>1, <2>2
<1>6. r \notin Added(R, q)
  BY DEF Added, NewRow
<1> QED BY <1>3, <1>4, <1>5, <1>6 DEF NextRows

LEMMA RunKeepsEarned ==
    ASSUME IInv, RowsEarned, NightlyRetires, NEW q \in Request, Run(q)
    PROVE  RowsEarned' /\ NightlyRetires'
<1>1. PICK n \in Snapshot : /\ snapshots' = snapshots \cup {n}
                            /\ n.asof = q.asof /\ n.known = q.known /\ n.req = q
                            /\ n.rows = NextRows(PriorRows, q)
  BY Publication DEF IInv
<1>2. PriorRows \in SUBSET OrderedRow /\ snapshots \in SUBSET Snapshot
  BY PriorRowsType DEF IInv, TypeOK
<1>3. \A r \in PriorRows : r.elig = "eligible" => \E u \in snapshots : EarnedBy(r, u)
  BY PriorIsLast DEF IInv, PriorRows, RowsEarned
<1>4. ASSUME NEW r \in n.rows, r.elig = "eligible"
      PROVE  \E u \in snapshots' : EarnedBy(r, u)
  BY <1>1, <1>2, <1>3, <1>4, NextRowsEarned
<1>5. RowsEarned'
  BY <1>1, <1>4 DEF RowsEarned
<1>6. ASSUME n.req.trigger = "nightly", NEW r \in Active(n.rows, n), r.edge \notin Named(n.req)
      PROVE  n.asof - r.sup < RetireAge
  BY <1>1, <1>2, <1>6, NightlyLooks DEF Active, Visible
<1>7. NightlyRetires'
  BY <1>1, <1>6 DEF NightlyRetires
<1> QED BY <1>5, <1>7

LEMMA Earned == Spec => [](IInv /\ RowsEarned /\ NightlyRetires)
<1>1. Init => RowsEarned /\ NightlyRetires
  BY DEF Init, RowsEarned, NightlyRetires
<1>2. IInv /\ RowsEarned /\ NightlyRetires /\ [Next]_snapshots => RowsEarned' /\ NightlyRetires'
  <2>1. SUFFICES ASSUME IInv, RowsEarned, NightlyRetires, [Next]_snapshots
                 PROVE  RowsEarned' /\ NightlyRetires'
    OBVIOUS
  <2>2. CASE UNCHANGED snapshots
    BY <2>1, <2>2 DEF RowsEarned, NightlyRetires
  <2> QED BY <2>1, <2>2, RunKeepsEarned, StepIsRun
<1> QED BY <1>1, <1>2, Inductive, PTL DEF Spec

(* Strategy eligibility is earned by published evidence, and decay is      *)
(* counted once however many nightly runs there are (_decay_state).        *)
THEOREM EligibilityIsEarned == Spec => []EligibleIsEarned
<1>1. RowsEarned => EligibleIsEarned
  BY DEF RowsEarned, EarnedBy, EligibleIsEarned, Active, Visible
<1> QED BY <1>1, Earned, PTL

(* No nightly run leaves an edge active that nobody has supported for      *)
(* RetireAge and that it saw no evidence on.                               *)
THEOREM NightlyRunsRetire == Spec => []NightlyRetires
BY Earned, PTL

-----------------------------------------------------------------------------
(***************************************************************************)
(* Why an update in order is accepted.                                     *)
(***************************************************************************)

\* The clocks of a row's intervals; the intervals of one row inside those of another.
Intervals(r) == {r.ef, r.et, r.kf, r.kt}
Within(r, o) == r.ef >= o.ef /\ r.et <= o.et /\ r.kf >= o.kf /\ r.kt <= o.kt

LEMMA WithinApart ==
    ASSUME NEW r, NEW s, NEW o, NEW p,
           Intervals(r) \cup Intervals(s) \cup Intervals(o) \cup Intervals(p) \subseteq Nat,
           Within(r, o), Within(s, p), ~ Overlap(o, p)
    PROVE  ~ Overlap(r, s)
BY DEF Intervals, Within, Overlap

\* Every clock of the rows has been reached: no interval ends in the future but the open ones.
Reached(R, x, k) ==
    \A r \in R : /\ r.ef <= x /\ (r.et = Open \/ r.et <= x)
                 /\ r.kf < k /\ (r.kt = Open \/ r.kt < k)

\* The revised rows are open at both ends, and an edge with none of them gets a new row.
LEMMA RevisedAreOpen ==
    ASSUME NEW R \in SUBSET OrderedRow, NEW q, q.asof \in Clock, q.known \in Clock,
           Reached(R, q.asof, q.known), NEW r \in Active(R, q)
    PROVE  r \in R /\ r.et = Open /\ r.kt = Open /\ r.ef <= q.asof /\ r.kf < q.known
<1>1. r \in R /\ q.asof < r.et /\ q.known < r.kt
  BY DEF Active, Visible
<1>2. r.et \in Nat /\ r.kt \in Nat /\ q.asof \in Nat /\ q.known \in Nat
  BY <1>1, ClockType DEF OrderedRow, EdgeRow
<1> QED BY <1>1, <1>2 DEF Reached

\* The intervals of what a revised row turns into.
LEMMA PartClocks ==
    ASSUME NEW o \in OrderedRow, NEW q
    PROVE  LET c == Closed(o, q)
               p == Past(o, q)
               n == Replacement(o, q)
           IN  /\ c.ef = o.ef /\ c.et = o.et /\ c.kf = o.kf /\ c.kt = q.known
               /\ p.ef = o.ef /\ p.et = q.asof /\ p.kf = q.known /\ p.kt = Open
               /\ n.ef = q.asof /\ n.et = Open /\ n.kf = q.known /\ n.kt = Open
               /\ c.edge = o.edge /\ p.edge = o.edge /\ n.edge = o.edge
<1> DEFINE IsNew(r) == /\ r.ef = q.asof /\ r.et = Open /\ r.kf = q.known /\ r.kt = Open
                       /\ r.edge = o.edge
<1>1. \A m : IsNew(Retired(o, q, m))
  BY DEF Retired, OrderedRow, EdgeRow
<1>2. IsNew(Assessed(o, q))
  BY <1>1 DEF Assessed, NewRow
<1>3. IsNew(Decayed(o, q))
  BY <1>1 DEF Decayed
<1>4. IsNew(Replacement(o, q))
  BY <1>2, <1>3 DEF Replacement
<1>5. /\ Closed(o, q).ef = o.ef /\ Closed(o, q).et = o.et /\ Closed(o, q).kf = o.kf
      /\ Closed(o, q).kt = q.known /\ Closed(o, q).edge = o.edge
  BY DEF Closed, OrderedRow, EdgeRow
<1>6. /\ Past(o, q).ef = o.ef /\ Past(o, q).et = q.asof /\ Past(o, q).kf = q.known
      /\ Past(o, q).kt = Open /\ Past(o, q).edge = o.edge
  BY DEF Past, OrderedRow, EdgeRow
<1> QED BY <1>4, <1>5, <1>6

\* They cover no more than the row did, and no two of them overlap.
LEMMA Parts ==
    ASSUME NEW o \in OrderedRow, NEW q, q.asof \in Clock, q.known \in Clock,
           o.et = Open, o.kt = Open, o.ef <= q.asof, o.kf < q.known
    PROVE  LET c == Closed(o, q)
               p == Past(o, q)
               n == Replacement(o, q)
           IN  /\ Intervals(c) \cup Intervals(p) \cup Intervals(n) \subseteq Nat
               /\ Within(c, o) /\ Within(n, o) /\ Within(p, o)
               /\ ~ Overlap(c, p) /\ ~ Overlap(p, c) /\ ~ Overlap(c, n)
               /\ ~ Overlap(n, c) /\ ~ Overlap(p, n) /\ ~ Overlap(n, p)
<1>1. /\ o.ef \in Nat /\ o.kf \in Nat /\ q.asof \in Nat /\ q.known \in Nat /\ Open \in Nat
      /\ q.asof < Open /\ q.known < Open
  BY ClockType DEF OrderedRow, EdgeRow
<1>2. SUFFICES ASSUME NEW c, NEW p, NEW n,
                      c = Closed(o, q), p = Past(o, q), n = Replacement(o, q)
               PROVE  /\ Intervals(c) \cup Intervals(p) \cup Intervals(n) \subseteq Nat
                      /\ Within(c, o) /\ Within(n, o) /\ Within(p, o)
                      /\ ~ Overlap(c, p) /\ ~ Overlap(p, c) /\ ~ Overlap(c, n)
                      /\ ~ Overlap(n, c) /\ ~ Overlap(p, n) /\ ~ Overlap(n, p)
  OBVIOUS
<1>3. /\ c.ef = o.ef /\ c.et = o.et /\ c.kf = o.kf /\ c.kt = q.known
      /\ p.ef = o.ef /\ p.et = q.asof /\ p.kf = q.known /\ p.kt = Open
      /\ n.ef = q.asof /\ n.et = Open /\ n.kf = q.known /\ n.kt = Open
  BY <1>2, PartClocks
<1>4. Intervals(c) \cup Intervals(p) \cup Intervals(n) \subseteq Nat
  BY <1>1, <1>3 DEF Intervals
<1>5. Within(c, o) /\ Within(n, o) /\ Within(p, o)
  BY <1>1, <1>3 DEF Within
<1> QED BY <1>1, <1>3, <1>4, <1>5 DEF Overlap

\* Where a row of the next snapshot comes from.
FromRow(r, o, R, q) ==
    \/ r = o /\ o \notin Revised(R, q)
    \/ o \in Revised(R, q) /\ r \in {Closed(o, q), Past(o, q), Replacement(o, q)}

LEMMA RowsComeFrom ==
    ASSUME NEW R, NEW q, NEW r \in NextRows(R, q)
    PROVE  r \in Added(R, q) \/ \E o \in R : FromRow(r, o, R, q)
<1>1. Revised(R, q) \subseteq R
  BY DEF Revised, Active, Visible
<1> QED BY <1>1 DEF NextRows, FromRow

(* A request past every clock of an accepted set of rows, none of them     *)
(* retired, gets an accepted set of rows again.                            *)
LEMMA NextRowsWellFormed ==
    ASSUME NEW R \in SUBSET OrderedRow, WellFormed(R), \A r \in R : r.life = "active",
           NEW q, q.asof \in Clock, q.known \in Clock, Reached(R, q.asof, q.known)
    PROVE  WellFormed(NextRows(R, q))
<1>1. ASSUME NEW r, NEW o \in R, FromRow(r, o, R, q)
      PROVE  /\ Intervals(r) \subseteq Nat /\ Intervals(o) \subseteq Nat
             /\ r.edge = o.edge /\ Within(r, o)
  <2>1. o \in OrderedRow /\ Intervals(o) \subseteq Nat
    BY ClockType DEF OrderedRow, EdgeRow, Intervals
  <2>2. CASE r = o
    BY <2>1, <2>2 DEF Within, Intervals
  <2>3. CASE o \in Revised(R, q) /\ r \in {Closed(o, q), Past(o, q), Replacement(o, q)}
    <3>1. o \in Active(R, q)
      BY <2>3 DEF Revised
    <3>2. o.et = Open /\ o.kt = Open /\ o.ef <= q.asof /\ o.kf < q.known
      BY <3>1, RevisedAreOpen
    <3>3. r.edge = o.edge
      <4>1. /\ Closed(o, q).edge = o.edge /\ Past(o, q).edge = o.edge
            /\ Replacement(o, q).edge = o.edge
        BY <2>1, PartClocks
      <4> QED BY <2>3, <4>1
    <3>4. Intervals(r) \subseteq Nat /\ Within(r, o)
      BY <2>1, <2>3, <3>2, Parts
    <3> QED BY <2>1, <3>3, <3>4
  <2> QED BY <1>1, <2>2, <2>3 DEF FromRow
<1>2. ASSUME NEW r, NEW s, NEW o \in R, FromRow(r, o, R, q), FromRow(s, o, R, q), r # s
      PROVE  ~ Overlap(r, s)
  <2>1. /\ o \in Revised(R, q)
        /\ r \in {Closed(o, q), Past(o, q), Replacement(o, q)}
        /\ s \in {Closed(o, q), Past(o, q), Replacement(o, q)}
    BY <1>2 DEF FromRow
  <2>2. o \in Active(R, q)
    BY <2>1 DEF Revised
  <2>3. o \in OrderedRow /\ o.et = Open /\ o.kt = Open /\ o.ef <= q.asof /\ o.kf < q.known
    BY <2>2, RevisedAreOpen
  <2> QED BY <1>2, <2>1, <2>3, Parts
<1>3. ASSUME NEW r, NEW s, NEW o \in R, NEW p \in R, FromRow(r, o, R, q),
             FromRow(s, p, R, q), o # p, r.edge = s.edge
      PROVE  ~ Overlap(r, s)
  <2>1. o.edge = p.edge
    BY <1>1, <1>3
  <2>2. ~ Overlap(o, p)
    BY <1>3, <2>1 DEF WellFormed
  <2> QED BY <1>1, <1>3, <2>2, WithinApart
<1>4. ASSUME NEW e, NEW r, NEW o \in R, FromRow(r, o, R, q), r.edge = e,
             \A a \in Active(R, q) : a.edge # e
      PROVE  ~ Overlap(r, NewRow(e, q)) /\ ~ Overlap(NewRow(e, q), r)
  <2>1. o.edge = e
    BY <1>1, <1>4
  <2>2. o \notin Active(R, q)
    BY <1>4, <2>1
  <2>3. r = o
    BY <1>4, <2>2 DEF FromRow, Revised
  <2>4. /\ o.ef \in Nat /\ o.et \in Nat /\ o.kf \in Nat /\ o.kt \in Nat
        /\ q.asof \in Nat /\ q.known \in Nat
    BY ClockType DEF OrderedRow, EdgeRow
  <2>5. /\ o.ef <= q.asof /\ o.kf <= q.known
        /\ ~ (q.asof < o.et /\ q.known < o.kt)
    BY <2>2, <2>4 DEF Active, Visible, Reached
  <2>6. NewRow(e, q).ef = q.asof /\ NewRow(e, q).kf = q.known
    BY DEF NewRow
  <2> QED BY <2>3, <2>4, <2>5, <2>6 DEF Overlap
<1>5. ASSUME NEW a \in Added(R, q)
      PROVE  \E e : a = NewRow(e, q) /\ a.edge = e /\ \A o \in Active(R, q) : o.edge # e
  BY DEF Added, NewRow
<1>6. SUFFICES ASSUME NEW r \in NextRows(R, q), NEW s \in NextRows(R, q), r # s,
                      r.edge = s.edge
               PROVE  ~ Overlap(r, s)
  BY DEF WellFormed
<1>7. CASE r \in Added(R, q) /\ s \in Added(R, q)
  BY <1>5, <1>6, <1>7
<1>8. ASSUME NEW o \in R, FromRow(r, o, R, q), s \in Added(R, q) PROVE ~ Overlap(r, s)
  BY <1>4, <1>5, <1>6, <1>8
<1>9. ASSUME NEW o \in R, FromRow(s, o, R, q), r \in Added(R, q) PROVE ~ Overlap(r, s)
  BY <1>4, <1>5, <1>6, <1>9
<1>10. ASSUME NEW o \in R, NEW p \in R, FromRow(r, o, R, q), FromRow(s, p, R, q)
       PROVE  ~ Overlap(r, s)
  BY <1>2, <1>3, <1>6, <1>10
<1> QED BY <1>7, <1>8, <1>9, <1>10, RowsComeFrom

-----------------------------------------------------------------------------
(* Published rows are accepted ones, and each of their clocks is that of   *)
(* some run: what the next request has to move past.                       *)
RowsReached ==
    \A s \in snapshots :
        /\ WellFormed(s.rows)
        /\ \A r \in s.rows :
             /\ \E u \in snapshots : r.ef <= u.asof
             /\ r.et = Open \/ \E u \in snapshots : r.et <= u.asof
             /\ r.kf <= s.known /\ (r.kt = Open \/ r.kt <= s.known)

LEMMA RunKeepsReached ==
    ASSUME IInv, RowsReached, NEW q \in Request, Run(q)
    PROVE  RowsReached'
<1>1. PICK n \in Snapshot : /\ snapshots' = snapshots \cup {n}
                            /\ n.asof = q.asof /\ n.known = q.known
                            /\ n.rows = NextRows(PriorRows, q)
                            /\ n.rows \subseteq OrderedRow
                            /\ \A s \in snapshots : s.id # n.id /\ s.known <= n.known
  BY Publication DEF IInv
<1>2. WellFormed(n.rows)
  BY <1>1 DEF Run, Publishable
<1>3. PriorRows \in SUBSET OrderedRow
  BY PriorRowsType DEF IInv
<1>4. q.asof \in Nat /\ q.known \in Nat
  BY ClockType DEF Request, Assessment
<1> DEFINE Ok(r) == /\ \E u \in snapshots' : r.ef <= u.asof
                    /\ r.et = Open \/ \E u \in snapshots' : r.et <= u.asof
                    /\ r.kf <= n.known /\ (r.kt = Open \/ r.kt <= n.known)
<1>5. ASSUME NEW o \in PriorRows PROVE Ok(o)
  <2>1. Prior \in snapshots /\ o \in Prior.rows
    BY PriorIsLast DEF PriorRows, IInv
  <2>2. Prior.known <= n.known /\ Prior.known \in Nat /\ n.known \in Nat
    BY <1>1, <1>4, <2>1, ClockType DEF IInv, TypeOK, Snapshot
  <2>3. o.kf \in Nat /\ o.kt \in Nat
    BY <1>3, ClockType DEF OrderedRow, EdgeRow
  <2> QED BY <1>1, <2>1, <2>2, <2>3 DEF RowsReached
<1>6. ASSUME NEW r, r.ef = q.asof, r.et = Open, r.kf = q.known, r.kt = Open PROVE Ok(r)
  BY <1>1, <1>4, <1>6
<1>7. ASSUME NEW o \in Revised(PriorRows, q)
      PROVE  Ok(Closed(o, q)) /\ Ok(Past(o, q)) /\ Ok(Replacement(o, q))
  <2>1. o \in PriorRows /\ o \in OrderedRow
    BY <1>3 DEF Revised, Active, Visible
  <2>2. /\ \E u \in snapshots' : o.ef <= u.asof
        /\ o.et = Open \/ \E u \in snapshots' : o.et <= u.asof
        /\ o.kf <= n.known
    BY <1>5, <2>1
  <2>3. n \in snapshots' /\ n.asof <= n.asof /\ n.known <= n.known
    BY <1>1, <1>4
  <2> HIDE DEF Ok
  <2>4. /\ Closed(o, q).ef = o.ef /\ Closed(o, q).et = o.et
        /\ Closed(o, q).kf = o.kf /\ Closed(o, q).kt = n.known
        /\ Past(o, q).ef = o.ef /\ Past(o, q).et = n.asof
        /\ Past(o, q).kf = n.known /\ Past(o, q).kt = Open
    BY <1>1, <2>1, PartClocks
  <2>5. Ok(Closed(o, q)) /\ Ok(Past(o, q))
    BY <2>2, <2>3, <2>4 DEF Ok
  <2>6. Ok(Replacement(o, q))
    BY <1>6, <2>1, PartClocks
  <2> QED BY <2>5, <2>6
<1>8. ASSUME NEW r \in Added(PriorRows, q) PROVE Ok(r)
  BY <1>6, <1>8 DEF Added, NewRow
<1>9. ASSUME NEW r \in n.rows PROVE Ok(r)
  <2> HIDE DEF Ok
  <2> QED BY <1>1, <1>5, <1>7, <1>8, <1>9, RowsComeFrom DEF FromRow
<1> QED BY <1>1, <1>2, <1>9 DEF RowsReached

LEMMA Reaching == Spec => [](IInv /\ RowsReached)
<1>1. Init => RowsReached
  BY DEF Init, RowsReached
<1>2. IInv /\ RowsReached /\ [Next]_snapshots => RowsReached'
  <2>1. SUFFICES ASSUME IInv, RowsReached, [Next]_snapshots PROVE RowsReached'
    OBVIOUS
  <2>2. CASE UNCHANGED snapshots
    BY <2>1, <2>2 DEF RowsReached
  <2> QED BY <2>1, <2>2, RunKeepsReached, StepIsRun
<1> QED BY <1>1, <1>2, Inductive, PTL DEF Spec

(* A request whose clocks have both moved on is not refused, whatever has  *)
(* been revised and decayed, while no edge is retired (_close_and_append). *)
THEOREM UpdatesSucceed == Spec => []UpdatesSucceedUntilRetirement
<1>1. IInv /\ RowsReached => UpdatesSucceedUntilRetirement
  <2> SUFFICES ASSUME IInv, RowsReached, snapshots # {}, \A r \in PriorRows : r.life = "active",
                      NEW x \in Clock, NEW k \in Clock, \A s \in snapshots : s.asof <= x,
                      Prior.known < k, NEW t \in {"event", "nightly"}, NEW v \in Assessment
               PROVE  LET q == [Prior.req EXCEPT !.asof = x, !.known = k, !.trigger = t,
                                                 !.verdicts = v]
                      IN  Timely(PriorRows, q) /\ WellFormed(NextRows(PriorRows, q))
    BY DEF UpdatesSucceedUntilRetirement
  <2>1. Prior \in snapshots /\ Prior \in Snapshot /\ PriorRows = Prior.rows
    BY PriorIsLast DEF PriorRows, IInv, TypeOK
  <2>2. PriorRows \in SUBSET OrderedRow
    BY PriorRowsType DEF IInv
  <2>3. SUFFICES ASSUME NEW q, q.asof = x, q.known = k
                 PROVE  Timely(PriorRows, q) /\ WellFormed(NextRows(PriorRows, q))
    <3>1. [Prior.req EXCEPT !.asof = x, !.known = k, !.trigger = t, !.verdicts = v].asof = x
          /\ [Prior.req EXCEPT !.asof = x, !.known = k, !.trigger = t, !.verdicts = v].known = k
      BY <2>1 DEF Snapshot, Request
    <3> QED BY <2>3, <3>1
  <2>4. x \in Nat /\ k \in Nat /\ Prior.known \in Nat /\ \A s \in snapshots : s.asof \in Nat
    BY <2>1, ClockType DEF IInv, TypeOK, Snapshot
  <2>5. ASSUME NEW r \in PriorRows
        PROVE  /\ r.ef <= x /\ (r.et = Open \/ r.et <= x)
               /\ r.kf < k /\ (r.kt = Open \/ r.kt < k)
    <3>1. r.ef \in Nat /\ r.et \in Nat /\ r.kf \in Nat /\ r.kt \in Nat
      BY <2>2, ClockType DEF OrderedRow, EdgeRow
    <3> QED BY <2>1, <2>4, <3>1 DEF RowsReached
  <2>6. Reached(PriorRows, q.asof, q.known)
    BY <2>3, <2>5 DEF Reached
  <2>7. WellFormed(PriorRows)
    BY <2>1 DEF RowsReached
  <2>8. Timely(PriorRows, q)
    BY <2>3, <2>5 DEF Timely, Revised, Active, Visible
  <2> QED BY <2>2, <2>3, <2>6, <2>7, <2>8, NextRowsWellFormed
<1> QED BY <1>1, Reaching, PTL
-----------------------------------------------------------------------------
(***************************************************************************)
(* The refresh jobs.  JobsTyped, JobsDated, SnapshotsDated,                *)
(* DoneIsPublished and RunsOnce are what OutcomeIsExplained needs to be    *)
(* inductive: a snapshot bears the identifier and the time of a row that   *)
(* never loses them again, and appears while its job runs.                 *)
(***************************************************************************)

\* The clocks, the rows and the queue hold values of their types.
JobsTyped ==
    /\ now \in Clock
    /\ post \in [Id -> Clock \cup {None}]
    /\ row \in [Id -> {"absent", "queued", "running", "succeeded", "failed", "cancelled"}]
    /\ why \in [Id -> {None, "raised", "refused"}]
    /\ time \in [Id -> Clock \cup {None}]
    /\ queue \in Seq(Id)
    /\ wpc \in {"idle", "run", "done", "ack"}
    /\ wpc # "idle" => hand \in Id
    /\ crashes \in Nat

\* A job in the queue or in the worker's hand has a row, and a row has its time.
JobsDated ==
    /\ \A j \in Id : row[j] # "absent" => time[j] \in Clock
    /\ \A i \in DOMAIN queue : row[queue[i]] # "absent"
    /\ wpc # "idle" => row[hand] # "absent"

\* A snapshot is what the job with its identifier asked for, at the time of its row.
SnapshotsDated ==
    \A s \in snapshots :
        /\ s.id = s.req.id /\ s.known = s.req.known /\ s.asof = s.known
        /\ row[s.id] # "absent" /\ s.known = time[s.id]

\* Before the row says so, the worker has seen the snapshot.
DoneIsPublished ==
    wpc = "done" => \E s \in snapshots : s.id = hand /\ s.known = time[hand]

\* Without a crash a job runs at most once, and has no snapshot before it does.
RunsOnce ==
    crashes = 0 =>
        /\ \A j \in Id : row[j] \in {"absent", "queued"} => \A s \in snapshots : s.id # j
        /\ \A j \in Id : row[j] = "running" => wpc \in {"run", "done"} /\ hand = j
        /\ wpc = "run" => row[hand] = "running" /\ \A s \in snapshots : s.id # hand

\* The inductive invariant of the refresh jobs.
RInv == /\ IInv /\ RowsReached
        /\ JobsTyped /\ JobsDated /\ SnapshotsDated /\ DoneIsPublished /\ RunsOnce
        /\ OutcomeIsExplained

\* The request of an attempt is one the pipeline takes.
LEMMA AttemptIsRequest ==
    ASSUME RInv, wpc = "run", NEW es \in SUBSET Edge, NEW v \in [es -> Verdict]
    PROVE  /\ Attempt(v) \in Request
           /\ Attempt(v).id = hand /\ Attempt(v).asof = time[hand]
           /\ Attempt(v).known = time[hand]
<1>1. hand \in Id /\ time[hand] \in Clock
  BY DEF RInv, JobsTyped, JobsDated
<1>2. v \in Assessment
  BY DEF Assessment
<1>3. (IF snapshots = {} THEN "bootstrap" ELSE "nightly") \in Triggers \cup {"nightly"}
  BY AttemptAssumption
<1> QED BY <1>1, <1>2, <1>3 DEF Attempt, Request

(* The only reasons to refuse an attempt: the workspace has a snapshot that *)
(* is as late, or an edge is retired.                                      *)
LEMMA RefusalIsExplained ==
    ASSUME RInv, NEW q \in Request, q.asof = q.known, ~ Publishable(q),
           ~ (Repeats(q) /\ InOrder(q)),
           \A s \in snapshots : s.id = q.id => s.known = q.known
    PROVE  \E s \in snapshots : s.known >= q.known \/ \E r \in s.rows : r.life = "retracted"
<1> USE DEF RInv
<1>1. q.known \in Nat /\ q.asof \in Clock /\ q.known \in Clock
      /\ \A s \in snapshots : s.known \in Nat /\ s.known \in Clock
  BY ClockType DEF Request, Assessment, IInv, TypeOK, Snapshot
<1>2. SUFFICES ASSUME \A s \in snapshots : s.known < q.known /\ \A r \in s.rows : r.life # "retracted"
               PROVE  FALSE
  BY <1>1
<1>3. PriorRows \in SUBSET OrderedRow /\ (snapshots = {} => PriorRows = {})
      /\ (snapshots # {} => Prior \in snapshots /\ PriorRows = Prior.rows)
  BY PriorRowsType, PriorIsLast DEF IInv, PriorRows
<1>4. q.asof <= q.known /\ q.known - q.asof <= Lag
  BY <1>1, RetireAssumption
<1>5. \A s \in snapshots : s.id # q.id
  BY <1>1, <1>2
<1>6. InOrder(q)
  BY <1>1, <1>2, <1>3 DEF InOrder
<1>7. ~ Replayed(q)
  BY <1>1, <1>2 DEF Replayed, SnapshotsDated
<1>8. ASSUME NEW r \in PriorRows
      PROVE  /\ r.ef <= q.asof /\ (r.et = Open \/ r.et <= q.asof)
             /\ r.kf < q.known /\ (r.kt = Open \/ r.kt < q.known)
             /\ r.life = "active"
  <2>1. Prior \in snapshots /\ r \in Prior.rows
    BY <1>3
  <2>2. r.ef \in Nat /\ r.et \in Nat /\ r.kf \in Nat /\ r.kt \in Nat
    BY <1>3, ClockType DEF OrderedRow, EdgeRow
  <2>3. \A s \in snapshots : s.asof \in Nat /\ s.asof < q.asof
    BY <1>1, <1>2 DEF SnapshotsDated
  <2>4. r.life \in {"active", "retracted"}
    BY <1>3 DEF OrderedRow, EdgeRow
  <2>5. Prior.known < q.known
    BY <1>2, <2>1
  <2>6. /\ \E u \in snapshots : r.ef <= u.asof
        /\ r.et = Open \/ \E u \in snapshots : r.et <= u.asof
        /\ r.kf <= Prior.known /\ (r.kt = Open \/ r.kt <= Prior.known)
    BY <2>1 DEF RowsReached
  <2> QED BY <1>1, <1>2, <2>1, <2>2, <2>3, <2>4, <2>5, <2>6
<1>9. Timely(PriorRows, q)
  BY <1>8 DEF Timely, Revised, Active, Visible
<1>10. WellFormed(PriorRows)
  BY <1>3 DEF RowsReached, WellFormed
<1>11. WellFormed(NextRows(PriorRows, q))
  BY <1>1, <1>3, <1>8, <1>10, NextRowsWellFormed DEF Reached
<1> QED BY <1>4, <1>5, <1>6, <1>7, <1>9, <1>11 DEF Publishable

\* A step that publishes nothing leaves the pipeline's invariant alone.
LEMMA GraphUnchanged ==
    ASSUME IInv, RowsReached, UNCHANGED snapshots
    PROVE  IInv' /\ RowsReached'
BY DEF IInv, RowsReached, TypeOK, HasLatest, HistoryKept

\* What a push and a pop leave in a queue.
LEMMA PushHolds ==
    ASSUME NEW w \in Seq(Id), NEW x \in Id
    PROVE  /\ Append(w, x) \in Seq(Id)
           /\ \A i \in DOMAIN Append(w, x) :
                Append(w, x)[i] = x \/ \E k \in DOMAIN w : Append(w, x)[i] = w[k]
<1>1. \A i \in DOMAIN Append(w, x) :
        i = Len(w) + 1 \/ (i \in DOMAIN w /\ Append(w, x)[i] = w[i])
  OBVIOUS
<1> QED BY <1>1

LEMMA PopHolds ==
    ASSUME NEW w \in Seq(Id), w # <<>>
    PROVE  /\ Head(w) \in Id /\ \E k \in DOMAIN w : Head(w) = w[k]
           /\ Tail(w) \in Seq(Id)
           /\ \A i \in DOMAIN Tail(w) : \E k \in DOMAIN w : Tail(w)[i] = w[k]
<1>1. 1 \in DOMAIN w /\ Head(w) = w[1]
  OBVIOUS
<1>2. \A i \in DOMAIN Tail(w) : i + 1 \in DOMAIN w /\ Tail(w)[i] = w[i + 1]
  OBVIOUS
<1> QED BY <1>1, <1>2

\* The steps of the route.
LEMMA JobStep ==
    ASSUME RInv, NEW j \in Id, Post(j) \/ Insert(j) \/ Push(j) \/ Die(j)
    PROVE  RInv'
<1> USE DEF JobsTyped, JobsDated, SnapshotsDated, DoneIsPublished, RunsOnce, OutcomeIsExplained,
            worker, jobs
<1>1. IInv' /\ RowsReached'
  BY GraphUnchanged DEF RInv, Post, Insert, Push, Die
<1>2. CASE Post(j) \/ Die(j)
  BY <1>1, <1>2 DEF RInv, Post, Die
<1>3. CASE Insert(j)
  <2>1. /\ row[j] = "absent" /\ post[j] \in Clock
        /\ row' = [row EXCEPT ![j] = "queued"] /\ time' = [time EXCEPT ![j] = post[j]]
        /\ UNCHANGED <<snapshots, now, post, why, queue, hand, wpc, crashes>>
    BY <1>3 DEF RInv, Insert
  <2>2. JobsTyped' /\ JobsDated'
    BY <2>1 DEF RInv
  <2>3. \A s \in snapshots : s.id \in Id
    BY DEF RInv, IInv, TypeOK, Snapshot
  <2>4. SnapshotsDated' /\ DoneIsPublished'
    BY <2>1, <2>3 DEF RInv
  <2>5. OutcomeIsExplained' /\ RunsOnce'
    BY <2>1 DEF RInv
  <2> QED BY <1>1, <2>2, <2>4, <2>5 DEF RInv
<1>4. CASE Push(j)
  <2>1. /\ row[j] # "absent"
        /\ queue' = queue \/ queue' = Append(queue, j)
        /\ post' = [post EXCEPT ![j] = None]
        /\ UNCHANGED <<snapshots, now, row, why, time, hand, wpc, crashes>>
    BY <1>4 DEF Push
  <2>0. queue \in Seq(Id) /\ \A i \in DOMAIN queue : row[queue[i]] # "absent"
    BY DEF RInv
  <2>2. queue' \in Seq(Id) /\ \A i \in DOMAIN queue' : row[queue'[i]] # "absent"
    <3>1. CASE queue' = queue
      BY <2>0, <3>1
    <3>2. CASE queue' = Append(queue, j)
      BY <2>0, <2>1, <3>2, PushHolds
    <3> QED BY <2>1, <3>1, <3>2
  <2> QED BY <1>1, <2>1, <2>2 DEF RInv
<1> QED BY <1>2, <1>3, <1>4

\* The attempt publishes the snapshot of its job.
LEMMA PublishStep ==
    ASSUME RInv, Publish
    PROVE  RInv'
<1>1. PICK es \in SUBSET Edge : \E v \in [es -> Verdict] : Run(Attempt(v))
  BY DEF Publish
<1>2. /\ wpc = "run" /\ wpc' = "done"
      /\ UNCHANGED <<now, post, row, why, time, queue, pushed, hand, crashes>>
  BY DEF Publish, jobs
<1>3. PICK q \in Request : /\ Run(q) /\ q.id = hand /\ q.asof = time[hand]
                           /\ q.known = time[hand]
  BY <1>1, <1>2, AttemptIsRequest
<1>4. IInv' /\ RowsReached'
  BY <1>3, RunKeepsType, RunKeepsLatest, RunKeepsHistory, RunKeepsReached DEF IInv, RInv
<1>5. PICK n \in Snapshot : /\ snapshots' = snapshots \cup {n}
                            /\ n.id = q.id /\ n.asof = q.asof /\ n.known = q.known /\ n.req = q
  BY <1>3, Publication DEF IInv, RInv
<1>6. JobsTyped' /\ JobsDated'
  BY <1>2 DEF RInv, JobsTyped, JobsDated
<1>7. SnapshotsDated'
  BY <1>2, <1>3, <1>5 DEF RInv, SnapshotsDated, JobsDated
<1>8. DoneIsPublished'
  BY <1>2, <1>3, <1>5 DEF DoneIsPublished
<1>9. OutcomeIsExplained' /\ RunsOnce'
  <2>1. crashes = 0 => row[hand] = "running"
    BY <1>2 DEF RInv, RunsOnce
  <2>2. crashes \in Nat
    BY DEF RInv, JobsTyped
  <2>3. n.id = hand
    BY <1>3, <1>5
  <2>4. OutcomeIsExplained'
    BY <1>2, <1>5, <2>1, <2>2, <2>3 DEF RInv, OutcomeIsExplained
  <2>5. RunsOnce'
    BY <1>2, <1>5, <2>1, <2>3 DEF RInv, RunsOnce
  <2> QED BY <2>4, <2>5
<1> QED BY <1>4, <1>6, <1>7, <1>8, <1>9 DEF RInv

\* A refused attempt has a reason, a repeated one its snapshot.
LEMMA NotPublishedStep ==
    ASSUME RInv, NotPublished
    PROVE  RInv'
<1> USE DEF JobsTyped, JobsDated, SnapshotsDated, DoneIsPublished, RunsOnce
<1>1. PICK es \in SUBSET Edge : \E v \in [es -> Verdict] :
        LET q == Attempt(v) IN
         /\ ~ Publishable(q)
         /\ IF Repeats(q) /\ InOrder(q) THEN wpc' = "done" /\ UNCHANGED <<row, why>>
            ELSE Refuse(q)
  BY DEF NotPublished
<1>2. wpc = "run" /\ UNCHANGED <<snapshots, now, post, time, queue, pushed, hand, crashes>>
  BY DEF NotPublished
<1>3. IInv' /\ RowsReached' /\ hand \in Id
  BY <1>2, GraphUnchanged DEF RInv
<1>4. PICK q \in Request :
        /\ q.id = hand /\ q.asof = time[hand] /\ q.known = time[hand]
        /\ ~ Publishable(q)
        /\ \/ Repeats(q) /\ wpc' = "done" /\ UNCHANGED <<row, why>>
           \/ ~ (Repeats(q) /\ InOrder(q)) /\ Refuse(q)
  BY <1>1, <1>2, AttemptIsRequest
<1>5. CASE Repeats(q) /\ wpc' = "done" /\ UNCHANGED <<row, why>>
  <2>1. \E s \in snapshots : s.id = hand /\ s.known = time[hand]
    BY <1>4, <1>5 DEF Repeats, Replayed, RInv
  <2>2. JobsTyped' /\ JobsDated'
    BY <1>2, <1>3, <1>5 DEF RInv
  <2>3. SnapshotsDated' /\ DoneIsPublished' /\ RunsOnce'
    BY <1>2, <1>5, <2>1 DEF RInv
  <2>4. OutcomeIsExplained'
    BY <1>2, <1>5 DEF RInv, OutcomeIsExplained
  <2> QED BY <1>3, <2>2, <2>3, <2>4 DEF RInv
<1>6. CASE ~ (Repeats(q) /\ InOrder(q)) /\ Refuse(q)
  <2>1. \E s \in snapshots : s.known >= q.known \/ \E r \in s.rows : r.life = "retracted"
    BY <1>4, <1>6, RefusalIsExplained DEF RInv
  <2>2. /\ wpc' = "ack" /\ row' = [row EXCEPT ![hand] = "failed"]
        /\ why' = [why EXCEPT ![hand] = "refused"]
    BY <1>6 DEF Refuse, Mark
  <2>3. crashes \in Nat /\ (crashes = 0 => \A s \in snapshots : s.id # hand)
    BY <1>2 DEF RInv
  <2>4. OutcomeIsExplained'
    BY <1>2, <1>3, <1>4, <2>1, <2>2, <2>3 DEF RInv, OutcomeIsExplained
  <2>5. JobsTyped' /\ JobsDated' /\ SnapshotsDated' /\ DoneIsPublished'
    BY <1>2, <1>3, <2>2 DEF RInv
  <2>6. RunsOnce'
    BY <1>2, <1>3, <2>2 DEF RInv
  <2> QED BY <1>3, <2>4, <2>5, <2>6 DEF RInv
<1> QED BY <1>4, <1>5, <1>6

\* The steps that end a job, apart from a refusal.
LEMMA EndStep ==
    ASSUME RInv, Succeed \/ HandlerRaises \/ HandlerCancelled
    PROVE  RInv'
<1> USE DEF JobsTyped, JobsDated, SnapshotsDated, DoneIsPublished, RunsOnce
<1>1. PICK st \in {"succeeded", "failed", "cancelled"}, c \in {None, "raised"} :
        /\ row' = [row EXCEPT ![hand] = st] /\ why' = [why EXCEPT ![hand] = c]
        /\ st = "succeeded" => wpc = "done"
        /\ st = "failed" => c = "raised"
        /\ wpc \in {"run", "done"} /\ wpc' = "ack"
        /\ UNCHANGED <<snapshots, now, post, time, queue, pushed, hand, crashes>>
  BY DEF Succeed, HandlerRaises, HandlerCancelled, Mark
<1>2. IInv' /\ RowsReached' /\ hand \in Id
  BY <1>1, GraphUnchanged DEF RInv
<1>3. JobsTyped' /\ JobsDated'
  BY <1>1, <1>2 DEF RInv
<1>4. SnapshotsDated' /\ DoneIsPublished' /\ RunsOnce'
  BY <1>1, <1>2 DEF RInv
<1>5. OutcomeIsExplained'
  BY <1>1, <1>2 DEF RInv, OutcomeIsExplained
<1> QED BY <1>2, <1>3, <1>4, <1>5 DEF RInv

LEMMA WorkerStep ==
    ASSUME RInv, Tick \/ Take \/ Acknowledge \/ CrashAndRecover
    PROVE  RInv'
<1> USE DEF JobsTyped, JobsDated, SnapshotsDated, DoneIsPublished, RunsOnce, OutcomeIsExplained,
            worker, jobs
<1>1. IInv' /\ RowsReached'
  BY GraphUnchanged DEF RInv, Tick, Take, Acknowledge, CrashAndRecover
<1>2. CASE Tick
  <2>1. now' \in Clock
    BY <1>2, HorizonAssumption DEF Tick, RInv, Clock
  <2> QED BY <1>1, <1>2, <2>1 DEF RInv, Tick
<1>3. CASE Take
  <2>0. /\ queue # <<>> /\ queue \in Seq(Id)
        /\ \A i \in DOMAIN queue : row[queue[i]] # "absent"
    BY <1>3 DEF RInv, Take
  <2>1. PICK h \in Id : h = Head(queue) /\ row[h] # "absent"
    BY <2>0, PopHolds
  <2>2. /\ hand' = h /\ queue' = Tail(queue)
        /\ \/ wpc' = "ack" /\ UNCHANGED <<row, why>>
              /\ row[h] \in {"succeeded", "failed", "cancelled"}
           \/ /\ row[h] \notin {"succeeded", "failed", "cancelled"} /\ UNCHANGED why
              /\ row' = [row EXCEPT ![h] = "running"] /\ wpc' = "run"
           \/ /\ row' = [row EXCEPT ![h] = "cancelled"] /\ wpc' = "ack"
              /\ why' = [why EXCEPT ![h] = None]
        /\ UNCHANGED <<snapshots, now, post, time, pushed, crashes>> /\ wpc = "idle"
    BY <1>3, <2>1 DEF Take, Mark
  <2>3. queue' \in Seq(Id) /\ \A i \in DOMAIN queue' : row[queue'[i]] # "absent"
    BY <2>0, <2>2, PopHolds
  <2>4. JobsTyped' /\ JobsDated'
    BY <2>1, <2>2, <2>3 DEF RInv
  <2>5. \A s \in snapshots : s.id \in Id
    BY DEF RInv, IInv, TypeOK, Snapshot
  <2>6. SnapshotsDated' /\ DoneIsPublished'
    BY <2>1, <2>2, <2>5 DEF RInv
  <2>7. OutcomeIsExplained'
    BY <2>1, <2>2 DEF RInv
  <2>8. RunsOnce'
    <3>1. row[h] \in {"absent", "queued", "running", "succeeded", "failed", "cancelled"}
      BY DEF RInv
    <3> QED BY <2>1, <2>2, <3>1 DEF RInv
  <2> QED BY <1>1, <2>4, <2>6, <2>7, <2>8 DEF RInv
<1>5. CASE Acknowledge
  BY <1>1, <1>5 DEF RInv, Acknowledge
<1>6. CASE CrashAndRecover
  <2>1. /\ hand \in Id /\ row[hand] # "absent" /\ wpc' = "idle"
        /\ queue' = Append(queue, hand)
        /\ row' = row \/ row' = [row EXCEPT ![hand] = "queued"]
        /\ crashes' \in Nat /\ crashes' > 0
        /\ UNCHANGED <<snapshots, now, post, why, time, pushed>>
    <3>1. hand \in Id /\ row[hand] # "absent" /\ crashes \in Nat /\ DOMAIN row = Id
      BY <1>6 DEF RInv, CrashAndRecover
    <3>2. /\ wpc' = "idle" /\ queue' = Append(queue, hand) /\ crashes' = crashes + 1
          /\ row' = [row EXCEPT ![hand] = IF @ = "running" THEN "queued" ELSE @]
          /\ UNCHANGED <<snapshots, now, post, why, time, pushed>>
      BY <1>6 DEF CrashAndRecover
    <3>3. row' = row \/ row' = [row EXCEPT ![hand] = "queued"]
      <4>1. row \in [Id -> {"absent", "queued", "running", "succeeded", "failed", "cancelled"}]
        BY DEF RInv
      <4> QED BY <3>2, <4>1
    <3> QED BY <3>1, <3>2, <3>3
  <2>0. queue \in Seq(Id) /\ \A i \in DOMAIN queue : row[queue[i]] # "absent"
    BY DEF RInv
  <2>2. queue' \in Seq(Id) /\ \A i \in DOMAIN queue' : row[queue'[i]] # "absent"
    BY <2>0, <2>1, PushHolds
  <2>3. JobsTyped' /\ JobsDated'
    <3>1. JobsTyped /\ JobsDated
      BY DEF RInv
    <3>2. JobsTyped'
      BY <2>1, <2>2, <3>1
    <3> QED BY <2>1, <2>2, <3>1, <3>2
  <2>4. \A s \in snapshots : s.id \in Id
    BY DEF RInv, IInv, TypeOK, Snapshot
  <2>5. SnapshotsDated' /\ DoneIsPublished'
    BY <2>1, <2>4 DEF RInv
  <2>6. RunsOnce'
    BY <2>1
  <2>7. OutcomeIsExplained'
    <3>1. SUFFICES ASSUME NEW j \in Id, row'[j] = row[j]
                   PROVE  /\ row'[j] = "succeeded" =>
                                 \E s \in snapshots' : s.id = j /\ s.known = time'[j]
                          /\ row'[j] = "failed" /\ why'[j] = "refused" =>
                                 \E s \in snapshots' : \/ s.known >= time'[j]
                                                       \/ \E r \in s.rows : r.life = "retracted"
      BY <2>1 DEF RInv
    <3> QED BY <2>1, <3>1 DEF RInv
  <2> QED BY <1>1, <2>3, <2>5, <2>6, <2>7 DEF RInv
<1> QED BY <1>2, <1>3, <1>5, <1>6

LEMMA RefreshInductive == RefreshSpec => []RInv
<1>1. RefreshInit => RInv
  BY ClockType, HorizonAssumption
     DEF RefreshInit, Init, RInv, IInv, TypeOK, HasLatest, HistoryKept, KnownBy, RowsReached,
         JobsTyped, JobsDated, SnapshotsDated, DoneIsPublished, RunsOnce, OutcomeIsExplained,
         Clock
<1>2. RInv /\ [RefreshNext]_vars => RInv'
  <2> SUFFICES ASSUME RInv, [RefreshNext]_vars PROVE RInv'
    OBVIOUS
  <2>1. CASE RefreshNext
    BY <2>1, JobStep, PublishStep, NotPublishedStep, EndStep, WorkerStep DEF RefreshNext
  <2>2. CASE UNCHANGED vars
    BY <2>2, GraphUnchanged
       DEF vars, RInv, JobsTyped, JobsDated, SnapshotsDated, DoneIsPublished, RunsOnce,
           OutcomeIsExplained
  <2> QED BY <2>1, <2>2
<1> QED BY <1>1, <1>2, PTL DEF RefreshSpec

(* What a job's row says is what happened to its snapshot: success means   *)
(* published at the row's time, whatever the handler, a cancellation or a  *)
(* crash did before; a refusal by the pipeline has one of the known        *)
(* reasons, and has published nothing unless there was a crash             *)
(* (graph_refresh_handler, JobWorker.run_once).                            *)
THEOREM RefreshOutcome == RefreshSpec => []OutcomeIsExplained
<1>1. RInv => OutcomeIsExplained
  BY DEF RInv
<1> QED BY <1>1, RefreshInductive, PTL

(* Seen from the repository the refresh jobs are callers of the pipeline   *)
(* like any other: however they are scheduled, crashed and retried, each   *)
(* step is a run of it or leaves it alone.                                 *)
THEOREM RefreshImplementsPipeline == RefreshSpec => Spec
<1>1. RefreshInit => Init
  BY DEF RefreshInit
<1>2. RInv /\ [RefreshNext]_vars => [Next]_snapshots
  <2> SUFFICES ASSUME RInv, Publish PROVE Next
    BY DEF RefreshNext, Post, Insert, Push, Die, Tick, Take, NotPublished, HandlerRaises,
           HandlerCancelled, Succeed, Acknowledge, CrashAndRecover, vars
  <2>1. PICK es \in SUBSET Edge : \E v \in [es -> Verdict] : Run(Attempt(v))
    BY DEF Publish
  <2>2. PICK q \in Request :
          Run(q) /\ q.trigger = IF snapshots = {} THEN "bootstrap" ELSE "nightly"
    <3>1. \A v : Attempt(v).trigger = IF snapshots = {} THEN "bootstrap" ELSE "nightly"
      BY DEF Attempt
    <3> QED BY <2>1, <3>1, AttemptIsRequest DEF Publish
  <2>3. q.trigger \in Triggers
    BY <2>2, AttemptAssumption
  <2>4. BootstrapGraph(q) \/ UpdateGraph(q)
    BY <2>2 DEF BootstrapGraph, UpdateGraph
  <2> QED BY <2>3, <2>4 DEF Next
<1> QED BY <1>1, <1>2, RefreshInductive, PTL DEF RefreshSpec, Spec

(* So what holds of the pipeline holds of a workspace that is refreshed by *)
(* jobs.                                                                   *)
THEOREM RefreshKeepsPipeline ==
    RefreshSpec => [](HistoryKept /\ EligibleIsEarned /\ NightlyRetires)
BY RefreshImplementsPipeline, HistoryIsKept, EligibilityIsEarned, NightlyRunsRetire, PTL
=============================================================================
