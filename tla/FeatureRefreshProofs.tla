------------------------- MODULE FeatureRefreshProofs -------------------------
(***************************************************************************)
(* What FeatureRefresh promises for every catalogue, any snapshots, jobs   *)
(* and strategies, and any number of crashes and database errors.          *)
(***************************************************************************)
EXTENDS FeatureRefresh, TLAPS

Own == Graph \ Foreign
Stages == {"idle", "check", "define", "observe", "list", "bind"}
Kept == {"observe", "list", "bind"}

(***************************************************************************)
(* The inductive invariant, in parts.                                      *)
(***************************************************************************)
(* A job names a snapshot of the workspace; the one in hand is running.    *)
Working ==
    /\ pin \in Graph \cup {None}
    /\ jobs \in [Job -> Request \cup {None}]
    /\ \A j \in Job : jobs[j] # None => jobs[j].graph \in Own
    /\ hand \in Job \cup {None}
    /\ stage \in Stages /\ at \in Nat
    /\ stage = "idle" <=> hand = None
    /\ hand # None => jobs[hand] # None
    /\ \A j \in Job : jobs[j] # None /\ jobs[j].status = "running" => j = hand

(* Whatever is stored was made of its key alone.                           *)
Records ==
    {Definition(f) : f \in Feature} \cup {FeatureSet(g) : g \in Own} \cup
    {Observation(f, g) : f \in Feature, g \in Own} \cup {Manifest(g) : g \in Own}
Keyed == artifacts \subseteq Records

(* What the job in hand has stored so far.                                 *)
Defined(n) == \A i \in DOMAIN Catalog : i <= n => Definition(Catalog[i]) \in artifacts
Seen(n) ==
    \A i \in DOMAIN Catalog : i <= n /\ Observed(Catalog[i], Target)
        => Observation(Catalog[i], Target) \in artifacts
Progress ==
    /\ stage \in {"define", "observe", "bind"} => at # 0
    /\ stage = "define" => Defined(at - 1)
    /\ stage \in Kept => Defined(Len(Catalog)) /\ FeatureSet(Target) \in artifacts
    /\ stage = "observe" => Seen(at - 1)
    /\ stage \in {"list", "bind"} => Seen(Len(Catalog)) /\ Manifest(Target) \in artifacts

(* A binding is one that a refresh proposes, its versions are told apart,  *)
(* and one of them is the newest.                                          *)
Drawn(b) == \E f \in Feature, g \in Own, v \in Nat : b = Proposed(f, g, v)
Top(b, f) == b \in BindingsOf(f) /\ \A c \in BindingsOf(f) : c.version <= b.version
Versioned ==
    /\ \A b \in bindings : Drawn(b)
    /\ \A b, c \in bindings : b.feature = c.feature /\ b.version = c.version => b = c
    /\ \A f \in Feature : BindingsOf(f) # {} => \E b \in bindings : Top(b, f)

(* What the worker has read of the features still to bind is current, and  *)
(* those before are bound to its snapshot.                                 *)
Bound(f, g) == \E b \in bindings : Top(b, f) /\ b.source = <<g>>
Read(f) ==
    \/ prior[f] = None /\ BindingsOf(f) = {}
    \/ prior[f] # None /\ Top(prior[f], f)
Reading ==
    /\ prior \in [Feature -> bindings \cup {None}]
    /\ stage = "bind" =>
        \A i \in DOMAIN Catalog :
            IF i < at THEN Bound(Catalog[i], Target) ELSE Read(Catalog[i])

(* A strategy, stored or on its way, is grounded.                          *)
Grounded(s) ==
    \A b \in s.refs : b \in bindings /\ Observation(b.feature, s.graph) \in artifacts
Drafted == draft # None => Grounded(draft)

Refreshing ==
    /\ Working /\ Keyed /\ Progress /\ Versioned /\ Reading
    /\ ReadyIsBacked /\ Drafted /\ StrategyIsGrounded

-----------------------------------------------------------------------------
(* Facts about rows.                                                       *)
LEMMA ProposedIsDrawn ==
    ASSUME NEW f \in Feature, NEW g \in Own, NEW v \in Nat
    PROVE  /\ Drawn(Proposed(f, g, v)) /\ Proposed(f, g, v) \in Binding
           /\ Proposed(f, g, v) # None
<1>1. Drawn(Proposed(f, g, v)) BY DEF Drawn
<1>2. Proposed(f, g, v) \in Binding BY DEF Proposed, Binding, Own, Manifest, Made
<1> QED BY <1>1, <1>2, RowAssumption

LEMMA DrawnIsBinding ==
    ASSUME NEW b, Drawn(b)
    PROVE  /\ b \in Binding /\ b # None
           /\ b.status = "ready" => b.feature \in Computed /\ b.graph \in Own
<1>1. PICK f \in Feature, g \in Own, v \in Nat : b = Proposed(f, g, v) BY DEF Drawn
<1>2. b \in Binding /\ b # None BY <1>1, ProposedIsDrawn
<1>3. b.status = "ready" => b.feature \in Computed /\ b.graph \in Own
  BY <1>1, CatalogAssumption DEF Proposed, Observed
<1> QED BY <1>2, <1>3

(* Max over version of what a feature is bound to.                         *)
LEMMA NewestIsTop ==
    ASSUME Versioned, NEW f \in Feature
    PROVE  \/ Newest(BindingsOf(f)) = None /\ BindingsOf(f) = {}
           \/ Newest(BindingsOf(f)) # None /\ Top(Newest(BindingsOf(f)), f)
<1>1. CASE BindingsOf(f) = {} BY <1>1 DEF Newest
<1>2. CASE BindingsOf(f) # {}
  <2>1. \E b \in BindingsOf(f) : \A c \in BindingsOf(f) : c.version <= b.version
    BY <1>2 DEF Versioned, Top
  <2>2. Top(Newest(BindingsOf(f)), f) BY <1>2, <2>1 DEF Newest, Top
  <2>3. Drawn(Newest(BindingsOf(f))) BY <2>2 DEF Versioned, Top, BindingsOf
  <2> QED BY <2>2, <2>3, DrawnIsBinding
<1> QED BY <1>1, <1>2

(* The immutability check of _put does not fire.                           *)
LEMMA NoConflict == ASSUME Keyed, NEW a \in Records PROVE ~ Conflict(a)
<1> SUFFICES ASSUME NEW b \in Records, b.kind = a.kind, b.id = a.id PROVE b = a
  BY DEF Conflict, Keyed
<1> DEFINE Sort(k) == a.kind = k /\ b.kind = k
<1>1. Sort("definition") \/ Sort("feature_set") \/ Sort("observation") \/ Sort("manifest")
  BY DEF Records, Definition, FeatureSet, Observation, Manifest
<1>2. CASE Sort("definition")
  BY <1>2 DEF Records, Definition, FeatureSet, Observation, Manifest
<1>3. CASE Sort("feature_set")
  BY <1>3 DEF Records, Definition, FeatureSet, Observation, Manifest
<1>4. CASE Sort("observation")
  BY <1>4 DEF Records, Definition, FeatureSet, Observation, Manifest
<1>5. CASE Sort("manifest")
  BY <1>5 DEF Records, Definition, FeatureSet, Observation, Manifest
<1> QED BY <1>1, <1>2, <1>3, <1>4, <1>5

(* One job changes its status.                                             *)
LEMMA StatusSet ==
    ASSUME Working, NEW h \in Job, jobs[h] # None,
           NEW s \in {"queued", "running", "failed", "succeeded"},
           jobs' = [jobs EXCEPT ![h].status = s]
    PROVE  /\ jobs' \in [Job -> Request \cup {None}]
           /\ jobs'[h] # None /\ jobs'[h].status = s /\ jobs'[h].graph = jobs[h].graph
           /\ \A j \in Job : j # h => jobs'[j] = jobs[j]
           /\ \A j \in Job : jobs'[j] # None => jobs'[j].graph \in Own
<1>1. jobs \in [Job -> Request \cup {None}] /\ jobs[h] \in Request BY DEF Working
<1>2. jobs'[h] = [jobs[h] EXCEPT !.status = s] /\ \A j \in Job : j # h => jobs'[j] = jobs[j]
  BY <1>1
<1>3. [jobs[h] EXCEPT !.status = s] \in Request BY <1>1 DEF Request
<1>4. jobs'[h].status = s /\ jobs'[h].graph = jobs[h].graph BY <1>1, <1>2 DEF Request
<1>5. jobs'[h] # None BY <1>2, <1>3, RowAssumption
<1>6. jobs' \in [Job -> Request \cup {None}] BY <1>1, <1>2, <1>3
<1> QED BY <1>2, <1>4, <1>5, <1>6 DEF Working

(* The worker lets go of its job: of what is stored nothing is lost.       *)
LEMMA Stopped ==
    ASSUME Refreshing, hand # None, NEW s \in {"failed", "queued", "succeeded"},
           jobs' = [jobs EXCEPT ![hand].status = s], Idle,
           UNCHANGED <<pin, artifacts, bindings, api>>
    PROVE  Refreshing'
<1>1. hand \in Job /\ jobs[hand] # None BY DEF Refreshing, Working
<1>2. Working'
  BY <1>1, StatusSet DEF Refreshing, Working, Idle, Stages
<1>3. Keyed' BY DEF Refreshing, Keyed
<1>4. Progress' BY DEF Progress, Idle, Kept
<1>5. Versioned' /\ ReadyIsBacked' BY DEF Refreshing, Versioned, Top, BindingsOf, ReadyIsBacked
<1>6. Reading' BY DEF Reading, Idle
<1>7. Drafted' /\ StrategyIsGrounded'
  BY DEF Refreshing, Drafted, Grounded, StrategyIsGrounded, api
<1> QED BY <1>2, <1>3, <1>4, <1>5, <1>6, <1>7 DEF Refreshing

(* The worker stores a record and goes on.                                 *)
LEMMA Stored ==
    ASSUME Refreshing, hand # None, NEW a \in Records, NEW s \in {"define", "observe", "list"},
           NEW i \in Nat, Put(a, s, i)
    PROVE  /\ Working' /\ Keyed' /\ Versioned' /\ Reading'
           /\ ReadyIsBacked' /\ Drafted' /\ StrategyIsGrounded'
           /\ artifacts' = artifacts \cup {a} /\ stage' = s /\ at' = i
           /\ Target' = Target /\ jobs' = jobs
<1>1. ~ Conflict(a) BY NoConflict DEF Refreshing
<1>2. /\ artifacts' = artifacts \cup {a} /\ stage' = s /\ at' = i
      /\ UNCHANGED <<pin, jobs, hand, draft, strategies, failures, bindings, prior>>
  BY <1>1 DEF Put, Go, api
<1>3. Working' BY <1>2 DEF Refreshing, Working, Stages
<1>4. Keyed' BY <1>2 DEF Refreshing, Keyed
<1>5. Versioned' BY <1>2 DEF Refreshing, Versioned, Top, BindingsOf
<1>6. Reading' BY <1>2 DEF Refreshing, Reading
<1>7. ReadyIsBacked' BY <1>2 DEF Refreshing, ReadyIsBacked
<1>8. Drafted' BY <1>2 DEF Refreshing, Drafted, Grounded
<1>9. StrategyIsGrounded' BY <1>2 DEF Refreshing, StrategyIsGrounded
<1> QED BY <1>2, <1>3, <1>4, <1>5, <1>6, <1>7, <1>8, <1>9 DEF Target

-----------------------------------------------------------------------------
(* The steps.                                                              *)
LEMMA RefreshingInit == Init => Refreshing
  BY DEF Init, Refreshing, Working, Keyed, Progress, Versioned, Reading, ReadyIsBacked, Drafted,
         StrategyIsGrounded, Stages, Kept, BindingsOf

LEMMA RefreshingPins == ASSUME Refreshing, NEW g \in Graph, Pin(g) PROVE Refreshing'
<1>1. pin' = g /\ UNCHANGED <<jobs, artifacts, bindings, hand, stage, at, prior, draft, strategies>>
  BY DEF Pin, worker, api
<1>2. Working' BY <1>1 DEF Refreshing, Working
<1>3. Keyed' /\ Versioned' /\ Reading'
  BY <1>1 DEF Refreshing, Keyed, Versioned, Reading, Read, Bound, Top, BindingsOf, Target
<1>4. Progress' BY <1>1 DEF Refreshing, Progress, Defined, Seen, Target
<1>5. ReadyIsBacked' /\ Drafted' /\ StrategyIsGrounded'
  BY <1>1 DEF Refreshing, ReadyIsBacked, Drafted, Grounded, StrategyIsGrounded
<1> QED BY <1>2, <1>3, <1>4, <1>5 DEF Refreshing

LEMMA RefreshingSubmits ==
    ASSUME Refreshing, NEW j \in Job, RefreshFeatures(j) PROVE Refreshing'
<1> DEFINE row == [status |-> "queued", graph |-> pin]
<1>1. /\ jobs[j] = None /\ pin \in Own /\ jobs' = [jobs EXCEPT ![j] = row]
      /\ UNCHANGED <<pin, artifacts, bindings, hand, stage, at, prior, draft, strategies>>
  BY DEF RefreshFeatures, Owned, Own, worker, api
<1>2. row \in Request /\ row # None BY <1>1, RowAssumption DEF Request, Own
<1>3. Working'
  BY <1>1, <1>2 DEF Refreshing, Working
<1>4. hand # None => Target' = Target
  BY <1>1 DEF Refreshing, Working, Target
<1>5. Keyed' /\ Versioned' /\ Reading'
  BY <1>1, <1>4 DEF Refreshing, Keyed, Versioned, Reading, Read, Bound, Top, BindingsOf, Working
<1>6. Progress' BY <1>1, <1>4 DEF Refreshing, Progress, Defined, Seen, Working, Kept
<1>7. ReadyIsBacked' /\ Drafted' /\ StrategyIsGrounded'
  BY <1>1 DEF Refreshing, ReadyIsBacked, Drafted, Grounded, StrategyIsGrounded
<1> QED BY <1>3, <1>5, <1>6, <1>7 DEF Refreshing

(* A feature that is shown as ready was computed from the snapshot.        *)
LEMMA ListedIsGrounded ==
    ASSUME Refreshing, NEW f \in Feature, NEW g \in Graph, Listed(f, g)
    PROVE  /\ Newest(BindingsOf(f)) \in bindings
           /\ Observation(Newest(BindingsOf(f)).feature, g) \in artifacts
<1> DEFINE b == Newest(BindingsOf(f))
<1>1. Top(b, f) BY NewestIsTop DEF Listed, Refreshing
<1>2. b \in bindings BY <1>1 DEF Top, BindingsOf
<1>3. b.status = "ready" /\ (b.graph = None \/ b.graph = g) BY DEF Listed, ReadyFor
<1>4. Drawn(b) BY <1>2 DEF Refreshing, Versioned
<1>5. b.graph = g BY <1>3, <1>4, DrawnIsBinding, NoneAssumption DEF Own
<1> QED BY <1>2, <1>3, <1>5 DEF Refreshing, ReadyIsBacked

LEMMA RefreshingReads ==
    ASSUME Refreshing, NEW n, NEW g \in Graph, NEW fs \in SUBSET Feature, PinnedContext(n, g, fs)
    PROVE  Refreshing'
<1>1. /\ draft' = Strategy(n, g, fs) /\ \A f \in fs : Listed(f, g)
      /\ UNCHANGED <<pin, jobs, artifacts, bindings, hand, stage, at, prior, strategies>>
  BY DEF PinnedContext, worker
<1>2. \A b \in draft'.refs : b \in bindings /\ Observation(b.feature, draft'.graph) \in artifacts
  BY <1>1, ListedIsGrounded DEF Strategy
<1>3. Drafted' BY <1>1, <1>2 DEF Drafted, Grounded
<1>4. Working' /\ Keyed' /\ Versioned' /\ Reading'
  BY <1>1 DEF Refreshing, Working, Keyed, Versioned, Reading, Read, Bound, Top, BindingsOf, Target
<1>5. Progress' BY <1>1 DEF Refreshing, Progress, Defined, Seen, Target
<1>6. ReadyIsBacked' /\ StrategyIsGrounded'
  BY <1>1 DEF Refreshing, ReadyIsBacked, StrategyIsGrounded
<1> QED BY <1>3, <1>4, <1>5, <1>6 DEF Refreshing

LEMMA RefreshingSaves == ASSUME Refreshing, SaveStrategy PROVE Refreshing'
<1>1. /\ draft # None /\ strategies' = strategies \cup {draft} /\ draft' = None
      /\ UNCHANGED <<pin, jobs, artifacts, bindings, hand, stage, at, prior>>
  BY DEF SaveStrategy, worker
<1>2. Drafted' /\ StrategyIsGrounded'
  BY <1>1 DEF Refreshing, Drafted, Grounded, StrategyIsGrounded
<1>3. Working' /\ Keyed' /\ Versioned' /\ Reading'
  BY <1>1 DEF Refreshing, Working, Keyed, Versioned, Reading, Read, Bound, Top, BindingsOf, Target
<1>4. Progress' BY <1>1 DEF Refreshing, Progress, Defined, Seen, Target
<1>5. ReadyIsBacked' BY <1>1 DEF Refreshing, ReadyIsBacked
<1> QED BY <1>2, <1>3, <1>4, <1>5 DEF Refreshing

LEMMA RefreshingTakes == ASSUME Refreshing, NEW j \in Job, Take(j) PROVE Refreshing'
<1>1. /\ hand = None /\ jobs[j] # None /\ jobs' = [jobs EXCEPT ![j].status = "running"]
      /\ hand' = j /\ stage' = "check"
      /\ UNCHANGED <<pin, artifacts, bindings, at, prior, draft, strategies>>
  BY DEF Take, api
<1>2. Working'
  BY <1>1, StatusSet, NoneAssumption DEF Refreshing, Working, Stages
<1>3. Keyed' /\ Versioned' /\ Reading'
  BY <1>1 DEF Refreshing, Keyed, Versioned, Reading, Top, BindingsOf
<1>4. Progress' BY <1>1 DEF Progress, Kept
<1>5. ReadyIsBacked' /\ Drafted' /\ StrategyIsGrounded'
  BY <1>1 DEF Refreshing, ReadyIsBacked, Drafted, Grounded, StrategyIsGrounded
<1> QED BY <1>2, <1>3, <1>4, <1>5 DEF Refreshing

(* The job in hand, and the snapshot it names.                             *)
LEMMA InHand ==
    ASSUME Refreshing, stage # "idle"
    PROVE  hand \in Job /\ hand # None /\ jobs[hand] # None /\ Target \in Own
  BY NoneAssumption DEF Refreshing, Working, Target

LEMMA RefreshingEnds ==
    ASSUME Refreshing, stage # "idle", NEW s \in {"failed", "succeeded"}, End(s)
    PROVE  Refreshing'
  BY InHand, Stopped DEF End

LEMMA RefreshingChecks == ASSUME Refreshing, CheckPin PROVE Refreshing'
<1>1. stage = "check" /\ hand # None BY InHand DEF CheckPin
<1>2. CASE Stale BY <1>1, <1>2, RefreshingEnds DEF CheckPin
<1>3. CASE ~ Stale
  <2>1. /\ stage' = "define" /\ at' = 1
        /\ UNCHANGED <<pin, jobs, hand, artifacts, bindings, prior, draft, strategies>>
    BY <1>3 DEF CheckPin, Go, api
  <2>2. Working' BY <1>1, <2>1 DEF Refreshing, Working, Stages
  <2>3. Keyed' /\ Versioned' /\ Reading'
    BY <2>1 DEF Refreshing, Keyed, Versioned, Reading, Top, BindingsOf
  <2>4. Progress'
    <3>1. Defined(at - 1)' BY <2>1, CatalogAssumption DEF Defined
    <3> QED BY <2>1, <3>1 DEF Progress, Kept
  <2>5. ReadyIsBacked' /\ Drafted' /\ StrategyIsGrounded'
    BY <2>1 DEF Refreshing, ReadyIsBacked, Drafted, Grounded, StrategyIsGrounded
  <2> QED BY <2>2, <2>3, <2>4, <2>5 DEF Refreshing
<1> QED BY <1>2, <1>3

LEMMA RefreshingPuts ==
    ASSUME Refreshing, PutDefinition \/ PutFeatureSet \/ PutObservation \/ PutManifest
    PROVE  Refreshing' /\ jobs' = jobs
<1>1. stage \in {"define", "observe"} /\ hand # None /\ Target \in Own /\ at \in Nat
  BY InHand DEF PutDefinition, PutFeatureSet, PutObservation, PutManifest, Refreshing, Working
<1>2. Len(Catalog) \in Nat /\ DOMAIN Catalog = 1 .. Len(Catalog)
  BY CatalogAssumption
<1>3. at # 0 BY <1>1 DEF Refreshing, Progress
<1>4. CASE PutDefinition
  <2>1. stage = "define" /\ at \in DOMAIN Catalog BY <1>1, <1>2, <1>3, <1>4 DEF PutDefinition
  <2>2. Definition(Catalog[at]) \in Records BY <2>1 DEF Records, Feature
  <2>3. Put(Definition(Catalog[at]), "define", at + 1) BY <1>4 DEF PutDefinition
  <2>4. /\ Working' /\ Keyed' /\ Versioned' /\ Reading'
        /\ ReadyIsBacked' /\ Drafted' /\ StrategyIsGrounded'
        /\ artifacts' = artifacts \cup {Definition(Catalog[at])}
        /\ stage' = "define" /\ at' = at + 1 /\ Target' = Target /\ jobs' = jobs
    BY <1>1, <2>2, <2>3, Stored
  <2>5. Defined(at - 1)'
    BY <1>1, <1>2, <2>1, <2>4 DEF Refreshing, Progress, Defined, Definition
  <2> QED BY <1>1, <2>4, <2>5 DEF Refreshing, Progress, Kept
<1>5. CASE PutFeatureSet
  <2>1. stage = "define" /\ at > Len(Catalog) BY <1>5 DEF PutFeatureSet
  <2>2. FeatureSet(Target) \in Records BY <1>1 DEF Records
  <2>3. Put(FeatureSet(Target), "observe", 1) BY <1>5 DEF PutFeatureSet
  <2>4. /\ Working' /\ Keyed' /\ Versioned' /\ Reading'
        /\ ReadyIsBacked' /\ Drafted' /\ StrategyIsGrounded'
        /\ artifacts' = artifacts \cup {FeatureSet(Target)}
        /\ stage' = "observe" /\ at' = 1 /\ Target' = Target /\ jobs' = jobs
    BY <1>1, <2>2, <2>3, Stored
  <2>5. Defined(Len(Catalog))'
    BY <1>1, <1>2, <2>1, <2>4 DEF Refreshing, Progress, Defined
  <2>6. FeatureSet(Target)' = FeatureSet(Target) BY <2>4 DEF FeatureSet, Made
  <2>7. Seen(at - 1)' BY <1>2, <2>4 DEF Seen
  <2> QED BY <1>1, <2>4, <2>5, <2>6, <2>7 DEF Refreshing, Progress, Kept
<1>6. CASE PutObservation
  <2> DEFINE f == Catalog[at]
  <2>1. stage = "observe" /\ at \in DOMAIN Catalog BY <1>1, <1>2, <1>3, <1>6 DEF PutObservation
  <2>2. /\ Working' /\ Keyed' /\ Versioned' /\ Reading'
        /\ ReadyIsBacked' /\ Drafted' /\ StrategyIsGrounded'
        /\ artifacts \subseteq artifacts'
        /\ Observed(f, Target) => Observation(f, Target) \in artifacts'
        /\ stage' = "observe" /\ at' = at + 1 /\ Target' = Target /\ jobs' = jobs
    <3>1. CASE Observed(f, Target)
      <4>1. Observation(f, Target) \in Records BY <1>1, <2>1 DEF Records, Feature
      <4>2. Put(Observation(f, Target), "observe", at + 1) BY <1>6, <3>1 DEF PutObservation
      <4> QED BY <1>1, <4>1, <4>2, Stored
    <3>2. CASE ~ Observed(f, Target)
      <4>1. /\ stage' = "observe" /\ at' = at + 1
            /\ UNCHANGED <<pin, jobs, hand, artifacts, bindings, prior, draft, strategies>>
        BY <1>6, <3>2 DEF PutObservation, Go, api
      <4>2. Working' BY <1>1, <4>1, <2>1 DEF Refreshing, Working
      <4>3. Keyed' /\ Versioned' /\ Reading'
        BY <4>1 DEF Refreshing, Keyed, Versioned, Reading, Top, BindingsOf
      <4>4. ReadyIsBacked' /\ Drafted' /\ StrategyIsGrounded'
        BY <4>1 DEF Refreshing, ReadyIsBacked, Drafted, Grounded, StrategyIsGrounded
      <4> QED BY <3>2, <4>1, <4>2, <4>3, <4>4 DEF Target
    <3> QED BY <3>1, <3>2
  <2>3. Defined(Len(Catalog))' /\ FeatureSet(Target)' \in artifacts'
    BY <1>2, <2>1, <2>2 DEF Refreshing, Progress, Defined, Kept, FeatureSet, Made
  <2>4. Seen(at - 1)'
    <3> SUFFICES ASSUME NEW i \in DOMAIN Catalog, i <= at, Observed(Catalog[i], Target)
                 PROVE  Observation(Catalog[i], Target) \in artifacts'
      BY <1>1, <2>2 DEF Seen
    <3>1. CASE i = at BY <2>2, <3>1
    <3>2. CASE i <= at - 1 BY <2>1, <2>2, <3>2 DEF Refreshing, Progress, Seen
    <3> QED BY <1>1, <1>2, <3>1, <3>2
  <2> QED BY <1>1, <2>2, <2>3, <2>4 DEF Refreshing, Progress, Kept
<1>7. CASE PutManifest
  <2>1. stage = "observe" /\ at > Len(Catalog) BY <1>7 DEF PutManifest
  <2>2. Manifest(Target) \in Records BY <1>1 DEF Records
  <2>3. Put(Manifest(Target), "list", 1) BY <1>7 DEF PutManifest
  <2>4. /\ Working' /\ Keyed' /\ Versioned' /\ Reading'
        /\ ReadyIsBacked' /\ Drafted' /\ StrategyIsGrounded'
        /\ artifacts' = artifacts \cup {Manifest(Target)}
        /\ stage' = "list" /\ at' = 1 /\ Target' = Target /\ jobs' = jobs
    BY <1>1, <2>2, <2>3, Stored
  <2>5. /\ Defined(Len(Catalog))' /\ FeatureSet(Target)' \in artifacts'
        /\ Manifest(Target)' \in artifacts'
    BY <1>2, <2>1, <2>4 DEF Refreshing, Progress, Defined, Kept, FeatureSet, Manifest, Made
  <2>6. Seen(Len(Catalog))'
    BY <1>1, <1>2, <2>1, <2>4 DEF Refreshing, Progress, Seen
  <2> QED BY <1>1, <2>4, <2>5, <2>6 DEF Refreshing, Progress, Kept
<1> QED BY <1>4, <1>5, <1>6, <1>7

LEMMA RefreshingLists == ASSUME Refreshing, ListBindings PROVE Refreshing'
<1>1. /\ stage = "list" /\ prior' = [f \in Feature |-> Newest(BindingsOf(f))]
      /\ stage' = "bind" /\ at' = 1
      /\ UNCHANGED <<pin, jobs, hand, artifacts, bindings, draft, strategies>>
  BY DEF ListBindings, Go, api
<1>2. hand # None BY <1>1, InHand
<1>3. Working' BY <1>1, <1>2 DEF Refreshing, Working, Stages
<1>4. Keyed' /\ Versioned' BY <1>1 DEF Refreshing, Keyed, Versioned, Top, BindingsOf
<1>5. \A f \in Feature : prior'[f] \in bindings \cup {None} /\ Read(f)'
  <2> TAKE f \in Feature
  <2>1. \/ prior'[f] = None /\ BindingsOf(f) = {}
        \/ prior'[f] # None /\ Top(prior'[f], f)
    BY <1>1, NewestIsTop DEF Refreshing
  <2>2. Top(prior'[f], f) => prior'[f] \in bindings BY DEF Top, BindingsOf
  <2> QED BY <1>1, <2>1, <2>2 DEF Read, Top, BindingsOf
<1>6. Reading'
  <2>1. prior' \in [Feature -> bindings \cup {None}] BY <1>1, <1>5
  <2>2. DOMAIN Catalog = 1 .. Len(Catalog) /\ Len(Catalog) \in Nat BY CatalogAssumption
  <2>3. \A i \in DOMAIN Catalog : ~ (i < 1) /\ Catalog[i] \in Feature BY <2>2 DEF Feature
  <2> QED BY <1>1, <1>5, <2>1, <2>3 DEF Reading
<1>7. Progress' BY <1>1 DEF Refreshing, Progress, Kept, Defined, Seen, Target
<1>8. ReadyIsBacked' /\ Drafted' /\ StrategyIsGrounded'
  BY <1>1 DEF Refreshing, ReadyIsBacked, Drafted, Grounded, StrategyIsGrounded
<1> QED BY <1>3, <1>4, <1>6, <1>7, <1>8 DEF Refreshing

(* The worker binds the feature it is at: the version it proposes is free. *)
Proposal(f) == Proposed(f, Target, IF prior[f] = None THEN 1 ELSE prior[f].version + 1)

LEMMA ProposalIsNew ==
    ASSUME Refreshing, stage = "bind", at \in DOMAIN Catalog
    PROVE  LET f == Catalog[at]  new == Proposal(f) IN
           /\ f \in Feature /\ Read(f)
           /\ Drawn(new) /\ new # None
           /\ new.feature = f /\ new.version \in Nat /\ new.source = <<Target>>
           /\ \A c \in BindingsOf(f) : c.version < new.version
           /\ ~ Clash(new)
<1> DEFINE f == Catalog[at]
           v == IF prior[f] = None THEN 1 ELSE prior[f].version + 1
<1>1. Target \in Own BY InHand
<1>2. f \in Feature /\ Read(f)
  BY DEF Refreshing, Reading, Feature, Working
<1>3. \A c \in bindings : c \in Binding /\ c.version \in Nat
  BY DrawnIsBinding DEF Refreshing, Versioned, Binding
<1>4. prior[f] # None => prior[f] \in bindings BY <1>2 DEF Refreshing, Reading
<1>5. v \in Nat BY <1>3, <1>4
<1>6. \A c \in BindingsOf(f) : c.version < v
  BY <1>2, <1>3, <1>4 DEF Read, Top, BindingsOf
<1>7. Proposal(f) = Proposed(f, Target, v) BY DEF Proposal
<1>8. Drawn(Proposal(f)) /\ Proposal(f) # None BY <1>1, <1>2, <1>5, <1>7, ProposedIsDrawn
<1>9. Proposal(f).feature = f /\ Proposal(f).version = v /\ Proposal(f).source = <<Target>>
  BY <1>7 DEF Proposed, Manifest
<1>10. ~ Clash(Proposal(f))
  <2>1. \A c \in BindingsOf(f) : c.version # v BY <1>3, <1>5, <1>6 DEF BindingsOf
  <2> QED BY <1>9, <2>1 DEF Clash
<1> QED BY <1>2, <1>5, <1>6, <1>8, <1>9, <1>10

LEMMA RefreshingBinds == ASSUME Refreshing, PutBinding PROVE Refreshing' /\ jobs' = jobs
<1> SUFFICES ASSUME NEW f, f = Catalog[at], NEW new, new = Proposal(f)
             PROVE  Refreshing' /\ jobs' = jobs
  OBVIOUS
<1>1. Len(Catalog) \in Nat /\ DOMAIN Catalog = 1 .. Len(Catalog)
  BY CatalogAssumption
<1>2. stage = "bind" /\ at \in DOMAIN Catalog /\ hand # None /\ Target \in Own
  BY <1>1, InHand DEF PutBinding, Refreshing, Working, Progress
<1>3. /\ f \in Feature /\ Read(f) /\ Drawn(new) /\ new # None
      /\ new.feature = f /\ new.version \in Nat /\ new.source = <<Target>>
      /\ \A c \in BindingsOf(f) : c.version < new.version
      /\ ~ Clash(new)
  BY <1>2, ProposalIsNew
<1>4. /\ stage' = "bind" /\ at' = at + 1
      /\ UNCHANGED <<pin, jobs, hand, artifacts, prior, draft, strategies>>
      /\ \/ prior[f] # None /\ SameMeaning(new, prior[f]) /\ bindings' = bindings
         \/ bindings' = bindings \cup {new}
  BY <1>3 DEF PutBinding, Go, api, Proposal
<1>5. Working' BY <1>2, <1>4, <1>1 DEF Refreshing, Working
<1>6. Keyed' BY <1>4 DEF Refreshing, Keyed
<1>7. Progress' BY <1>1, <1>2, <1>4 DEF Refreshing, Progress, Kept, Defined, Seen, Target
<1>8. Drafted' /\ StrategyIsGrounded'
  BY <1>4 DEF Refreshing, Drafted, Grounded, StrategyIsGrounded
<1>9. \A i \in DOMAIN Catalog : Catalog[i] = f => i = at BY <1>2, CatalogAssumption
<1>10. \A i \in DOMAIN Catalog : IF i < at THEN Bound(Catalog[i], Target) ELSE Read(Catalog[i])
  BY <1>2 DEF Refreshing, Reading
<1>11. CASE prior[f] # None /\ SameMeaning(new, prior[f]) /\ bindings' = bindings
  <2>1. Versioned' BY <1>11 DEF Refreshing, Versioned, Top, BindingsOf
  <2>2. ReadyIsBacked' BY <1>4, <1>11 DEF Refreshing, ReadyIsBacked
  <2>3. Top(prior[f], f) BY <1>3, <1>11 DEF Read
  <2>4. prior[f].source = <<Target>>
    <3>1. new \in Binding BY <1>3, DrawnIsBinding
    <3>2. [new EXCEPT !.version = prior[f].version, !.made = prior[f].made].source = new.source
      BY <3>1 DEF Binding
    <3> QED BY <1>3, <1>11, <3>2 DEF SameMeaning
  <2>5. Bound(f, Target) BY <2>3, <2>4 DEF Bound, Top, BindingsOf
  <2>6. \A i \in DOMAIN Catalog :
          IF i < at + 1 THEN Bound(Catalog[i], Target) ELSE Read(Catalog[i])
    BY <1>1, <1>2, <1>10, <2>5
  <2>7. Reading'
    <3>1. prior' \in [Feature -> bindings \cup {None}] BY <1>4 DEF Refreshing, Reading
    <3> QED BY <1>4, <1>11, <2>6, <3>1 DEF Reading, Bound, Read, Top, BindingsOf, Target
  <2> QED BY <1>5, <1>6, <1>4, <1>7, <1>8, <2>1, <2>2, <2>7 DEF Refreshing
<1>12. CASE bindings' = bindings \cup {new}
  <2>1. \A c \in bindings : c.version \in Nat
    BY DrawnIsBinding DEF Refreshing, Versioned, Binding
  <2>2. Top(new, f)' BY <1>3, <1>12, <2>1 DEF Top, BindingsOf
  <2>3. \A h \in Feature \ {f} : BindingsOf(h)' = BindingsOf(h)
    BY <1>3, <1>12 DEF BindingsOf
  <2>4. \A h \in Feature \ {f} : \A b : Top(b, h)' <=> Top(b, h) BY <2>3 DEF Top
  <2>5. Versioned'
    <3>1. \A b \in bindings' : Drawn(b) BY <1>3, <1>12 DEF Refreshing, Versioned
    <3>2. \A b, c \in bindings' : b.feature = c.feature /\ b.version = c.version => b = c
      <4>1. \A c \in bindings : c.feature = new.feature => c.version # new.version
        BY <1>3, <2>1 DEF BindingsOf
      <4> QED BY <1>12, <4>1 DEF Refreshing, Versioned
    <3>3. \A h \in Feature : BindingsOf(h)' # {} => \E b \in bindings' : Top(b, h)'
      <4> TAKE h \in Feature
      <4>1. CASE h = f BY <1>12, <2>2, <4>1
      <4>2. CASE h # f BY <1>12, <2>3, <2>4, <4>2 DEF Refreshing, Versioned
      <4> QED BY <4>1, <4>2
    <3> QED BY <3>1, <3>2, <3>3 DEF Versioned, Drawn, Proposed, Manifest, Made, Observed
  <2>6. ReadyIsBacked'
    <3>1. new.status = "ready" =>
            {Manifest(new.graph), FeatureSet(new.graph), Definition(new.feature),
             Observation(new.feature, new.graph)} \subseteq artifacts
      <4> SUFFICES ASSUME new.status = "ready"
                   PROVE  {Manifest(new.graph), FeatureSet(new.graph), Definition(new.feature),
                           Observation(new.feature, new.graph)} \subseteq artifacts
        OBVIOUS
      <4>1. Observed(f, Target) BY DEF Proposal, Proposed
      <4>2. new.graph = Target BY <4>1, CatalogAssumption DEF Proposal, Proposed, Observed
      <4>3. Manifest(Target) \in artifacts /\ FeatureSet(Target) \in artifacts
        BY <1>2 DEF Refreshing, Progress, Kept
      <4>4. Definition(f) \in artifacts /\ Observation(f, Target) \in artifacts
        BY <1>1, <1>2, <4>1 DEF Refreshing, Progress, Kept, Defined, Seen
      <4> QED BY <1>3, <4>2, <4>3, <4>4
    <3> QED BY <1>4, <1>12, <3>1 DEF Refreshing, ReadyIsBacked
  <2>7. Reading'
    <3>1. prior' \in [Feature -> bindings' \cup {None}]
      BY <1>4, <1>12 DEF Refreshing, Reading
    <3>2. ASSUME NEW i \in DOMAIN Catalog
          PROVE  IF i < at + 1 THEN Bound(Catalog[i], Target)' ELSE Read(Catalog[i])'
      <4>1. CASE i = at BY <1>1, <1>2, <1>3, <1>4, <1>12, <2>2, <4>1 DEF Bound, Target
      <4>2. CASE i # at
        <5>1. Catalog[i] \in Feature \ {f} BY <1>9, <4>2 DEF Feature
        <5>2. Bound(Catalog[i], Target) => Bound(Catalog[i], Target)'
          BY <1>4, <1>12, <2>4, <5>1 DEF Bound, Target
        <5>3. Read(Catalog[i]) => Read(Catalog[i])' BY <1>4, <2>3, <2>4, <5>1 DEF Read
        <5>4. i < at + 1 <=> i < at BY <1>1, <1>2, <4>2
        <5> QED BY <1>10, <5>2, <5>3, <5>4
      <4> QED BY <4>1, <4>2
    <3> QED BY <1>4, <3>1, <3>2 DEF Reading
  <2> QED BY <1>5, <1>6, <1>7, <1>4, <1>8, <2>5, <2>6, <2>7 DEF Refreshing
<1> QED BY <1>4, <1>11, <1>12

LEMMA RefreshingStep == Refreshing /\ [Next]_vars => Refreshing'
<1> SUFFICES ASSUME Refreshing, [Next]_vars PROVE Refreshing'
  OBVIOUS
<1>1. CASE \E g \in Graph : Pin(g) BY <1>1, RefreshingPins
<1>2. CASE \E j \in Job : RefreshFeatures(j) BY <1>2, RefreshingSubmits
<1>3. CASE \E n \in Name, g \in Graph, fs \in SUBSET Feature \ {{}} : PinnedContext(n, g, fs)
  BY <1>3, RefreshingReads
<1>4. CASE SaveStrategy BY <1>4, RefreshingSaves
<1>5. CASE WorkerStep
  <2>1. CASE \E j \in Job : Take(j) BY <2>1, RefreshingTakes
  <2>2. CASE Return BY <2>2, RefreshingEnds DEF Return
  <2> QED BY <1>5, <2>1, <2>2, RefreshingChecks, RefreshingPuts, RefreshingLists, RefreshingBinds
      DEF WorkerStep
<1>6. CASE Fault BY <1>6, Stopped DEF Fault
<1>7. CASE UNCHANGED vars
  <2>1. Working' /\ Keyed' BY <1>7 DEF Refreshing, Working, Keyed, vars, worker, api
  <2>2. Versioned' /\ Reading'
    BY <1>7 DEF Refreshing, Versioned, Reading, Read, Bound, Top, BindingsOf, Target, vars, worker
  <2>3. Progress' BY <1>7 DEF Refreshing, Progress, Defined, Seen, Target, vars, worker
  <2>4. ReadyIsBacked' /\ Drafted' /\ StrategyIsGrounded'
    BY <1>7 DEF Refreshing, ReadyIsBacked, Drafted, Grounded, StrategyIsGrounded, vars, api
  <2> QED BY <2>1, <2>2, <2>3, <2>4 DEF Refreshing
<1> QED BY <1>1, <1>2, <1>3, <1>4, <1>5, <1>6, <1>7 DEF Next

LEMMA AlwaysRefreshing == Spec => []Refreshing
  BY RefreshingInit, RefreshingStep, PTL DEF Spec

(* The bound on faults is counted in numbers.                              *)
Counted == failures \in Nat

LEMMA FailuresAreCounted == Spec => []Counted
<1>1. Init => Counted BY DEF Init, Counted
<1>2. Counted /\ [Next]_vars => Counted'
  <2> SUFFICES ASSUME Counted, [Next]_vars PROVE Counted'
    OBVIOUS
  <2>1. CASE Fault BY <2>1 DEF Fault, Counted
  <2>2. CASE WorkerStep
    BY <2>2 DEF WorkerStep, Take, CheckPin, PutDefinition, PutFeatureSet, PutObservation,
                PutManifest, Put, ListBindings, PutBinding, Return, End, Go, Counted
  <2>3. CASE ~ Fault /\ ~ WorkerStep
    BY <2>3 DEF Next, Pin, RefreshFeatures, PinnedContext, SaveStrategy, vars, Counted
  <2> QED BY <2>1, <2>2, <2>3
<1> QED BY <1>1, <1>2, PTL DEF Spec

-----------------------------------------------------------------------------
(***************************************************************************)
(* The theorems.                                                           *)
(***************************************************************************)
(* Whatever dies between two of the commits of a refresh, a ready binding  *)
(* has behind it the manifest, the set, the definition and the observation *)
(* it stands for.                                                          *)
THEOREM ReadyIsAlwaysBacked == Spec => []ReadyIsBacked
<1>1. Refreshing => ReadyIsBacked BY DEF Refreshing
<1> QED BY <1>1, AlwaysRefreshing, PTL

(* A saved strategy names stored bindings, computed from its own snapshot, *)
(* wherever the bindings have moved meanwhile.                             *)
THEOREM StrategiesAreGrounded == Spec => []StrategyIsGrounded
<1>1. Refreshing => StrategyIsGrounded BY DEF Refreshing
<1> QED BY <1>1, AlwaysRefreshing, PTL

(* A refresh whose snapshot is still pinned, of which no statement errs,   *)
(* does not fail: no rerun runs into what an earlier attempt has left.     *)
THEOREM OnlyPinsEverFail == Spec => OnlyPinsFail
<1> DEFINE Fails(j) ==
             /\ jobs[j] # None /\ jobs[j].status = "running" /\ jobs'[j].status = "failed"
             /\ failures' = failures
           Excuse(j) == stage = "check" /\ (pin # jobs[j].graph \/ pin \in Foreign)
<1> DEFINE A == \A j \in Job : Fails(j) => Excuse(j)
<1>1. Refreshing /\ Counted /\ [Next]_vars => [A]_vars
  <2> SUFFICES ASSUME Refreshing, Counted, Next, NEW j \in Job, Fails(j) PROVE Excuse(j)
    OBVIOUS
  <2>1. j = hand /\ hand # None /\ stage # "idle" /\ jobs'[j] # jobs[j]
    BY NoneAssumption DEF Refreshing, Working
  <2>2. jobs' # jobs BY <2>1
  <2>3. CASE \E i \in Job : RefreshFeatures(i)
    BY <2>1, <2>3 DEF RefreshFeatures, Refreshing, Working
  <2>4. CASE WorkerStep
    <3>1. CASE CheckPin
      <4>1. stage = "check" /\ Stale BY <2>2, <3>1 DEF CheckPin, Go
      <4>2. Target \in Own BY <2>1, InHand
      <4> QED BY <2>1, <4>1, <4>2 DEF Stale, Owned, Own, Target
    <3>2. CASE Return
      <4>1. jobs'[j].status = "succeeded"
        BY <2>1, <3>2, StatusSet DEF Return, End, Refreshing, Working
      <4> QED BY <4>1
    <3>3. ~ ListBindings BY <2>2 DEF ListBindings, Go
    <3>4. ~ (\E i \in Job : Take(i)) BY <2>1 DEF Take
    <3> QED BY <2>2, <2>4, <3>1, <3>2, <3>3, <3>4, RefreshingPuts, RefreshingBinds DEF WorkerStep
  <2>5. ~ Fault BY DEF Fault, Counted
  <2>6. ~ (\E g \in Graph : Pin(g)) /\ ~ SaveStrategy
        /\ ~ (\E n \in Name, g \in Graph, fs \in SUBSET Feature \ {{}} : PinnedContext(n, g, fs))
    BY <2>2 DEF Pin, SaveStrategy, PinnedContext
  <2> QED BY <2>3, <2>4, <2>5, <2>6 DEF Next
<1> QED BY <1>1, AlwaysRefreshing, FailuresAreCounted, PTL DEF Spec, OnlyPinsFail

(* A refresh that succeeded has bound each feature of the catalogue to its *)
(* snapshot, by its newest version.                                        *)
THEOREM SuccessAlwaysBindsAll == Spec => SuccessBindsAll
<1> DEFINE Succeeds(j) == jobs[j] # jobs'[j] /\ jobs'[j].status = "succeeded"
           Newly(j, f) == \E b \in BindingsOf(f) :
                            /\ b.source = <<jobs[j].graph>>
                            /\ \A c \in BindingsOf(f) : c.version <= b.version
           A == \A j \in Job : Succeeds(j) => \A f \in Feature : Newly(j, f)
<1>1. Refreshing /\ [Next]_vars => [A]_vars
  <2> SUFFICES ASSUME Refreshing, Next, NEW j \in Job, Succeeds(j), NEW f \in Feature
               PROVE  Newly(j, f)
    OBVIOUS
  <2>1. jobs' # jobs OBVIOUS
  <2>2. CASE \E i \in Job : RefreshFeatures(i)
    BY <2>2 DEF RefreshFeatures, Refreshing, Working
  <2>3. CASE \E i \in Job : Take(i)
    <3>1. PICK i \in Job : jobs[i] # None /\ jobs' = [jobs EXCEPT ![i].status = "running"]
      BY <2>3 DEF Take
    <3>2. jobs'[i].status = "running" /\ (j # i => jobs'[j] = jobs[j])
      BY <3>1, StatusSet DEF Refreshing
    <3> QED BY <3>2
  <2>4. ASSUME stage # "idle", NEW s \in {"failed", "queued", "succeeded"},
               jobs' = [jobs EXCEPT ![hand].status = s]
        PROVE  j = hand /\ s = "succeeded"
    BY <2>4, InHand, StatusSet DEF Refreshing
  <2>5. CASE Return
    <3>1. j = hand /\ stage = "bind" /\ at > Len(Catalog)
      BY <2>4, <2>5 DEF Return, End
    <3>2. PICK i \in DOMAIN Catalog : f = Catalog[i] BY DEF Feature
    <3>3. i < at
      <4>1. Len(Catalog) \in Nat /\ DOMAIN Catalog = 1 .. Len(Catalog) BY CatalogAssumption
      <4> QED BY <3>1, <4>1 DEF Refreshing, Working
    <3>4. Bound(f, Target) BY <3>1, <3>2, <3>3 DEF Refreshing, Reading
    <3> QED BY <3>1, <3>4 DEF Bound, Top, Target
  <2>6. ~ CheckPin
    <3>1. CASE Stale /\ CheckPin BY <2>4, <3>1 DEF CheckPin, End
    <3> QED BY <2>1, <3>1 DEF CheckPin, Go
  <2>7. ~ Fault
    <3> SUFFICES ASSUME Fault PROVE FALSE
      OBVIOUS
    <3>1. stage # "idle" BY DEF Fault, Refreshing, Working
    <3>2. PICK s \in {"failed", "queued"} : jobs' = [jobs EXCEPT ![hand].status = s] BY DEF Fault
    <3> QED BY <2>4, <3>1, <3>2
  <2>8. ~ (\E g \in Graph : Pin(g)) /\ ~ SaveStrategy /\ ~ ListBindings
        /\ ~ (\E n \in Name, g \in Graph, fs \in SUBSET Feature \ {{}} : PinnedContext(n, g, fs))
    BY <2>1 DEF Pin, SaveStrategy, PinnedContext, ListBindings, Go
  <2> QED BY <2>1, <2>2, <2>3, <2>5, <2>6, <2>7, <2>8, RefreshingPuts, RefreshingBinds
      DEF Next, WorkerStep
<1> QED BY <1>1, AlwaysRefreshing, PTL DEF Spec, SuccessBindsAll
=============================================================================
