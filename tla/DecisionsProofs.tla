---------------------------- MODULE DecisionsProofs ----------------------------
(***************************************************************************)
(* What Decisions promises for every number of days, of ticks in a day, of *)
(* periods the gate asks for and of observations on an edge.               *)
(***************************************************************************)
EXTENDS Decisions, FiniteSetTheorems, WellFoundedInduction, TLAPS

(* Sets of naturals have a least member, so induction holds of sets.       *)
LEMMA Least ==
    ASSUME NEW T \in SUBSET Nat, T # {}
    PROVE  \E x \in T : \A y \in T : x <= y
<1> DEFINE R == OpToRel(<, Nat)
<1>1. \A x, y \in Nat : <<x, y>> \in R <=> x < y BY DEF OpToRel
<1>2. IsWellFoundedOn(R, Nat) BY NatLessThanWellFounded
<1> HIDE DEF R
<1>3. PICK x \in T : \A y \in T : ~ (<<y, x>> \in R) BY <1>2, WFMin
<1>4. \A y \in T : y \in Nat /\ x \in Nat /\ ~ (y < x) BY <1>1, <1>3
<1> QED BY <1>4

LEMMA Induction ==
    ASSUME NEW S, 0 \in S, \A n \in Nat : n \in S => n + 1 \in S
    PROVE  Nat \subseteq S
<1> SUFFICES ASSUME Nat \ S # {} PROVE FALSE OBVIOUS
<1>1. PICK x \in Nat \ S : \A y \in Nat \ S : x <= y BY Least
<1>2. x # 0 /\ x - 1 \in Nat BY <1>1
<1>3. x - 1 \in S BY <1>1, <1>2
<1> QED BY <1>1, <1>2, <1>3

(* A function given step by step exists.                                   *)
Steps(N, V, b, F) == N \in Nat /\ b \in V /\ F \in [1 .. N -> [V -> V]]
Stepwise(f, N, V, b, F) ==
    f \in [0 .. N -> V] /\ f[0] = b /\ \A k \in 1 .. N : f[k] = F[k][f[k - 1]]
LEMMA StepByStep ==
    ASSUME NEW N, NEW V, NEW b, NEW F, Steps(N, V, b, F)
    PROVE  \E f : Stepwise(f, N, V, b, F)
<1> USE DEF Steps
<1> DEFINE Upto(f, n) == f \in [0 .. n -> V] /\ f[0] = b
                           /\ \A k \in 1 .. n : f[k] = F[k][f[k - 1]]
           S == {n \in Nat : n <= N => \E f : Upto(f, n)}
<1>1. 0 \in S
  <2> DEFINE f == [k \in 0 .. 0 |-> b]
  <2>1. Upto(f, 0) OBVIOUS
  <2> HIDE DEF f, Upto
  <2> QED BY <2>1
<1>2. ASSUME NEW n \in Nat, n \in S PROVE n + 1 \in S
  <2> SUFFICES ASSUME n + 1 <= N PROVE \E f : Upto(f, n + 1)
    OBVIOUS
  <2>1. PICK f : Upto(f, n) BY <1>2
  <2>2. n \in 0 .. n /\ f[n] \in V /\ n + 1 \in 1 .. N BY <2>1
  <2> DEFINE g == [k \in 0 .. n + 1 |-> IF k = n + 1 THEN F[n + 1][f[n]] ELSE f[k]]
  <2>3. g \in [0 .. n + 1 -> V]
    <3>1. F[n + 1][f[n]] \in V BY <2>2
    <3>2. \A k \in 0 .. n + 1 : k # n + 1 => k \in 0 .. n OBVIOUS
    <3>3. \A k \in 0 .. n + 1 : (IF k = n + 1 THEN F[n + 1][f[n]] ELSE f[k]) \in V
      BY <2>1, <3>1, <3>2
    <3> QED BY <3>3
  <2>4. g[0] = b BY <2>1
  <2>5. \A k \in 1 .. n + 1 : g[k] = F[k][g[k - 1]]
    <3> SUFFICES ASSUME NEW k \in 1 .. n + 1 PROVE g[k] = F[k][g[k - 1]]
      OBVIOUS
    <3>1. g[k - 1] = f[k - 1] OBVIOUS
    <3>2. CASE k = n + 1 BY <3>1, <3>2
    <3>3. CASE k # n + 1
      <4>1. k \in 1 .. n /\ g[k] = f[k] BY <3>3
      <4> QED BY <2>1, <3>1, <4>1
    <3> QED BY <3>2, <3>3
  <2>6. Upto(g, n + 1)
    <3> HIDE DEF g
    <3> QED BY <2>3, <2>4, <2>5
  <2> HIDE DEF g, Upto
  <2> QED BY <2>6
<1>3. N \in S
  <2> HIDE DEF S
  <2> QED BY <1>1, <1>2, Induction
<1>4. PICK f : Upto(f, N) BY <1>3
<1> QED BY <1>4 DEF Stepwise

(***************************************************************************)
(* Products.                                                               *)
(***************************************************************************)
Chosen(s) == CHOOSE x \in s : TRUE
(* The product of q over each subset of H, taken in the order of the fold. *)
Products(g, q, H) ==
    /\ g \in [SUBSET H -> Nat]
    /\ \A s \in SUBSET H :
         g[s] = IF s = {} THEN 1 ELSE q[Chosen(s)] * g[s \ {Chosen(s)}]

LEMMA ChosenIn == \A s : s # {} => Chosen(s) \in s
BY DEF Chosen

(* A set of subsets that is closed under adding what is chosen holds every *)
(* finite subset.                                                          *)
LEMMA SubsetInduction ==
    ASSUME NEW H, IsFiniteSet(H), NEW Good,
           \A s \in SUBSET H : (\A t \in SUBSET s : t # s => t \in Good) => s \in Good
    PROVE  SUBSET H \subseteq Good
<1> DEFINE S == {n \in Nat : \A s \in SUBSET H : Cardinality(s) <= n => s \in Good}
<1>1. \A s \in SUBSET H : IsFiniteSet(s) /\ Cardinality(s) \in Nat
  BY FS_Subset, FS_CardinalityType
<1>2. \A s \in SUBSET H : \A t \in SUBSET s : t # s => Cardinality(t) < Cardinality(s)
  BY <1>1, FS_Subset
<1>3. 0 \in S
  <2> SUFFICES ASSUME NEW s \in SUBSET H, Cardinality(s) <= 0 PROVE s \in Good
    OBVIOUS
  <2>1. \A t \in SUBSET s : t # s => FALSE
    <3> SUFFICES ASSUME NEW t \in SUBSET s, t # s PROVE FALSE OBVIOUS
    <3>1. Cardinality(t) < Cardinality(s) /\ t \in SUBSET H BY <1>2
    <3> QED BY <1>1, <3>1
  <2> QED BY <2>1
<1>4. ASSUME NEW n \in Nat, n \in S PROVE n + 1 \in S
  <2> SUFFICES ASSUME NEW s \in SUBSET H, Cardinality(s) <= n + 1 PROVE s \in Good
    OBVIOUS
  <2>1. ASSUME NEW t \in SUBSET s, t # s PROVE t \in Good
    <3>1. t \in SUBSET H /\ Cardinality(t) < Cardinality(s) BY <1>2, <2>1
    <3>2. Cardinality(t) <= n BY <1>1, <3>1
    <3> QED BY <1>4, <3>1, <3>2
  <2> QED BY <2>1
<1>5. Nat \subseteq S
  <2> HIDE DEF S
  <2> QED BY <1>3, <1>4, Induction
<1> QED BY <1>1, <1>5

(* Two products agree where their factors do.                              *)
LEMMA ProductsAgree ==
    ASSUME NEW H, NEW K, IsFiniteSet(K), K \subseteq H, NEW q, NEW r, NEW f, NEW g,
           Products(f, q, H), Products(g, r, K), \A x \in K : q[x] = r[x]
    PROVE  \A s \in SUBSET K : f[s] = g[s]
<1> DEFINE Good == {s \in SUBSET K : f[s] = g[s]}
<1>1. ASSUME NEW s \in SUBSET K, \A t \in SUBSET s : t # s => t \in Good PROVE s \in Good
  <2>1. CASE s = {} BY <2>1 DEF Products
  <2>2. CASE s # {}
    <3>1. Chosen(s) \in s /\ s \ {Chosen(s)} \in SUBSET s /\ s \ {Chosen(s)} # s BY <2>2, ChosenIn
    <3>2. f[s \ {Chosen(s)}] = g[s \ {Chosen(s)}] BY <1>1, <3>1
    <3>3. s \in SUBSET H OBVIOUS
    <3>4. f[s] = q[Chosen(s)] * f[s \ {Chosen(s)}] BY <2>2, <3>3 DEF Products
    <3>5. g[s] = r[Chosen(s)] * g[s \ {Chosen(s)}] BY <2>2 DEF Products
    <3> QED BY <3>1, <3>2, <3>4, <3>5
  <2> QED BY <2>1, <2>2
<1>2. SUBSET K \subseteq Good
  <2> HIDE DEF Good
  <2> QED BY <1>1, SubsetInduction
<1> QED BY <1>2

(* They exist.                                                             *)
LEMMA ProductsExist ==
    ASSUME NEW H, IsFiniteSet(H), NEW q \in [H -> Nat]
    PROVE  \E g : Products(g, q, H)
<1> DEFINE Good == {s \in SUBSET H : \E g : Products(g, q, s)}
           Of(s) == CHOOSE g : Products(g, q, s)
<1>1. ASSUME NEW s \in SUBSET H, \A t \in SUBSET s : t # s => t \in Good PROVE s \in Good
  <2> DEFINE less(t) == t \ {Chosen(t)}
             g == [t \in SUBSET s |-> IF t = {} THEN 1 ELSE q[Chosen(t)] * Of(less(t))[less(t)]]
  <2>1. \A t \in SUBSET s : t # {} => Chosen(t) \in H /\ less(t) \in SUBSET s /\ less(t) # s
    <3> SUFFICES ASSUME NEW t \in SUBSET s, t # {}
                 PROVE  Chosen(t) \in H /\ less(t) \in SUBSET s /\ less(t) # s
      OBVIOUS
    <3>1. Chosen(t) \in t BY ChosenIn
    <3> QED BY <3>1
  <2>2. ASSUME NEW t \in SUBSET s, t # s
        PROVE  /\ Products(Of(t), q, t) /\ Of(t)[t] \in Nat
               /\ Of(t)[t] = g[t]
    <3>1. \A u \in SUBSET s : u # s => Products(Of(u), q, u)
      <4> SUFFICES ASSUME NEW u \in SUBSET s, u # s PROVE Products(Of(u), q, u)
        OBVIOUS
      <4>1. \E x : Products(x, q, u) BY <1>1
      <4> QED BY <4>1
    <3> HIDE DEF Of
    <3>2. Products(Of(t), q, t) BY <2>2, <3>1
    <3>3. t \in SUBSET t OBVIOUS
    <3>4. Of(t)[t] \in Nat BY <3>2, <3>3 DEF Products
    <3>5. CASE t = {}
      <4>1. Of(t)[t] = 1 BY <3>2, <3>3, <3>5 DEF Products
      <4> QED BY <3>2, <3>4, <3>5, <4>1
    <3>6. CASE t # {}
      <4>1. Of(t)[t] = q[Chosen(t)] * Of(t)[less(t)] BY <3>2, <3>3, <3>6 DEF Products
      <4>2. Products(Of(less(t)), q, less(t)) BY <2>1, <3>1, <3>6
      <4>3. IsFiniteSet(less(t)) /\ less(t) \subseteq t /\ less(t) \in SUBSET less(t) BY FS_Subset
      <4>4. Of(t)[less(t)] = Of(less(t))[less(t)]
        <5> HIDE DEF less
        <5> QED BY <3>2, <4>2, <4>3, ProductsAgree
      <4> QED BY <3>2, <3>4, <3>6, <4>1, <4>4
    <3> QED BY <3>5, <3>6
  <2> HIDE DEF Of
  <2>3. g \in [SUBSET s -> Nat]
    <3> SUFFICES ASSUME NEW t \in SUBSET s, t # {}
                 PROVE  q[Chosen(t)] * Of(less(t))[less(t)] \in Nat
      OBVIOUS
    <3>1. q[Chosen(t)] \in Nat BY <2>1
    <3>2. Of(less(t))[less(t)] \in Nat BY <2>1, <2>2
    <3> HIDE DEF less
    <3> QED BY <3>1, <3>2
  <2>4. ASSUME NEW t \in SUBSET s
        PROVE  g[t] = IF t = {} THEN 1 ELSE q[Chosen(t)] * g[t \ {Chosen(t)}]
    <3>1. t # {} => Of(less(t))[less(t)] = g[less(t)]
      <4> HIDE DEF g, less
      <4> QED BY <2>1, <2>2
    <3>2. g[t] = IF t = {} THEN 1 ELSE q[Chosen(t)] * Of(less(t))[less(t)] OBVIOUS
    <3> HIDE DEF g
    <3> QED BY <3>1, <3>2
  <2>5. Products(g, q, s)
    <3> HIDE DEF g
    <3> QED BY <2>3, <2>4 DEF Products
  <2> HIDE DEF g
  <2> QED BY <2>5
<1>2. SUBSET H \subseteq Good
  <2> HIDE DEF Good
  <2> QED BY <1>1, SubsetInduction
<1> QED BY <1>2

LEMMA ProductIs ==
    ASSUME NEW H, IsFiniteSet(H), NEW q \in [H -> Nat]
    PROVE  \E g : Products(g, q, H) /\ Product(q) = g[H]
<1> DEFINE Step(g) == [s \in SUBSET H |->
                          IF s = {} THEN 1 ELSE q[Chosen(s)] * g[s \ {Chosen(s)}]]
           it == CHOOSE g : g = Step(g)
<1>1. Product(q) = it[H]
  BY DEF Product, FoldFunction, FoldFunctionOnSet, MapThenFoldSet, Chosen
<1>2. PICK f : Products(f, q, H) BY ProductsExist
<1>3. f = Step(f) BY <1>2 DEF Products
<1>4. it = Step(it) BY <1>3
<1> HIDE DEF it
<1>5. \A s \in SUBSET H : it[s] = IF s = {} THEN 1 ELSE q[Chosen(s)] * it[s \ {Chosen(s)}]
  BY <1>4
<1>6. it = [s \in SUBSET H |-> it[s]] BY <1>4
<1> DEFINE Good == {s \in SUBSET H : it[s] \in Nat}
<1>7. ASSUME NEW s \in SUBSET H, \A t \in SUBSET s : t # s => t \in Good PROVE s \in Good
  <2>1. CASE s = {}
    <3>1. it[s] = 1 BY <1>5, <2>1, Zenon
    <3>2. it[s] \in Nat BY <3>1
    <3> QED BY <3>2
  <2>2. CASE s # {}
    <3>1. Chosen(s) \in s /\ s \ {Chosen(s)} \in SUBSET s /\ s \ {Chosen(s)} # s BY <2>2, ChosenIn
    <3>2. it[s \ {Chosen(s)}] \in Nat /\ q[Chosen(s)] \in Nat BY <1>7, <3>1
    <3>3. q[Chosen(s)] * it[s \ {Chosen(s)}] \in Nat
      <4>1. \A a, b \in Nat : a * b \in Nat OBVIOUS
      <4> QED BY <3>2, <4>1
    <3>4. it[s] = q[Chosen(s)] * it[s \ {Chosen(s)}] BY <1>5, <2>2
    <3> QED BY <3>3, <3>4
  <2> QED BY <2>1, <2>2
<1>8. SUBSET H \subseteq Good
  <2> HIDE DEF Good
  <2> QED BY <1>7, SubsetInduction
<1>9. it \in [SUBSET H -> Nat]
  <2>1. \A s \in SUBSET H : it[s] \in Nat BY <1>8
  <2> QED BY <1>6, <2>1
<1> QED BY <1>1, <1>5, <1>9 DEF Products

(* The order in which factors are taken makes no difference.               *)
LEMMA AnyOrder ==
    ASSUME NEW H, IsFiniteSet(H), NEW q \in [H -> Nat], NEW g, Products(g, q, H)
    PROVE  \A s \in SUBSET H : \A x \in s : g[s] = q[x] * g[s \ {x}]
<1> DEFINE Good == {s \in SUBSET H : \A x \in s : g[s] = q[x] * g[s \ {x}]}
<1>1. ASSUME NEW s \in SUBSET H, \A t \in SUBSET s : t # s => t \in Good PROVE s \in Good
  <2> SUFFICES ASSUME NEW x \in s PROVE g[s] = q[x] * g[s \ {x}]
    OBVIOUS
  <2> DEFINE c == Chosen(s)
  <2>1. c \in s /\ g[s] = q[c] * g[s \ {c}] BY ChosenIn DEF Products
  <2> HIDE DEF c
  <2>2. CASE x = c BY <2>1, <2>2
  <2>3. CASE x # c
    <3>1. /\ s \ {c} \in SUBSET s /\ s \ {c} # s /\ x \in s \ {c}
          /\ s \ {x} \in SUBSET s /\ s \ {x} # s /\ c \in s \ {x}
      BY <2>1, <2>3
    <3>2. g[s \ {c}] = q[x] * g[(s \ {c}) \ {x}] BY <1>1, <3>1
    <3>3. g[s \ {x}] = q[c] * g[(s \ {x}) \ {c}] BY <1>1, <3>1
    <3>4. (s \ {c}) \ {x} = (s \ {x}) \ {c} OBVIOUS
    <3>5. q[c] \in Nat /\ q[x] \in Nat /\ g[(s \ {c}) \ {x}] \in Nat BY <2>1 DEF Products
    <3>6. \A a, b, m \in Nat : a * (b * m) = b * (a * m) OBVIOUS
    <3>7. q[c] * (q[x] * g[(s \ {c}) \ {x}]) = q[x] * (q[c] * g[(s \ {c}) \ {x}]) BY <3>5, <3>6
    <3>8. g[s] = q[c] * (q[x] * g[(s \ {c}) \ {x}]) BY <2>1, <3>2, Zenon
    <3>9. q[x] * g[s \ {x}] = q[x] * (q[c] * g[(s \ {c}) \ {x}]) BY <3>3, <3>4, Zenon
    <3> QED BY <3>7, <3>8, <3>9, Zenon
  <2> QED BY <2>2, <2>3
<1>2. SUBSET H \subseteq Good
  <2> HIDE DEF Good
  <2> QED BY <1>1, SubsetInduction
<1> QED BY <1>2

(* A product is a natural, and any factor can be taken out of it.          *)
LEMMA ProductFacts ==
    ASSUME NEW H, IsFiniteSet(H), NEW q \in [H -> Nat]
    PROVE  /\ Product(q) \in Nat
           /\ \A x \in H : /\ Product([h \in H \ {x} |-> q[h]]) \in Nat
                           /\ Product(q) = q[x] * Product([h \in H \ {x} |-> q[h]])
<1>1. PICK g : Products(g, q, H) /\ Product(q) = g[H] BY ProductIs
<1>2. Product(q) \in Nat
  <2>1. H \in SUBSET H OBVIOUS
  <2> QED BY <1>1, <2>1 DEF Products
<1>3. ASSUME NEW x \in H
      PROVE  /\ Product([h \in H \ {x} |-> q[h]]) \in Nat
             /\ Product(q) = q[x] * Product([h \in H \ {x} |-> q[h]])
  <2> DEFINE K == H \ {x}
             r == [h \in K |-> q[h]]
  <2>1. IsFiniteSet(K) /\ K \subseteq H /\ r \in [K -> Nat] /\ \A y \in K : q[y] = r[y]
    BY FS_RemoveElement
  <2> HIDE DEF K, r
  <2>2. PICK f : Products(f, r, K) /\ Product(r) = f[K] BY <2>1, ProductIs
  <2>3. K \in SUBSET K /\ H \in SUBSET H OBVIOUS
  <2>4. g[K] = f[K]
    <3>1. Products(g, q, H) /\ Products(f, r, K) BY <1>1, <2>2
    <3>2. \A s \in SUBSET K : g[s] = f[s] BY <2>1, <3>1, ProductsAgree
    <3> QED BY <2>3, <3>2
  <2>5. g[H] = q[x] * g[H \ {x}] BY <1>1, <2>3, AnyOrder
  <2>6. Product(r) \in Nat /\ Product(q) = q[x] * Product(r)
    BY <1>1, <2>2, <2>3, <2>4, <2>5 DEF Products, K
  <2> QED BY <2>6 DEF K, r
<1> QED BY <1>2, <1>3

(***************************************************************************)
(* The edge policy.                                                        *)
(***************************************************************************)
(* Only finitely many observations have been gathered.                     *)
Gathered == obs \subseteq Observation /\ IsFiniteSet(obs)

LEMMA GatheredIsFinite ==
    /\ DecisionsInit => Gathered
    /\ Gathered /\ [DecisionsNext]_vars => Gathered'
<1>1. DecisionsInit => Gathered BY FS_EmptySet DEF DecisionsInit, Init, Gathered
<1>2. ASSUME Gathered, [DecisionsNext]_vars PROVE Gathered'
  <2>1. CASE Next
    <3>1. PICK o \in Observation : obs' = obs \cup {o} BY <2>1 DEF Next, Gather
    <3> QED BY <1>2, <3>1, FS_AddElement DEF Gathered
  <2>2. CASE obs' = obs BY <1>2, <2>2 DEF Gathered
  <2> QED BY <1>2, <2>1, <2>2 DEF DecisionsNext, vars
<1> QED BY <1>1, <1>2

(* "Contradictions above a 30% share require review", on every branch of   *)
(* assess_edge, for any observations of any hosts, tiers and ages.         *)
THEOREM ConflictIsAlwaysReviewed == DecisionsSpec => []ConflictIsReviewed
<1>1. Gathered => ConflictIsReviewed
  <2> DEFINE against == With(obs, "contradict")
             m == Cardinality(against)
             n == Cardinality(obs)
  <2> SUFFICES ASSUME IsFiniteSet(obs), 10 * m > 3 * n PROVE Assess(obs) = "review_required"
    BY DEF ConflictIsReviewed, With, Gathered
  <2>1. against \in SUBSET obs BY DEF With
  <2>2. m \in Nat /\ n \in Nat BY <2>1, FS_Subset, FS_CardinalityType
  <2>3. m * 10 > n * 3 /\ m # 0
    <3> HIDE DEF m, n
    <3> QED BY <2>2
  <2>4. Conflicting(obs) BY <2>3 DEF Conflicting
  <2>5. ~ Retiring(obs)
    <3>1. against # {} BY <2>3, FS_EmptySet
    <3> QED BY <3>1 DEF Retiring
  <2> QED BY <2>4, <2>5, Zenon DEF Assess
<1> QED BY <1>1, GatheredIsFinite, PTL DEF DecisionsSpec

(***************************************************************************)
(* Confidence.                                                             *)
(***************************************************************************)
LEMMA QualityBounded == ASSUME NEW o \in Observation PROVE Quality(o) \in 0 .. Scale
<1>1. o.tier \in {"primary", "official", "discovery", "market_data"} /\ o.age \in {0, 1}
  <2>1. o.tier \in Tier /\ o.age \in 0 .. MaxAge BY DEF Observation
  <2>2. \A a \in 0 .. MaxAge : a \in {0, 1} BY GatherAssumption
  <2>3. Tier \subseteq {"primary", "official", "discovery", "market_data"} BY TierAssumption
  <2>4. o.tier \in {"primary", "official", "discovery", "market_data"} BY <2>1, <2>3
  <2>5. o.age \in {0, 1} BY <2>1, <2>2
  <2> QED BY <2>4, <2>5
<1>2. SourceReliability[o.tier] \in {36, 30, 14, 20} BY <1>1 DEF SourceReliability
<1>3. 2 ^ o.age \in {1, 2}
  <2>1. 2 ^ 0 = 1 /\ 2 ^ 1 = 2 OBVIOUS
  <2> QED BY <1>1, <2>1
<1>4. \A a \in {36, 30, 14, 20}, b \in {1, 2} : a \div b \in 0 .. 40 OBVIOUS
<1> QED BY <1>2, <1>3, <1>4 DEF Quality, Scale

(* A non-empty set of naturals below a bound has a greatest member.        *)
LEMMA Greatest ==
    ASSUME NEW n \in Nat, NEW S \in SUBSET (0 .. n), S # {}
    PROVE  Max(S) \in S /\ \A y \in S : Max(S) >= y
<1> DEFINE Gaps == {k \in Nat : n - k \in S}
<1>1. PICK s : s \in S OBVIOUS
<1>2. n - s \in Gaps BY <1>1
<1>3. PICK k \in Gaps : \A j \in Gaps : k <= j
  <2> HIDE DEF Gaps
  <2>1. Gaps \in SUBSET Nat /\ Gaps # {} BY <1>2 DEF Gaps
  <2> QED BY <2>1, Least
<1>4. n - k \in S BY <1>3
<1>5. ASSUME NEW y \in S PROVE n - k >= y
  <2>1. y \in Int /\ n - y \in Nat /\ n - (n - y) = y OBVIOUS
  <2>2. n - y \in Gaps BY <2>1
  <2>3. k <= n - y /\ k \in Nat BY <1>3, <2>2
  <2> HIDE DEF Gaps
  <2> QED BY <2>1, <2>3
<1>6. \E x \in S : \A y \in S : x >= y BY <1>4, <1>5
<1> QED BY <1>6 DEF Max

(* The qualities a host is judged by.                                      *)
Grades(os, h) == {Quality(o) : o \in {p \in Supporting(os) : p.host = h}}

LEMMA BestIsBest ==
    ASSUME NEW os \in SUBSET Observation, NEW h \in Hosts(Supporting(os))
    PROVE  Best(os, h) \in 0 .. Scale /\ Best(os, h) \in Grades(os, h)
           /\ \A y \in Grades(os, h) : Best(os, h) >= y
<1>1. Scale \in Nat BY DEF Scale
<1>2. Grades(os, h) \in SUBSET (0 .. Scale) BY QualityBounded DEF Grades, Supporting, With
<1>3. Grades(os, h) # {} BY DEF Grades, Hosts
<1>4. Max(Grades(os, h)) \in Grades(os, h) /\ \A y \in Grades(os, h) : Max(Grades(os, h)) >= y
  BY <1>1, <1>2, <1>3, Greatest
<1>5. Best(os, h) = Max(Grades(os, h)) BY DEF Best, Grades
<1> QED BY <1>2, <1>4, <1>5

(***************************************************************************)
(* One more observation.                                                   *)
(***************************************************************************)
LEMMA HostsFinite ==
    ASSUME NEW os, IsFiniteSet(os)
    PROVE  IsFiniteSet(Hosts(os))
<1> DEFINE f == [o \in os |-> o.host]
<1>1. f \in Surjection(os, Hosts(os)) BY DEF Hosts, Surjection
<1> HIDE DEF f
<1> QED BY <1>1, FS_Surjection

LEMMA DoubtIs ==
    ASSUME NEW os \in SUBSET Observation
    PROVE  /\ [h \in Hosts(Supporting(os)) |-> Scale - Best(os, h)] \in
                  [Hosts(Supporting(os)) -> 0 .. Scale]
           /\ [h \in Hosts(Supporting(os)) |-> Scale] \in [Hosts(Supporting(os)) -> Nat]
<1>1. \A h \in Hosts(Supporting(os)) : Best(os, h) \in 0 .. Scale BY BestIsBest
<1>2. Scale \in Nat BY DEF Scale
<1>3. \A b \in 0 .. Scale : Scale - b \in 0 .. Scale BY <1>2
<1> HIDE DEF Scale
<1> QED BY <1>1, <1>2, <1>3

(* What a supporting observation changes: either its host counts for the   *)
(* first time, or it counts for no less than before.                       *)
LEMMA SupportGrows ==
    ASSUME NEW os \in SUBSET Observation, IsFiniteSet(os), NEW o \in Observation,
           o.stance = "support"
    PROVE  /\ Doubt(os) \in Nat /\ Unit(os) \in Nat
           /\ Doubt(os \cup {o}) \in Nat /\ Unit(os \cup {o}) \in Nat
           /\ \/ \E d \in 0 .. Scale : /\ Doubt(os \cup {o}) = d * Doubt(os)
                                       /\ Unit(os \cup {o}) = Scale * Unit(os)
              \/ Doubt(os \cup {o}) <= Doubt(os) /\ Unit(os \cup {o}) = Unit(os)
<1> DEFINE ps == os \cup {o}
           h0 == o.host
           H == Hosts(Supporting(os))
           K == Hosts(Supporting(ps))
           q == [h \in H |-> Scale - Best(os, h)]
           r == [h \in K |-> Scale - Best(ps, h)]
           u == [h \in H |-> Scale]
           v == [h \in K |-> Scale]
<1>1. ps \in SUBSET Observation OBVIOUS
<1>2. Supporting(ps) = Supporting(os) \cup {o} BY DEF Supporting, With
<1>3. K = H \cup {h0} BY <1>2 DEF Hosts
<1>4. IsFiniteSet(H) /\ IsFiniteSet(K)
  <2>1. IsFiniteSet(Supporting(os)) BY FS_Subset DEF Supporting
  <2>2. IsFiniteSet(H) BY <2>1, HostsFinite
  <2> HIDE DEF H, K, h0
  <2> QED BY <1>3, <2>2, FS_AddElement
<1>5. /\ q \in [H -> 0 .. Scale] /\ u \in [H -> Nat]
      /\ r \in [K -> 0 .. Scale] /\ v \in [K -> Nat]
  BY <1>1, DoubtIs
<1>6. Scale \in Nat BY DEF Scale
<1>7. q \in [H -> Nat] /\ r \in [K -> Nat]
  <2> HIDE DEF q, r, H, K
  <2>1. 0 .. Scale \subseteq Nat BY <1>6
  <2> QED BY <1>5, <2>1
<1>8. /\ Doubt(os) = Product(q) /\ Unit(os) = Product(u)
      /\ Doubt(ps) = Product(r) /\ Unit(ps) = Product(v)
  BY DEF Doubt, Unit
<1>9. \A h \in H : h # h0 => Best(ps, h) = Best(os, h)
  <2> SUFFICES ASSUME NEW h \in H, h # h0 PROVE Best(ps, h) = Best(os, h)
    OBVIOUS
  <2>1. {p \in Supporting(ps) : p.host = h} = {p \in Supporting(os) : p.host = h} BY <1>2
  <2> QED BY <2>1 DEF Best
<1>10. h0 \in H => Best(ps, h0) >= Best(os, h0)
  <2> SUFFICES ASSUME h0 \in H PROVE Best(ps, h0) >= Best(os, h0)
    OBVIOUS
  <2>1. Best(os, h0) \in Grades(os, h0) BY BestIsBest
  <2>2. Grades(os, h0) \subseteq Grades(ps, h0) BY <1>2 DEF Grades
  <2>3. h0 \in K BY <1>3
  <2> HIDE DEF h0, K, ps
  <2> QED BY <1>1, <2>1, <2>2, <2>3, BestIsBest DEF K
<1>11. /\ Product(q) \in Nat /\ Product(r) \in Nat /\ Product(u) \in Nat /\ Product(v) \in Nat
  <2> HIDE DEF q, r, u, v, H, K
  <2> QED BY <1>4, <1>5, <1>7, ProductFacts
<1>12. h0 \in K /\ r[h0] \in 0 .. Scale /\ v[h0] = Scale
  <2>1. h0 \in K BY <1>3
  <2>2. r[h0] \in 0 .. Scale
    <3> HIDE DEF r, K, h0
    <3> QED BY <1>5, <2>1
  <2> QED BY <2>1, <2>2
<1>13. CASE h0 \notin H
  <2>1. K \ {h0} = H BY <1>3, <1>13
  <2>2. [h \in K \ {h0} |-> r[h]] = q /\ [h \in K \ {h0} |-> v[h]] = u
    <3>1. \A h \in H : h # h0 /\ h \in K BY <1>3, <1>13
    <3>2. \A h \in H : r[h] = q[h] /\ v[h] = u[h] BY <1>9, <3>1
    <3>3. q = [h \in H |-> q[h]] /\ u = [h \in H |-> u[h]] OBVIOUS
    <3> HIDE DEF r, q, u, v, H, K, h0
    <3> QED BY <2>1, <3>2, <3>3
  <2> HIDE DEF q, r, u, v, H, K, h0
  <2>3. Product(r) = r[h0] * Product(q)
    <3>1. Product(r) = r[h0] * Product([h \in K \ {h0} |-> r[h]])
      BY <1>4, <1>7, <1>12, ProductFacts
    <3> QED BY <2>2, <3>1
  <2>4. Product(v) = v[h0] * Product(u)
    <3>1. Product(v) = v[h0] * Product([h \in K \ {h0} |-> v[h]])
      BY <1>4, <1>5, <1>12, ProductFacts
    <3> QED BY <2>2, <3>1
  <2> HIDE DEF ps
  <2> QED BY <1>8, <1>11, <1>12, <2>3, <2>4 DEF ps
<1>14. CASE h0 \in H
  <2>1. K = H BY <1>3, <1>14
  <2>2. v = u BY <2>1
  <2>3. [h \in K \ {h0} |-> r[h]] = [h \in H \ {h0} |-> q[h]]
    <3>1. \A h \in H \ {h0} : r[h] = q[h] BY <1>9, <2>1
    <3> HIDE DEF r, q, H, K, h0
    <3> QED BY <2>1, <3>1
  <2>4. r[h0] \in Nat /\ q[h0] \in Nat /\ r[h0] <= q[h0]
    <3>1. r[h0] = Scale - Best(ps, h0) /\ q[h0] = Scale - Best(os, h0) BY <1>12, <1>14
    <3>2. Best(ps, h0) \in 0 .. Scale /\ Best(os, h0) \in 0 .. Scale
      BY <1>1, <1>12, <1>14, BestIsBest
    <3> HIDE DEF r, q, H, K, h0, ps
    <3> QED BY <1>6, <1>10, <1>14, <3>1, <3>2
  <2> HIDE DEF q, r, u, v, H, K, h0
  <2> DEFINE m == Product([h \in H \ {h0} |-> q[h]])
  <2>5. m \in Nat /\ Product(r) = r[h0] * m /\ Product(q) = q[h0] * m
    BY <1>4, <1>7, <1>12, <1>14, <2>3, ProductFacts
  <2> HIDE DEF m
  <2>6. \A a, b, c \in Nat : a <= b => a * c <= b * c OBVIOUS
  <2>7. Product(r) <= Product(q) BY <2>4, <2>5, <2>6
  <2> QED BY <1>8, <1>11, <2>2, <2>7
<1> QED BY <1>13, <1>14

(* What confidence there is survives one more supporter.                   *)
LEMMA StillConfident ==
    ASSUME NEW d \in Nat, NEW u \in Nat, NEW e \in Nat, NEW w \in Nat,
           NEW s \in Nat, NEW n \in Nat, s # 0, s <= n,
           2 * (u - d) * s >= u * n,
           \/ \E k \in 0 .. Scale : e = k * d /\ w = Scale * u
           \/ e <= d /\ w = u
    PROVE  2 * (w - e) * (s + 1) >= w * (n + 1)
<1> DEFINE c == 2 * (u - d)
<1>1. c \in Int /\ c * s >= u * n OBVIOUS
<1> HIDE DEF c
<1>2. u * n >= u * s
  <2>1. \A a, b, m \in Nat : a <= b => m * a <= m * b OBVIOUS
  <2> QED BY <2>1
<1>3. c >= u
  <2> SUFFICES ASSUME c < u PROVE FALSE BY <1>1
  <2>1. u - c >= 1 BY <1>1
  <2>2. (u - c) * s >= 1
    <3>1. \A a, b \in Int : a >= 1 /\ b >= 1 => a * b >= 1 OBVIOUS
    <3> QED BY <1>1, <2>1, <3>1
  <2>3. (u - c) * s = u * s - c * s BY <1>1
  <2>4. u * s \in Int /\ c * s \in Int /\ u * n \in Int BY <1>1
  <2> QED BY <1>1, <1>2, <2>2, <2>3, <2>4
<1>4. c * (s + 1) >= u * (n + 1)
  <2>1. c * (s + 1) = c * s + c /\ u * (n + 1) = u * n + u BY <1>1
  <2>2. u * n \in Int /\ c * s \in Int BY <1>1
  <2> QED BY <1>1, <1>3, <2>1, <2>2
<1>5. ASSUME NEW f \in Int, f >= c PROVE f * (s + 1) >= u * (n + 1)
  <2>1. \A a, b, m \in Int : a >= b /\ m >= 0 => a * m >= b * m OBVIOUS
  <2>2. f * (s + 1) >= c * (s + 1) BY <1>1, <1>5, <2>1
  <2>3. f * (s + 1) \in Int /\ c * (s + 1) \in Int /\ u * (n + 1) \in Int BY <1>1
  <2> QED BY <1>4, <2>2, <2>3
<1>6. CASE e <= d /\ w = u
  <2>1. 2 * (u - e) \in Int /\ 2 * (u - e) >= c BY <1>6 DEF c
  <2> QED BY <1>5, <1>6, <2>1
<1>7. CASE \E k \in 0 .. Scale : e = k * d /\ w = Scale * u
  <2>1. PICK k \in 0 .. Scale : e = k * d /\ w = Scale * u BY <1>7
  <2>2. Scale \in Nat /\ k \in Nat /\ k <= Scale BY DEF Scale
  <2> HIDE DEF Scale
  <2>3. e <= Scale * d
    <3>1. \A a, b, m \in Nat : a <= b => a * m <= b * m OBVIOUS
    <3> QED BY <2>1, <2>2, <3>1
  <2>4. 2 * (w - e) >= Scale * c
    <3>1. 2 * (Scale * u - Scale * d) = Scale * (2 * (u - d)) BY <2>2
    <3>2. Scale * u \in Nat /\ Scale * d \in Nat BY <2>2
    <3> QED BY <2>1, <2>3, <3>1, <3>2 DEF c
  <2>5. 2 * (w - e) * (s + 1) >= Scale * c * (s + 1)
    <3>1. \A a, b, m \in Int : a >= b /\ m >= 0 => a * m >= b * m OBVIOUS
    <3>2. 2 * (w - e) \in Int /\ Scale * c \in Int BY <1>1, <2>2
    <3> QED BY <2>4, <3>1, <3>2
  <2>6. Scale * c * (s + 1) >= Scale * (u * (n + 1))
    <3>1. Scale * c * (s + 1) = Scale * (c * (s + 1)) BY <1>1, <2>2
    <3>2. \A a, b \in Int, m \in Nat : a >= b => m * a >= m * b OBVIOUS
    <3>3. c * (s + 1) \in Int /\ u * (n + 1) \in Int BY <1>1
    <3>4. Scale * (c * (s + 1)) >= Scale * (u * (n + 1)) BY <1>4, <2>2, <3>2, <3>3
    <3> QED BY <3>1, <3>4
  <2>7. Scale * (u * (n + 1)) = w * (n + 1) BY <2>1, <2>2
  <2>8. /\ 2 * (w - e) * (s + 1) \in Int /\ Scale * c * (s + 1) \in Int
        /\ w * (n + 1) \in Int
    BY <1>1, <2>2
  <2> QED BY <2>5, <2>6, <2>7, <2>8
<1> QED BY <1>6, <1>7

LEMMA SupportKeepsEligible ==
    ASSUME NEW os \in SUBSET Observation, IsFiniteSet(os), NEW o \in Observation, o \notin os,
           o.stance = "support", Assess(os) = "eligible"
    PROVE  Assess(os \cup {o}) = "eligible"
<1> DEFINE ps == os \cup {o}
           n == Cardinality(os)
           s == Cardinality(Supporting(os))
           m == Cardinality(With(os, "contradict"))
<1>1. ~ Retiring(os) /\ Corroborated(os) /\ ~ Conflicting(os)
  BY DEF Assess
<1>2. /\ Supporting(ps) = Supporting(os) \cup {o} /\ o \notin Supporting(os)
      /\ With(ps, "contradict") = With(os, "contradict")
      /\ With(ps, "retire") = With(os, "retire")
  BY DEF Supporting, With
<1>3. Supporting(os) \subseteq os /\ With(os, "contradict") \subseteq os
  BY DEF Supporting, With
<1>4. /\ IsFiniteSet(Supporting(os)) /\ n \in Nat /\ s \in Nat /\ s <= n /\ m \in Nat
      /\ Cardinality(ps) = n + 1 /\ Cardinality(Supporting(ps)) = s + 1
  <2>1. IsFiniteSet(Supporting(os)) /\ s <= n /\ IsFiniteSet(With(os, "contradict"))
    BY <1>3, FS_Subset
  <2>2. n \in Nat /\ s \in Nat /\ m \in Nat BY <2>1, FS_CardinalityType
  <2> QED BY <1>2, <2>1, <2>2, FS_AddElement
<1>5. ~ Retiring(ps) BY <1>1, <1>2 DEF Retiring
<1>6. ~ Conflicting(ps)
  <2>1. ~ (m * 10 > n * 3) BY <1>1 DEF Conflicting
  <2>2. ~ (m * 10 > (n + 1) * 3)
    <3> HIDE DEF m, n
    <3> QED BY <1>4, <2>1
  <2> QED BY <1>2, <1>4, <2>2 DEF Conflicting
<1>7. Cardinality(Hosts(Supporting(ps))) >= 2
  <2> DEFINE H == Hosts(Supporting(os))
             K == Hosts(Supporting(ps))
  <2>1. H \subseteq K BY <1>2 DEF Hosts
  <2>2. IsFiniteSet(K)
    <3>1. IsFiniteSet(Supporting(ps))
      <4>1. IsFiniteSet(Supporting(os) \cup {o}) BY <1>4, FS_AddElement
      <4> QED BY <1>2, <4>1
    <3> QED BY <3>1, HostsFinite
  <2>3. Cardinality(H) >= 2 BY <1>1 DEF Corroborated
  <2> HIDE DEF H, K
  <2>4. Cardinality(H) <= Cardinality(K) /\ IsFiniteSet(H) BY <2>1, <2>2, FS_Subset
  <2>5. Cardinality(H) \in Nat /\ Cardinality(K) \in Nat BY <2>2, <2>4, FS_CardinalityType
  <2>6. Cardinality(K) >= 2 BY <2>3, <2>4, <2>5
  <2> QED BY <2>6 DEF K
<1>8. s # 0
  <2> SUFFICES ASSUME s = 0 PROVE FALSE OBVIOUS
  <2>1. Supporting(os) = {} BY <1>4, FS_EmptySet
  <2>2. Hosts(Supporting(os)) = {} BY <2>1 DEF Hosts
  <2>3. Cardinality(Hosts(Supporting(os))) = 0 BY <2>2, FS_EmptySet
  <2> QED BY <1>1, <2>3 DEF Corroborated
<1>9. Confident(ps, 1, 2)
  <2> DEFINE d == Doubt(os)
             u == Unit(os)
             e == Doubt(ps)
             w == Unit(ps)
  <2>1. /\ d \in Nat /\ u \in Nat /\ e \in Nat /\ w \in Nat
        /\ \/ \E k \in 0 .. Scale : e = k * d /\ w = Scale * u
           \/ e <= d /\ w = u
    BY SupportGrows
  <2>2. 2 * (u - d) * s >= 1 * u * n BY <1>1 DEF Corroborated, Confident
  <2> HIDE DEF d, u, e, w, s, n
  <2>3. 2 * (u - d) * s >= u * n BY <1>4, <2>1, <2>2
  <2>4. 2 * (w - e) * (s + 1) >= w * (n + 1) BY <1>4, <1>8, <2>1, <2>3, StillConfident
  <2>5. 2 * (w - e) * (s + 1) >= 1 * w * (n + 1) BY <1>4, <2>1, <2>4
  <2> USE DEF d, u, e, w, s, n
  <2> QED BY <1>4, <2>5 DEF Confident
<1>10. Corroborated(ps) BY <1>7, <1>9 DEF Corroborated
<1> QED BY <1>5, <1>6, <1>10 DEF Assess

LEMMA ContradictionEarnsNothing ==
    ASSUME NEW os \in SUBSET Observation, IsFiniteSet(os), NEW o \in Observation, o \notin os,
           o.stance = "contradict", With(os, "retire") = {}, Assess(os \cup {o}) = "eligible"
    PROVE  Assess(os) = "eligible"
<1> DEFINE ps == os \cup {o}
           n == Cardinality(os)
           s == Cardinality(Supporting(os))
           m == Cardinality(With(os, "contradict"))
<1>1. Corroborated(ps) /\ ~ Conflicting(ps)
  BY DEF Assess
<1>2. /\ Supporting(ps) = Supporting(os)
      /\ With(ps, "contradict") = With(os, "contradict") \cup {o}
      /\ o \notin With(os, "contradict")
  BY DEF Supporting, With
<1>3. /\ n \in Nat /\ s \in Nat /\ m \in Nat
      /\ Cardinality(ps) = n + 1 /\ Cardinality(With(ps, "contradict")) = m + 1
  <2>1. Supporting(os) \subseteq os /\ With(os, "contradict") \subseteq os
    BY DEF Supporting, With
  <2>2. IsFiniteSet(Supporting(os)) /\ IsFiniteSet(With(os, "contradict"))
    BY <2>1, FS_Subset
  <2>3. n \in Nat /\ s \in Nat /\ m \in Nat BY <2>2, FS_CardinalityType
  <2> QED BY <1>2, <2>2, <2>3, FS_AddElement
<1>4. ~ Retiring(os)
  <2>1. Hosts(With(os, "retire")) = {} BY DEF Hosts
  <2>2. Cardinality(Hosts(With(os, "retire"))) = 0 BY <2>1, FS_EmptySet
  <2> QED BY <2>2 DEF Retiring
<1>5. ~ Conflicting(os)
  <2>1. ~ ((m + 1) * 10 > (n + 1) * 3) BY <1>1, <1>3 DEF Conflicting
  <2>2. ~ (m * 10 > n * 3)
    <3> HIDE DEF m, n
    <3> QED BY <1>3, <2>1
  <2> QED BY <2>2 DEF Conflicting
<1>6. Doubt(ps) = Doubt(os) /\ Unit(ps) = Unit(os) BY <1>2 DEF Doubt, Unit, Best
<1>7. Unit(os) \in Nat /\ Doubt(os) \in Nat
  <2> DEFINE H == Hosts(Supporting(os))
             q == [h \in H |-> Scale - Best(os, h)]
             u == [h \in H |-> Scale]
  <2>1. IsFiniteSet(H)
    <3>1. IsFiniteSet(Supporting(os)) BY FS_Subset DEF Supporting
    <3> QED BY <3>1, HostsFinite
  <2>2. q \in [H -> 0 .. Scale] /\ u \in [H -> Nat] BY DoubtIs
  <2>3. 0 .. Scale \subseteq Nat BY DEF Scale
  <2>4. Product(q) \in Nat /\ Product(u) \in Nat
    <3> HIDE DEF H, q, u
    <3>1. q \in [H -> Nat] BY <2>2, <2>3
    <3> QED BY <2>1, <2>2, <3>1, ProductFacts
  <2> QED BY <2>4 DEF Doubt, Unit
<1>8. Corroborated(os)
  <2> DEFINE d == Doubt(os)
             u == Unit(os)
  <2>1. 2 * (u - d) * s >= 1 * u * (n + 1)
    BY <1>1, <1>2, <1>3, <1>6 DEF Corroborated, Confident
  <2>2. 2 * (u - d) * s >= 1 * u * n
    <3> HIDE DEF d, u, s, n
    <3>1. u \in Nat /\ d \in Nat /\ s \in Nat /\ n \in Nat BY <1>3, <1>7 DEF u, d, s, n
    <3>2. \A a, b \in Nat : 1 * a * (b + 1) = 1 * a * b + a /\ 1 * a * b \in Int OBVIOUS
    <3>3. 1 * u * (n + 1) = 1 * u * n + u /\ 1 * u * n \in Int BY <3>1, <3>2
    <3>4. 2 * (u - d) * s \in Int BY <3>1
    <3> QED BY <2>1, <3>1, <3>3, <3>4
  <2> QED BY <1>1, <1>2, <2>2 DEF Corroborated, Confident
<1> QED BY <1>4, <1>5, <1>8 DEF Assess

(* A supporter never costs an edge its eligibility, of whatever tier, age   *)
(* or host and however many came before it, and a contradiction never earns *)
(* it where nobody asks for the retirement (assess_edge).                   *)
THEOREM VerdictsAlwaysFollow == DecisionsSpec => VerdictFollowsEvidence
<1> DEFINE Follows(o) ==
             /\ o.stance = "support" /\ Assess(obs) = "eligible" => Assess(obs') = "eligible"
             /\ /\ o.stance = "contradict" /\ With(obs, "retire") = {}
                /\ Assess(obs') = "eligible"
                => Assess(obs) = "eligible"
           Verdict == [\A o \in obs' \ obs : Follows(o)]_obs
<1>1. Gathered /\ [DecisionsNext]_vars => Verdict
  <2>1. ASSUME Gathered, Next, NEW o \in obs' \ obs PROVE Follows(o)
    <3>1. PICK p \in Observation : obs' = obs \cup {p} BY <2>1 DEF Next, Gather
    <3>2. o \in Observation /\ o \notin obs /\ obs' = obs \cup {o} BY <2>1, <3>1
    <3>3. obs \in SUBSET Observation /\ IsFiniteSet(obs) BY <2>1 DEF Gathered
    <3>4. PICK os : os = obs' /\ os = obs \cup {o} BY <3>2
    <3>5. o.stance = "support" /\ Assess(obs) = "eligible" => Assess(os) = "eligible"
      BY <3>2, <3>3, <3>4, SupportKeepsEligible
    <3>6. /\ o.stance = "contradict" /\ With(obs, "retire") = {}
          /\ Assess(os) = "eligible"
          => Assess(obs) = "eligible"
      BY <3>2, <3>3, <3>4, ContradictionEarnsNothing
    <3> QED BY <3>4, <3>5, <3>6
  <2> HIDE DEF Follows
  <2>2. [DecisionsNext]_vars => Next \/ UNCHANGED obs BY DEF DecisionsNext, vars
  <2> QED BY <2>1, <2>2
<1>2. DecisionsSpec => []Gathered BY GatheredIsFinite, PTL DEF DecisionsSpec
<1>3. DecisionsSpec => [][\A o \in obs' \ obs : Follows(o)]_obs
  <2> HIDE DEF Follows
  <2> QED BY <1>1, <1>2, PTL DEF DecisionsSpec
<1> QED BY <1>3 DEF VerdictFollowsEvidence

(***************************************************************************)
(* Facts about walks.                                                      *)
(***************************************************************************)
Weighed == loss \in [DOMAIN Links -> 0 .. MaxLoss \cup {NoPath}]

LEMMA LinkFacts ==
    ASSUME Weighed
    PROVE  \A i \in Effective : /\ i \in DOMAIN Links /\ loss[i] \in Nat
                                /\ Links[i][1] \in Node /\ Links[i][2] \in Node
<1>1. 0 .. MaxLoss \subseteq Nat BY ScenarioAssumption
<1>2. \A i \in DOMAIN Links : Links[i] \in Node \X Node BY ScenarioAssumption
<1> QED BY <1>1, <1>2 DEF Weighed, Effective

LEMMA FurtherFacts ==
    ASSUME Weighed, NEW v \in [Node -> SUBSET Nat]
    PROVE  /\ Further(v) \in [Node -> SUBSET Nat]
           /\ \A n \in Node : \A m \in Further(v)[n] :
                \/ m \in v[n]
                \/ \E i \in Effective : Links[i][2] = n /\ \E l \in v[Links[i][1]] : m = l + loss[i]
           /\ \A n \in Node : v[n] \subseteq Further(v)[n]
           /\ \A i \in Effective : \A l \in v[Links[i][1]] : l + loss[i] \in Further(v)[Links[i][2]]
<1> DEFINE Over(n) == UNION {{l + loss[i] : l \in v[Links[i][1]]} :
                               i \in {j \in Effective : Links[j][2] = n}}
<1>1. \A n : \A m : m \in Over(n) <=>
          \E i \in Effective : Links[i][2] = n /\ \E l \in v[Links[i][1]] : m = l + loss[i]
  OBVIOUS
<1>2. Further(v) = [n \in Node |-> v[n] \cup Over(n)] BY DEF Further
<1> HIDE DEF Over
<1>3. \A n \in Node : Over(n) \subseteq Nat
  <2> SUFFICES ASSUME NEW n \in Node, NEW m \in Over(n) PROVE m \in Nat
    OBVIOUS
  <2>1. PICK i \in Effective : Links[i][2] = n /\ \E l \in v[Links[i][1]] : m = l + loss[i]
    BY <1>1
  <2>2. PICK l \in v[Links[i][1]] : m = l + loss[i] BY <2>1
  <2>3. loss[i] \in Nat /\ Links[i][1] \in Node BY LinkFacts
  <2>4. l \in Nat BY <2>3
  <2> QED BY <2>2, <2>3, <2>4
<1>4. Further(v) \in [Node -> SUBSET Nat] BY <1>2, <1>3
<1>5. \A n \in Node : Further(v)[n] = v[n] \cup Over(n) BY <1>2
<1>6. \A i \in Effective : Links[i][2] \in Node BY LinkFacts
<1> QED BY <1>1, <1>4, <1>5, <1>6

LEMMA LossesFacts ==
    ASSUME Weighed
    PROVE  /\ Losses \in [0 .. MaxHops -> [Node -> SUBSET Nat]]
           /\ Losses[0] = [n \in Node |-> IF n = Shock THEN {0} ELSE {}]
           /\ \A h \in 1 .. MaxHops : Losses[h] = Further(Losses[h - 1])
<1> DEFINE V == [Node -> SUBSET Nat]
           b == [n \in Node |-> IF n = Shock THEN {0} ELSE {}]
           F == [h \in 1 .. MaxHops |-> [v \in V |-> Further(v)]]
           Eqn(g) == [h \in 0 .. MaxHops |-> IF h = 0 THEN b ELSE Further(g[h - 1])]
           it == CHOOSE g : g = Eqn(g)
<1>1. MaxHops \in Nat BY ScenarioAssumption
<1>2. b \in V /\ F \in [1 .. MaxHops -> [V -> V]]
  <2>1. \A v \in V : Further(v) \in V BY FurtherFacts
  <2>2. [v \in V |-> Further(v)] \in [V -> V]
    <3> HIDE DEF V
    <3> QED BY <2>1
  <2>3. b \in V OBVIOUS
  <2> HIDE DEF V, b
  <2> QED BY <2>2, <2>3
<1>3. PICK f \in [0 .. MaxHops -> V] : f[0] = b /\ \A k \in 1 .. MaxHops : f[k] = F[k][f[k - 1]]
  <2> HIDE DEF V, b, F
  <2>1. Steps(MaxHops, V, b, F) BY <1>1, <1>2 DEF Steps
  <2> QED BY <2>1, StepByStep DEF Stepwise
<1>4. \A k \in 1 .. MaxHops : f[k] = Further(f[k - 1])
  <2> SUFFICES ASSUME NEW k \in 1 .. MaxHops PROVE f[k] = Further(f[k - 1])
    OBVIOUS
  <2>1. k - 1 \in 0 .. MaxHops BY <1>1
  <2>2. f[k - 1] \in V
    <3> HIDE DEF V
    <3> QED BY <1>3, <2>1
  <2>3. F[k][f[k - 1]] = Further(f[k - 1])
    <3> HIDE DEF V
    <3> QED BY <2>2
  <2> QED BY <1>3, <2>3
<1>5. f = Eqn(f)
  <2> HIDE DEF b, V
  <2>1. \A h \in 0 .. MaxHops : f[h] = IF h = 0 THEN b ELSE Further(f[h - 1])
    <3> SUFFICES ASSUME NEW h \in 0 .. MaxHops, h # 0 PROVE f[h] = Further(f[h - 1])
      BY <1>3
    <3>1. h \in 1 .. MaxHops BY <1>1
    <3> QED BY <1>4, <3>1
  <2>2. f = [h \in 0 .. MaxHops |-> f[h]] BY <1>3
  <2> QED BY <2>1, <2>2
<1>6. it = Eqn(it) BY <1>5
<1>7. Losses = it BY DEF Losses
<1> HIDE DEF it
<1>8. \A h \in 0 .. MaxHops : it[h] = IF h = 0 THEN b ELSE Further(it[h - 1]) BY <1>6
<1> DEFINE S == {h \in Nat : h <= MaxHops => it[h] \in V}
<1>9. S = Nat
  <2> HIDE DEF V, b
  <2>1. 0 \in S BY <1>1, <1>2, <1>8
  <2>2. ASSUME NEW n \in Nat, n \in S PROVE n + 1 \in S
    <3> SUFFICES ASSUME n + 1 <= MaxHops PROVE it[n + 1] \in V
      OBVIOUS
    <3>1. n + 1 \in 0 .. MaxHops /\ n + 1 # 0 /\ (n + 1) - 1 = n BY <1>1
    <3>2. it[n + 1] = Further(it[n]) BY <1>8, <3>1
    <3>3. it[n] \in V BY <1>1, <2>2
    <3> QED BY <3>2, <3>3, FurtherFacts DEF V
  <2> HIDE DEF S
  <2>3. Nat \subseteq S BY <2>1, <2>2, Induction
  <2> QED BY <2>3 DEF S
<1>10. it \in [0 .. MaxHops -> V]
  <2> HIDE DEF V, b
  <2>1. \A h \in 0 .. MaxHops : h \in S BY <1>9
  <2>2. \A h \in 0 .. MaxHops : it[h] \in V BY <1>1, <2>1
  <2>3. it = [h \in 0 .. MaxHops |-> it[h]] BY <1>6
  <2> QED BY <2>2, <2>3
<1>11. \A h \in 1 .. MaxHops : it[h] = Further(it[h - 1])
  <2> HIDE DEF b
  <2>1. \A h \in 1 .. MaxHops : h \in 0 .. MaxHops /\ h # 0 BY <1>1
  <2> QED BY <1>8, <2>1
<1>12. it[0] = b
  <2>1. 0 \in 0 .. MaxHops BY <1>1
  <2> HIDE DEF b
  <2> QED BY <1>8, <2>1
<1> QED BY <1>7, <1>10, <1>11, <1>12

(* What one more link adds to a path.                                      *)
Path == Seq(Effective)
LEMMA LossOfFacts ==
    ASSUME Weighed
    PROVE  /\ LossOf(<<>>) = 0
           /\ \A p \in Path : LossOf(p) \in Nat
           /\ \A p \in Path : \A i \in Effective : LossOf(Append(p, i)) = LossOf(p) + loss[i]
<1> DEFINE Eqn(p, g) == [k \in 0 .. Len(p) |-> IF k = 0 THEN 0 ELSE g[k - 1] + loss[p[k]]]
           Upto(p) == CHOOSE g : g = Eqn(p, g)
<1>1. \A p : LossOf(p) = Upto(p)[Len(p)] BY DEF LossOf
<1>2. ASSUME NEW p \in Path
      PROVE  /\ Upto(p)[0] = 0
             /\ \A k \in 0 .. Len(p) : Upto(p)[k] \in Nat
             /\ \A k \in 1 .. Len(p) : Upto(p)[k] = Upto(p)[k - 1] + loss[p[k]]
  <2> DEFINE N == Len(p)
             F == [k \in 1 .. N |-> [v \in Nat |-> v + loss[p[k]]]]
  <2>1. N \in Nat /\ \A k \in 1 .. N : p[k] \in Effective BY DEF Path
  <2>2. \A k \in 1 .. N : loss[p[k]] \in Nat BY <2>1, LinkFacts
  <2>3. F \in [1 .. N -> [Nat -> Nat]] BY <2>2
  <2>4. PICK f \in [0 .. N -> Nat] : f[0] = 0 /\ \A k \in 1 .. N : f[k] = F[k][f[k - 1]]
    <3> HIDE DEF N, F
    <3>1. Steps(N, Nat, 0, F) BY <2>1, <2>3 DEF Steps
    <3> QED BY <3>1, StepByStep DEF Stepwise
  <2>5. \A k \in 1 .. N : f[k] = f[k - 1] + loss[p[k]]
    <3> SUFFICES ASSUME NEW k \in 1 .. N PROVE f[k] = f[k - 1] + loss[p[k]]
      OBVIOUS
    <3> HIDE DEF N
    <3>1. k - 1 \in 0 .. N BY <2>1
    <3>2. f[k - 1] \in Nat BY <2>4, <3>1
    <3> QED BY <2>4, <3>2
  <2>6. f = Eqn(p, f)
    <3> HIDE DEF F
    <3>1. \A k \in 0 .. N : f[k] = IF k = 0 THEN 0 ELSE f[k - 1] + loss[p[k]]
      <4> SUFFICES ASSUME NEW k \in 0 .. N, k # 0 PROVE f[k] = f[k - 1] + loss[p[k]]
        BY <2>4
      <4>1. k \in 1 .. N BY <2>1
      <4> QED BY <2>5, <4>1
    <3>2. f = [k \in 0 .. N |-> f[k]] BY <2>4
    <3> QED BY <3>1, <3>2
  <2>7. Upto(p) = Eqn(p, Upto(p)) BY <2>6
  <2> HIDE DEF Upto
  <2>8. \A k \in 0 .. N : Upto(p)[k] = IF k = 0 THEN 0 ELSE Upto(p)[k - 1] + loss[p[k]]
    BY <2>7
  <2>9. Upto(p)[0] = 0 BY <2>1, <2>8
  <2>10. \A k \in 1 .. N : Upto(p)[k] = Upto(p)[k - 1] + loss[p[k]]
    <3> HIDE DEF N
    <3>1. \A k \in 1 .. N : k \in 0 .. N /\ k # 0 BY <2>1
    <3> QED BY <2>8, <3>1
  <2> DEFINE S == {k \in Nat : k <= N => Upto(p)[k] \in Nat}
  <2>11. Nat \subseteq S
    <3> HIDE DEF N
    <3>1. 0 \in S BY <2>9
    <3>2. ASSUME NEW k \in Nat, k \in S PROVE k + 1 \in S
      <4> SUFFICES ASSUME k + 1 <= N PROVE Upto(p)[k + 1] \in Nat
        OBVIOUS
      <4>1. k + 1 \in 1 .. N /\ (k + 1) - 1 = k /\ k <= N BY <2>1
      <4>2. Upto(p)[k + 1] = Upto(p)[k] + loss[p[k + 1]] BY <2>10, <4>1
      <4>3. Upto(p)[k] \in Nat /\ loss[p[k + 1]] \in Nat BY <2>2, <3>2, <4>1
      <4> QED BY <4>2, <4>3
    <3> HIDE DEF S
    <3> QED BY <3>1, <3>2, Induction
  <2>12. \A k \in 0 .. N : Upto(p)[k] \in Nat
    <3> HIDE DEF N
    <3> QED BY <2>1, <2>11
  <2> QED BY <2>9, <2>10, <2>12
<1> HIDE DEF Upto
<1>3. LossOf(<<>>) = 0
  <2>1. <<>> \in Path /\ Len(<<>>) = 0 BY DEF Path
  <2> QED BY <1>1, <1>2, <2>1
<1>4. \A p \in Path : LossOf(p) \in Nat
  <2> SUFFICES ASSUME NEW p \in Path PROVE Upto(p)[Len(p)] \in Nat
    BY <1>1
  <2>1. Len(p) \in 0 .. Len(p) BY DEF Path
  <2> QED BY <1>2, <2>1
<1>5. ASSUME NEW p \in Path, NEW i \in Effective
      PROVE  LossOf(Append(p, i)) = LossOf(p) + loss[i]
  <2> DEFINE r == Append(p, i)
             N == Len(p)
             S == {k \in Nat : k <= N => Upto(r)[k] = Upto(p)[k]}
  <2>1. /\ r \in Path /\ Len(r) = N + 1 /\ N \in Nat /\ r[N + 1] = i
        /\ \A k \in 1 .. N : r[k] = p[k]
    BY DEF Path
  <2> HIDE DEF r, N
  <2>2. 0 \in S BY <1>2, <2>1
  <2>3. ASSUME NEW k \in Nat, k \in S PROVE k + 1 \in S
    <3> SUFFICES ASSUME k + 1 <= N PROVE Upto(r)[k + 1] = Upto(p)[k + 1]
      OBVIOUS
    <3>1. k + 1 \in 1 .. N /\ k + 1 \in 1 .. N + 1 /\ (k + 1) - 1 = k /\ k <= N BY <2>1
    <3>2. Upto(p)[k + 1] = Upto(p)[k] + loss[p[k + 1]] BY <1>2, <3>1 DEF N
    <3>3. Upto(r)[k + 1] = Upto(r)[k] + loss[r[k + 1]] BY <1>2, <2>1, <3>1
    <3> QED BY <2>1, <2>3, <3>1, <3>2, <3>3
  <2>4. Upto(r)[N] = Upto(p)[N]
    <3> HIDE DEF S
    <3>1. Nat \subseteq S BY <2>2, <2>3, Induction
    <3> QED BY <2>1, <3>1 DEF S
  <2>5. Upto(r)[N + 1] = Upto(r)[N] + loss[i]
    <3>1. N + 1 \in 1 .. N + 1 /\ (N + 1) - 1 = N BY <2>1
    <3> QED BY <1>2, <2>1, <3>1
  <2> QED BY <1>1, <2>1, <2>4, <2>5 DEF r, N
<1> QED BY <1>3, <1>4, <1>5

(***************************************************************************)
(* The search.                                                             *)
(***************************************************************************)
Entry == [at : Node, loss : Nat, path : Path]
Hops(x) == Len(x.path)

(* An entry is a walk from the shock and what it loses.                    *)
Walked(x) ==
    /\ x \in Entry /\ Hops(x) <= MaxHops
    /\ x.loss = LossOf(x.path) /\ Leads(x.path, x.at)
    /\ x.loss \in Losses[Hops(x)][x.at]
Walks == {x \in Entry : Walked(x)}

Walking ==
    /\ Weighed
    /\ best \in [Node -> Walks \cup {NoPath}]
    /\ \A n \in Node : best[n] # NoPath => best[n].at = n
    /\ frontier \in Seq(Walks)
    /\ todo \subseteq Effective
    /\ todo # {} => /\ hand \in Walks /\ Hops(hand) < MaxHops
                    /\ \A i \in todo : Links[i][1] = hand.at
    /\ best[Shock] = NoPath => frontier = <<>> /\ todo = {}

(* The queue holds walks of k links, and then walks of one more.           *)
Level(k) ==
    /\ todo # {} => Hops(hand) = k
    /\ \A j \in DOMAIN frontier : Hops(frontier[j]) \in {k, k + 1}
    /\ \A j, l \in DOMAIN frontier : j < l => Hops(frontier[j]) <= Hops(frontier[l])

(* Where walks of at most k links end, nothing loses more than they do.    *)
Reached(k) ==
    \A n \in Node : \A l \in Losses[k][n] : best[n] # NoPath /\ best[n].loss <= l

(* The target of link i loses no more than a walk of loss c that goes on   *)
(* along i, or one of at most h links that loses no more than c will.      *)
Below(i, c) == best[Links[i][2]] # NoPath /\ best[Links[i][2]].loss <= c + loss[i]
Owed(i, c, h) ==
    \/ \E j \in DOMAIN frontier :
          frontier[j].at = Links[i][1] /\ frontier[j].loss <= c /\ Hops(frontier[j]) <= h
    \/ i \in todo /\ hand.loss <= c /\ Hops(hand) <= h
Settled(i, c, h) == Below(i, c) \/ Owed(i, c, h)

(* So it is of all walks of k links, and of the one each entity has.       *)
Oldest(k) ==
    k < MaxHops => \A i \in Effective : \A l \in Losses[k][Links[i][1]] : Settled(i, l, k)
Newest(k) ==
    k < MaxHops => \A i \in Effective :
        best[Links[i][1]] # NoPath => Settled(i, best[Links[i][1]].loss, k + 1)

Search(k) == Level(k) /\ Reached(k) /\ Oldest(k) /\ Newest(k)
Searching == best[Shock] # NoPath => \E k \in 0 .. MaxHops : Search(k)

LEMMA EntryIsNotNoPath == NoPath \notin Entry
<1> SUFFICES ASSUME NEW x \in Entry PROVE x \in [at : Node, loss : Nat, path : Seq(DOMAIN Links)]
  BY ScenarioAssumption
<1>1. Effective \subseteq DOMAIN Links BY DEF Effective
<1>2. x.path \in Seq(DOMAIN Links) BY <1>1 DEF Entry, Path
<1> QED BY <1>2 DEF Entry

LEMMA SameWalks ==
    ASSUME loss' = loss
    PROVE  /\ Weighed' <=> Weighed
           /\ Effective' = Effective /\ Path' = Path /\ Entry' = Entry /\ Losses' = Losses
           /\ Walks' = Walks
<1>1. Effective' = Effective BY DEF Effective
<1>2. Weighed' <=> Weighed BY DEF Weighed
<1>3. Path' = Path BY <1>1, Zenon DEF Path
<1>4. Entry' = Entry BY <1>3, Zenon DEF Entry
<1>5. Losses' = Losses BY DEF Losses, Further, Effective
<1>6. ASSUME NEW x PROVE Walked(x)' <=> Walked(x)
  <2>1. LossOf(x.path)' = LossOf(x.path) BY DEF LossOf
  <2>2. Leads(x.path, x.at)' <=> Leads(x.path, x.at) BY <1>1, Zenon DEF Leads
  <2>3. x.loss \in (Losses[Hops(x)][x.at])' <=> x.loss \in Losses[Hops(x)][x.at]
    BY <1>5, Zenon DEF Hops
  <2> QED BY <1>4, <2>1, <2>2, <2>3, Zenon DEF Walked, Hops
<1>7. Walks' = Walks BY <1>4, <1>6, Zenon DEF Walks
<1> QED BY <1>1, <1>2, <1>3, <1>4, <1>5, <1>7, Zenon

LEMMA WalkFacts ==
    \A x \in Walks : x \in Entry /\ Walked(x) /\ x # NoPath
BY EntryIsNotNoPath DEF Walks

LEMMA LossesTyped ==
    ASSUME Weighed
    PROVE  \A h \in 0 .. MaxHops : \A n \in Node : Losses[h][n] \in SUBSET Nat
<1>1. Losses \in [0 .. MaxHops -> [Node -> SUBSET Nat]] BY LossesFacts
<1> QED BY <1>1

(* The walks of one more link.                                             *)
LEMMA LossesNext ==
    ASSUME Weighed, NEW h \in Nat, h < MaxHops
    PROVE  /\ \A n \in Node : Losses[h][n] \subseteq Losses[h + 1][n]
           /\ \A n \in Node : \A m \in Losses[h + 1][n] :
                \/ m \in Losses[h][n]
                \/ \E i \in Effective : Links[i][2] = n /\
                      \E l \in Losses[h][Links[i][1]] : m = l + loss[i]
           /\ \A i \in Effective : \A l \in Losses[h][Links[i][1]] :
                l + loss[i] \in Losses[h + 1][Links[i][2]]
<1>0. MaxHops \in Nat BY ScenarioAssumption
<1>1. h \in 0 .. MaxHops /\ h + 1 \in 1 .. MaxHops /\ (h + 1) - 1 = h BY <1>0
<1>2. Losses[h] \in [Node -> SUBSET Nat] BY <1>1, LossesFacts
<1>3. Losses[h + 1] = Further(Losses[h]) BY <1>1, LossesFacts
<1>4. PICK v : v = Losses[h] /\ v \in [Node -> SUBSET Nat] BY <1>2
<1>5. Losses[h + 1] = Further(v) BY <1>3, <1>4
<1>6. \A n \in Node : v[n] \subseteq Further(v)[n] BY <1>4, FurtherFacts
<1>7. \A n \in Node : \A m \in Further(v)[n] :
        \/ m \in v[n]
        \/ \E i \in Effective : Links[i][2] = n /\ \E l \in v[Links[i][1]] : m = l + loss[i]
  BY <1>4, FurtherFacts
<1>8. \A i \in Effective : \A l \in v[Links[i][1]] : l + loss[i] \in Further(v)[Links[i][2]]
  BY <1>4, FurtherFacts
<1> QED BY <1>4, <1>5, <1>6, <1>7, <1>8

LEMMA LossesGrow ==
    ASSUME Weighed, NEW h \in 0 .. MaxHops, NEW n \in Node
    PROVE  Losses[h][n] \subseteq Losses[MaxHops][n]
<1> DEFINE S == {d \in Nat : h + d <= MaxHops => Losses[h][n] \subseteq Losses[h + d][n]}
<1>0. MaxHops \in Nat /\ h \in Nat /\ h <= MaxHops BY ScenarioAssumption
<1>1. 0 \in S
  <2>1. h + 0 = h BY <1>0
  <2> QED BY <2>1
<1>2. ASSUME NEW d \in Nat, d \in S PROVE d + 1 \in S
  <2> SUFFICES ASSUME h + (d + 1) <= MaxHops PROVE Losses[h][n] \subseteq Losses[h + (d + 1)][n]
    OBVIOUS
  <2>1. h + d \in Nat /\ h + d < MaxHops /\ (h + d) + 1 = h + (d + 1) BY <1>0
  <2>2. Losses[h + d][n] \subseteq Losses[h + (d + 1)][n] BY <2>1, LossesNext
  <2> QED BY <1>0, <1>2, <2>1, <2>2
<1>3. MaxHops - h \in S
  <2> HIDE DEF S
  <2> QED BY <1>0, <1>1, <1>2, Induction
<1>4. h + (MaxHops - h) = MaxHops BY <1>0
<1> QED BY <1>0, <1>3, <1>4

(* What the inner loop proposes is a walk of one more link.                *)
LEMMA CandidateWalks ==
    ASSUME Walking, NEW i \in todo
    PROVE  /\ Walked(Candidate(i)) /\ Candidate(i) \in Entry
           /\ Hops(Candidate(i)) = Hops(hand) + 1 /\ Hops(hand) \in Nat /\ hand.loss \in Nat
           /\ Candidate(i).at = Links[i][2] /\ Candidate(i).loss = hand.loss + loss[i]
           /\ i \in Effective /\ loss[i] \in Nat /\ Links[i][2] \in Node
<1> DEFINE p == hand.path
           r == Append(p, i)
<1>1. /\ Weighed /\ i \in Effective /\ Walked(hand) /\ Hops(hand) < MaxHops
      /\ Links[i][1] = hand.at
  BY WalkFacts DEF Walking
<1>2. loss[i] \in Nat /\ Links[i][2] \in Node BY <1>1, LinkFacts
<1>3. /\ hand.loss \in Nat /\ p \in Path /\ hand.loss = LossOf(p) /\ Leads(p, hand.at)
      /\ hand.loss \in Losses[Len(p)][hand.at] /\ Len(p) < MaxHops
  BY <1>1 DEF Walked, Entry, Hops
<1>4. r \in Path /\ Len(p) \in Nat /\ Len(r) = Len(p) + 1 BY <1>1, <1>3 DEF Path
<1>5. Candidate(i).at = Links[i][2] /\ Candidate(i).loss = hand.loss + loss[i]
      /\ Candidate(i).path = r /\ Candidate(i) \in Entry
  BY <1>2, <1>3, <1>4 DEF Candidate, Reach, Entry
<1>6. hand.loss + loss[i] = LossOf(r) BY <1>1, <1>3, LossOfFacts
<1>7. Leads(r, Links[i][2])
  <2>1. DOMAIN r = 1 .. Len(p) + 1 /\ DOMAIN p = 1 .. Len(p) /\ r[Len(p) + 1] = i
        /\ \A k \in 1 .. Len(p) : r[k] = p[k]
    BY <1>1, <1>3 DEF Path
  <2> HIDE DEF r
  <2>2. \A k \in 0 .. Len(p) : End(r, k) = End(p, k)
    <3> SUFFICES ASSUME NEW k \in 0 .. Len(p), k # 0 PROVE r[k] = p[k]
      BY DEF End
    <3>1. k \in 1 .. Len(p) BY <1>4
    <3> QED BY <2>1, <3>1
  <2>3. ASSUME NEW k \in DOMAIN r PROVE r[k] \in Effective /\ Links[r[k]][1] = End(r, k - 1)
    <3>1. k - 1 \in 0 .. Len(p) /\ k \in Nat BY <1>4, <2>1
    <3>2. End(r, k - 1) = End(p, k - 1) BY <2>2, <3>1
    <3>3. CASE k = Len(p) + 1
      <4>1. k - 1 = Len(p) BY <1>4, <3>3
      <4>2. End(p, Len(p)) = hand.at BY <1>3 DEF Leads
      <4> QED BY <1>1, <2>1, <3>2, <3>3, <4>1, <4>2
    <3>4. CASE k # Len(p) + 1
      <4>1. k \in DOMAIN p BY <1>4, <2>1, <3>4
      <4> QED BY <1>3, <2>1, <3>2, <4>1 DEF Leads
    <3> QED BY <3>3, <3>4
  <2>4. End(r, Len(r)) = Links[i][2]
    <3>1. Len(r) # 0 BY <1>4
    <3> QED BY <1>4, <2>1, <3>1 DEF End
  <2> QED BY <2>3, <2>4 DEF Leads
<1>8. hand.loss + loss[i] \in Losses[Len(r)][Links[i][2]]
  <2>1. \A l \in Losses[Len(p)][Links[i][1]] : l + loss[i] \in Losses[Len(p) + 1][Links[i][2]]
    BY <1>1, <1>3, <1>4, LossesNext
  <2> QED BY <1>1, <1>3, <1>4, <2>1
<1>9. Len(r) <= MaxHops BY <1>3, <1>4, ScenarioAssumption
<1> HIDE DEF p, r
<1>10. Walked(Candidate(i)) BY <1>5, <1>6, <1>7, <1>8, <1>9 DEF Walked, Hops
<1> QED BY <1>1, <1>2, <1>3, <1>4, <1>5, <1>10 DEF Hops, p

(* A shorter or stronger debt is a smaller one.                            *)
LEMMA SettledMore ==
    ASSUME Walking, NEW i \in Effective, NEW c \in Nat, NEW d \in Nat, NEW h \in Nat, NEW g \in Nat,
           c <= d, h <= g, Settled(i, c, h)
    PROVE  Settled(i, d, g)
<1>1. loss[i] \in Nat /\ Links[i][2] \in Node BY LinkFacts DEF Walking
<1>2. \A x \in Entry : x.loss \in Nat /\ Hops(x) \in Nat BY DEF Entry, Hops, Path
<1>3. CASE Below(i, c)
  <2>1. best[Links[i][2]] # NoPath /\ best[Links[i][2]].loss <= c + loss[i] BY <1>3 DEF Below
  <2>2. best[Links[i][2]].loss \in Nat BY <1>1, <1>2, <2>1, WalkFacts DEF Walking
  <2>3. best[Links[i][2]].loss <= d + loss[i] BY <1>1, <2>1, <2>2
  <2> QED BY <2>1, <2>3 DEF Below, Settled
<1>4. ASSUME NEW j \in DOMAIN frontier,
             frontier[j].at = Links[i][1] /\ frontier[j].loss <= c /\ Hops(frontier[j]) <= h
      PROVE  Owed(i, d, g)
  <2>1. PICK x : x = frontier[j] /\ x \in Entry BY <1>4, WalkFacts DEF Walking
  <2>2. x.loss <= d /\ Hops(x) <= g BY <1>2, <1>4, <2>1
  <2> QED BY <1>4, <2>1, <2>2 DEF Owed
<1>5. CASE i \in todo /\ hand.loss <= c /\ Hops(hand) <= h
  <2>1. PICK x : x = hand /\ x \in Entry BY <1>5, WalkFacts DEF Walking
  <2>2. x.loss <= d /\ Hops(x) <= g BY <1>2, <1>5, <2>1
  <2> QED BY <1>5, <2>1, <2>2 DEF Owed, Settled
<1> QED BY <1>3, <1>4, <1>5 DEF Settled, Owed

(* When the walks of k links are done, those of one more begin.            *)
LEMMA NextLevel ==
    ASSUME Walking, NEW k \in Nat, k < MaxHops, Search(k), todo = {},
           \A j \in DOMAIN frontier : Hops(frontier[j]) = k + 1
    PROVE  Search(k + 1)
<1>0. Weighed /\ MaxHops \in Nat BY ScenarioAssumption DEF Walking
<1>1. Level(k + 1)
  <2>1. \A j \in DOMAIN frontier : Hops(frontier[j]) \in {k + 1, (k + 1) + 1} OBVIOUS
  <2> QED BY <2>1 DEF Level
<1>2. \A i, c : ~ Owed(i, c, k)
  <2> SUFFICES ASSUME NEW j \in DOMAIN frontier, Hops(frontier[j]) <= k PROVE FALSE
    BY DEF Owed
  <2> QED OBVIOUS
<1>3. \A i \in Effective : \A l \in Losses[k][Links[i][1]] : Below(i, l)
  BY <1>2 DEF Search, Oldest, Settled
<1>4. Reached(k + 1)
  <2> SUFFICES ASSUME NEW n \in Node, NEW m \in Losses[k + 1][n]
               PROVE  best[n] # NoPath /\ best[n].loss <= m
    BY DEF Reached
  <2>1. CASE m \in Losses[k][n] BY <2>1 DEF Search, Reached
  <2>2. ASSUME NEW i \in Effective, NEW l \in Losses[k][Links[i][1]],
               Links[i][2] = n, m = l + loss[i]
        PROVE  best[n] # NoPath /\ best[n].loss <= m
    BY <1>3, <2>2 DEF Below
  <2> QED BY <1>0, <2>1, <2>2, LossesNext
<1>5. ASSUME NEW i \in Effective, best[Links[i][1]] # NoPath, k + 1 < MaxHops
      PROVE  /\ best[Links[i][1]].loss \in Nat
             /\ Settled(i, best[Links[i][1]].loss, k + 1)
             /\ Settled(i, best[Links[i][1]].loss, (k + 1) + 1)
  <2>1. Links[i][1] \in Node BY <1>0, LinkFacts
  <2>2. best[Links[i][1]].loss \in Nat BY <1>5, <2>1, WalkFacts DEF Walking, Entry
  <2>3. Settled(i, best[Links[i][1]].loss, k + 1) BY <1>5 DEF Search, Newest
  <2>4. PICK c \in Nat : c = best[Links[i][1]].loss BY <2>2
  <2>5. Settled(i, c, (k + 1) + 1)
    <3>1. k + 1 \in Nat /\ (k + 1) + 1 \in Nat /\ c <= c /\ k + 1 <= (k + 1) + 1 OBVIOUS
    <3>2. Settled(i, c, k + 1) BY <2>3, <2>4
    <3> QED BY <3>1, <3>2, SettledMore
  <2> QED BY <2>2, <2>3, <2>4, <2>5
<1>6. Oldest(k + 1)
  <2> SUFFICES ASSUME k + 1 < MaxHops, NEW i \in Effective, NEW l \in Losses[k + 1][Links[i][1]]
               PROVE  Settled(i, l, k + 1)
    BY DEF Oldest
  <2>1. Links[i][1] \in Node BY <1>0, LinkFacts
  <2>2. best[Links[i][1]] # NoPath /\ best[Links[i][1]].loss <= l BY <1>4, <2>1 DEF Reached
  <2>3. PICK c : c = best[Links[i][1]].loss OBVIOUS
  <2>4. c \in Nat /\ c <= l /\ Settled(i, c, k + 1) BY <1>5, <2>2, <2>3
  <2>5. l \in Nat /\ k + 1 \in Nat /\ k + 1 <= k + 1
    <3>1. k + 1 \in 0 .. MaxHops BY <1>0
    <3>2. Losses[k + 1][Links[i][1]] \in SUBSET Nat BY <1>0, <2>1, <3>1, LossesTyped
    <3> QED BY <3>2
  <2> QED BY <2>4, <2>5, SettledMore
<1>7. Newest(k + 1) BY <1>5 DEF Newest
<1> QED BY <1>1, <1>4, <1>6, <1>7 DEF Search

LEMMA InitWalks ==
    /\ ScenarioInit => Walking /\ Searching
    /\ Inert => Walking /\ Searching
<1>1. ASSUME ScenarioInit PROVE Walking /\ Searching
  <2>1. Weighed BY <1>1 DEF ScenarioInit, Weighed
  <2>2. /\ Start.at = Shock /\ Start.loss = 0 /\ Start.path = <<>> /\ Hops(Start) = 0
        /\ Start \in Entry
    <3>1. <<>> \in Path /\ Len(<<>>) = 0 BY DEF Path
    <3> QED BY <3>1, ScenarioAssumption DEF Start, Reach, Entry, Hops
  <2>3. Losses[0] = [n \in Node |-> IF n = Shock THEN {0} ELSE {}] BY <2>1, LossesFacts
  <2>4. Start \in Walks
    <3>1. LossOf(<<>>) = 0 BY <2>1, LossOfFacts
    <3>2. Leads(<<>>, Shock)
      <4>1. Len(<<>>) = 0 /\ DOMAIN <<>> = {} OBVIOUS
      <4> QED BY <4>1 DEF Leads, End
    <3>3. 0 \in Losses[0][Shock] BY <2>3, ScenarioAssumption
    <3> QED BY <2>2, <3>1, <3>2, <3>3, ScenarioAssumption DEF Walked, Walks
  <2> HIDE DEF Start
  <2>5. /\ best = [n \in Node |-> IF n = Shock THEN Start ELSE NoPath]
        /\ frontier = <<Start>> /\ todo = {}
    BY <1>1 DEF ScenarioInit
  <2>6. Start # NoPath BY <2>2, EntryIsNotNoPath
  <2>7. frontier \in Seq(Walks) /\ DOMAIN frontier = {1} /\ frontier[1] = Start
    BY <2>4, <2>5
  <2>8. Walking BY <2>1, <2>2, <2>4, <2>5, <2>6, <2>7, ScenarioAssumption DEF Walking
  <2>9. Level(0) BY <2>2, <2>5, <2>7 DEF Level
  <2>10. Reached(0) BY <2>2, <2>3, <2>5, <2>6 DEF Reached
  <2>11. \A i \in Effective : Links[i][1] = Shock => Owed(i, 0, 0) /\ Owed(i, 0, 1)
    <3>1. 1 \in DOMAIN frontier /\ frontier[1].loss <= 0 /\ Hops(frontier[1]) <= 0
          /\ Hops(frontier[1]) <= 1 /\ frontier[1].at = Shock
      BY <2>2, <2>7
    <3> QED BY <3>1 DEF Owed
  <2>12. \A i \in Effective : Links[i][1] \in Node BY <2>1, LinkFacts
  <2>13. Oldest(0) BY <2>3, <2>11, <2>12 DEF Oldest, Settled
  <2>14. Newest(0)
    <3> SUFFICES ASSUME NEW i \in Effective, best[Links[i][1]] # NoPath
                 PROVE  Settled(i, best[Links[i][1]].loss, 0 + 1)
      BY DEF Newest
    <3>1. Links[i][1] = Shock /\ best[Links[i][1]].loss = 0 BY <2>2, <2>5, <2>12
    <3> QED BY <2>11, <3>1 DEF Settled
  <2>15. 0 \in 0 .. MaxHops BY ScenarioAssumption
  <2> QED BY <2>8, <2>9, <2>10, <2>13, <2>14, <2>15 DEF Searching, Search
<1>2. ASSUME Inert PROVE Walking /\ Searching
  <2>1. Weighed BY <1>2 DEF Inert, Weighed
  <2>2. frontier \in Seq(Walks) /\ DOMAIN frontier = {} BY <1>2 DEF Inert
  <2>3. Walking BY <1>2, <2>1, <2>2, ScenarioAssumption DEF Walking, Inert
  <2> QED BY <1>2, <2>3, ScenarioAssumption DEF Inert, Searching
<1> QED BY <1>1, <1>2

(* What one turn of the inner loop does.                                   *)
LEMMA FollowFacts ==
    ASSUME Walking, NEW i \in todo, Follow(i)
    PROVE  \E y \in Walks :
              /\ Hops(y) = Hops(hand) + 1 /\ y.at = Links[i][2]
              /\ y.loss = hand.loss + loss[i] /\ y # NoPath /\ y.at \in Node
              /\ \/ /\ best[y.at] # NoPath /\ best[y.at].loss <= y.loss
                    /\ best' = best /\ frontier' = frontier
                 \/ /\ best[y.at] # NoPath => best[y.at].loss > y.loss
                    /\ best' = [best EXCEPT ![y.at] = y] /\ frontier' = Append(frontier, y)
<1>1. PICK y : y = Candidate(i) OBVIOUS
<1>2. /\ y \in Entry /\ y \in Walks /\ Hops(y) = Hops(hand) + 1 /\ y.at = Links[i][2]
      /\ y.loss = hand.loss + loss[i] /\ y.at \in Node
  BY <1>1, CandidateWalks DEF Walks
<1>3. y # NoPath BY <1>2, EntryIsNotNoPath
<1>4. best[y.at] # NoPath => best[y.at] \in Entry BY <1>2, WalkFacts DEF Walking
<1>5. best[y.at] # NoPath => best[y.at].loss \in Nat /\ y.loss \in Nat BY <1>2, <1>4 DEF Entry
<1>6. \/ Beaten(y) /\ best' = best /\ frontier' = frontier
      \/ /\ ~ Beaten(y)
         /\ best' = [best EXCEPT ![y.at] = y] /\ frontier' = Append(frontier, y)
  BY <1>1, <1>2 DEF Follow, Queued
<1> QED BY <1>2, <1>3, <1>5, <1>6 DEF Beaten

LEMMA FollowWalks ==
    ASSUME Walking, NEW i \in todo, Follow(i)
    PROVE  Walking'
<1>1. loss' = loss /\ hand' = hand /\ todo' = todo \ {i} BY DEF Follow
<1>2. PICK y \in Walks :
        /\ y # NoPath /\ y.at \in Node
        /\ \/ best' = best /\ frontier' = frontier
           \/ best' = [best EXCEPT ![y.at] = y] /\ frontier' = Append(frontier, y)
  BY FollowFacts
<1>3. Weighed' /\ Effective' = Effective /\ Walks' = Walks
  BY <1>1, SameWalks DEF Walking
<1>4. best' \in [Node -> Walks \cup {NoPath}] BY <1>2 DEF Walking
<1>5. \A n \in Node : best'[n] = best[n] \/ (n = y.at /\ best'[n] = y) BY <1>2 DEF Walking
<1>6. \A n \in Node : best'[n] # NoPath => best'[n].at = n BY <1>5 DEF Walking
<1>7. frontier' \in Seq(Walks) BY <1>2 DEF Walking
<1>8. /\ todo' \subseteq Effective
      /\ todo' # {} => /\ hand' \in Walks /\ Hops(hand') < MaxHops
                       /\ \A l \in todo' : Links[l][1] = hand'.at
  BY <1>1 DEF Walking
<1>9. best'[Shock] # NoPath
  <2>1. best[Shock] # NoPath BY DEF Walking
  <2> QED BY <1>2, <1>5, <2>1, ScenarioAssumption
<1> QED BY <1>3, <1>4, <1>6, <1>7, <1>8, <1>9 DEF Walking, Hops

(* A turn of the inner loop settles its link, and what it queues is owed.  *)
LEMMA FollowSearches ==
    ASSUME Walking, NEW k \in 0 .. MaxHops, Search(k), NEW i \in todo, Follow(i)
    PROVE  Search(k)'
<1>1. loss' = loss /\ hand' = hand /\ todo' = todo \ {i} BY DEF Follow
<1>2. PICK y \in Walks :
              /\ Hops(y) = Hops(hand) + 1 /\ y.at = Links[i][2]
              /\ y.loss = hand.loss + loss[i] /\ y # NoPath /\ y.at \in Node
              /\ \/ /\ best[y.at] # NoPath /\ best[y.at].loss <= y.loss
                    /\ best' = best /\ frontier' = frontier
                 \/ /\ best[y.at] # NoPath => best[y.at].loss > y.loss
                    /\ best' = [best EXCEPT ![y.at] = y] /\ frontier' = Append(frontier, y)
  BY FollowFacts
<1>3. Effective' = Effective /\ Losses' = Losses BY <1>1, SameWalks
<1>4. \A x \in Walks : x.loss \in Nat /\ Hops(x) \in Nat /\ x # NoPath
  BY WalkFacts DEF Entry, Hops, Path
<1>5. hand \in Walks /\ Hops(hand) = k /\ k < MaxHops /\ k \in Nat
  BY <1>4 DEF Walking, Search, Level
<1>6. \A l \in Effective : Links[l][1] \in Node /\ Links[l][2] \in Node /\ loss[l] \in Nat
  BY LinkFacts DEF Walking
<1>7. ASSUME NEW n \in Node, best[n] # NoPath
      PROVE  best'[n] # NoPath /\ best'[n].loss \in Nat /\ best'[n].loss <= best[n].loss
  <2>1. best[n] \in Walks /\ best[n].loss \in Nat BY <1>4, <1>7 DEF Walking
  <2>2. best'[n] = best[n] \/ (n = y.at /\ best'[n] = y /\ y.loss < best[n].loss)
    BY <1>2, <1>4, <1>7, <2>1 DEF Walking
  <2> QED BY <1>4, <1>7, <2>1, <2>2
<1>8. /\ best'[y.at] # NoPath /\ best'[y.at].loss <= y.loss
  BY <1>2, <1>4 DEF Walking
<1>9. /\ DOMAIN frontier \subseteq DOMAIN frontier'
      /\ \A j \in DOMAIN frontier : frontier'[j] = frontier[j]
  BY <1>2, SMTT(30) DEF Walking
<1>10. ASSUME NEW l \in Effective, NEW c \in Nat, NEW h \in Nat, Settled(l, c, h)
       PROVE  Settled(l, c, h)'
  <2>1. CASE Below(l, c)
    <3>1. PICK n \in Node : n = Links[l][2] BY <1>6
    <3>2. best[n] # NoPath /\ best[n].loss <= c + loss[l] BY <2>1, <3>1 DEF Below
    <3>3. best[n].loss \in Nat BY <1>4, <3>2 DEF Walking
    <3>4. best'[n] # NoPath /\ best'[n].loss <= c + loss[l] BY <1>6, <1>7, <3>2, <3>3
    <3> QED BY <1>1, <3>1, <3>4 DEF Below, Settled
  <2>2. ASSUME NEW j \in DOMAIN frontier, frontier[j].at = Links[l][1],
               frontier[j].loss <= c, Hops(frontier[j]) <= h
        PROVE  Owed(l, c, h)'
    <3>1. j \in DOMAIN frontier' /\ frontier'[j] = frontier[j] BY <1>9
    <3>2. frontier'[j].at = Links[l][1] /\ frontier'[j].loss <= c /\ Len(frontier'[j].path) <= h
      BY <2>2, <3>1 DEF Hops
    <3> QED BY <3>1, <3>2 DEF Owed, Hops
  <2>3. CASE l \in todo /\ hand.loss <= c /\ Hops(hand) <= h /\ l # i
    <3>1. l \in todo' BY <1>1, <2>3
    <3>2. Owed(l, c, h)' BY <1>1, <2>3, <3>1 DEF Owed, Hops
    <3> QED BY <3>2 DEF Settled
  <2>4. CASE l = i /\ hand.loss <= c
    <3>1. hand.loss \in Nat /\ best'[y.at].loss <= c + loss[i]
      <4>1. hand.loss \in Nat /\ y.loss \in Nat /\ loss[i] \in Nat /\ y.loss <= c + loss[i]
        BY <1>2, <1>4, <1>5, <1>6, <2>4
      <4>2. best'[y.at].loss \in Nat BY <1>2, <1>4, <1>7 DEF Walking
      <4> QED BY <1>8, <4>1, <4>2
    <3> QED BY <1>1, <1>2, <1>8, <2>4, <3>1 DEF Below, Settled
  <2>5. ASSUME Owed(l, c, h) PROVE Settled(l, c, h)'
    <3>1. CASE l \in todo /\ hand.loss <= c /\ Hops(hand) <= h BY <2>3, <2>4, <3>1
    <3>2. CASE \E j \in DOMAIN frontier :
              frontier[j].at = Links[l][1] /\ frontier[j].loss <= c /\ Hops(frontier[j]) <= h
      <4>1. Owed(l, c, h)' BY <2>2, <3>2
      <4> QED BY <4>1 DEF Settled
    <3> QED BY <2>5, <3>1, <3>2 DEF Owed
  <2> QED BY <1>10, <2>1, <2>5 DEF Settled
<1>11. Level(k)'
  <2>1. \A j \in DOMAIN frontier' :
          \/ j \in DOMAIN frontier /\ frontier'[j] = frontier[j]
          \/ /\ Hops(frontier'[j]) = k + 1
             /\ \A l \in DOMAIN frontier' : l <= j
    <3>1. CASE frontier' = frontier BY <3>1
    <3>2. CASE frontier' = Append(frontier, y)
      <4>1. PICK m \in Nat : m = Len(frontier) BY DEF Walking
      <4>2. DOMAIN frontier = 1 .. m /\ DOMAIN frontier' = 1 .. m + 1 /\ frontier'[m + 1] = y
        BY <3>2, <4>1 DEF Walking
      <4>3. ASSUME NEW j \in DOMAIN frontier', j \notin DOMAIN frontier
            PROVE  Hops(frontier'[j]) = k + 1 /\ \A l \in DOMAIN frontier' : l <= j
        <5>1. j = m + 1 BY <4>1, <4>2, <4>3
        <5>2. Hops(frontier'[j]) = k + 1 BY <1>2, <1>5, <4>2, <5>1
        <5>3. \A l \in DOMAIN frontier' : l <= j BY <4>1, <4>2, <5>1
        <5> QED BY <5>2, <5>3
      <4> QED BY <1>9, <4>3
    <3> QED BY <1>2, <3>1, <3>2
  <2>2. \A j \in DOMAIN frontier : Hops(frontier[j]) \in {k, k + 1} BY DEF Search, Level
  <2>3. \A j \in DOMAIN frontier' : Hops(frontier'[j]) \in {k, k + 1} BY <2>1, <2>2
  <2>4. ASSUME NEW j \in DOMAIN frontier', NEW l \in DOMAIN frontier', j < l
        PROVE  Hops(frontier'[j]) <= Hops(frontier'[l])
    <3>0. frontier' \in Seq(Walks) BY <1>2, SMTT(30) DEF Walking
    <3>1. CASE l \in DOMAIN frontier /\ frontier'[l] = frontier[l]
      <4>1. j \in DOMAIN frontier /\ frontier'[j] = frontier[j]
        <5>1. j \in Nat \ {0} BY <3>0
        <5>2. PICK m \in Nat : DOMAIN frontier = 1 .. m BY DEF Walking
        <5>3. j \in DOMAIN frontier BY <2>4, <3>1, <5>1, <5>2
        <5> QED BY <1>9, <5>3
      <4> QED BY <2>4, <3>1, <4>1 DEF Search, Level
    <3>2. CASE Hops(frontier'[l]) = k + 1 BY <1>5, <2>3, <3>2
    <3> QED BY <2>1, <3>1, <3>2
  <2>5. todo' # {} => Hops(hand') = k BY <1>1, <1>5
  <2> QED BY <2>3, <2>4, <2>5 DEF Level, Hops
<1>12. Reached(k)'
  <2> SUFFICES ASSUME NEW n \in Node, NEW l \in Losses[k][n]
               PROVE  best'[n] # NoPath /\ best'[n].loss <= l
    BY <1>3 DEF Reached
  <2>1. best[n] # NoPath /\ best[n].loss <= l BY DEF Search, Reached
  <2>2. best[n].loss \in Nat BY <1>4, <2>1 DEF Walking
  <2>3. l \in Nat BY LossesTyped DEF Walking
  <2> QED BY <1>7, <2>1, <2>2, <2>3
<1>13. Oldest(k)'
  <2> SUFFICES ASSUME NEW l \in Effective, NEW c \in Losses[k][Links[l][1]]
               PROVE  Settled(l, c, k)'
    BY <1>3 DEF Oldest
  <2>1. c \in Nat BY <1>6, LossesTyped DEF Walking
  <2>2. Settled(l, c, k) BY <1>5 DEF Search, Oldest
  <2> QED BY <1>5, <1>10, <2>1, <2>2
<1>14. Newest(k)'
  <2> SUFFICES ASSUME NEW l \in Effective, NEW n \in Node, n = Links[l][1], best'[n] # NoPath,
                      NEW c, c = best'[n].loss
               PROVE  Settled(l, c, k + 1)'
    BY <1>3, <1>6 DEF Newest
  <2>1. CASE best'[n] = best[n]
    <3>1. c \in Nat /\ k + 1 \in Nat BY <1>4, <1>5, <2>1 DEF Walking
    <3>2. Settled(l, c, k + 1) BY <1>5, <2>1 DEF Search, Newest
    <3> QED BY <1>10, <3>1, <3>2
  <2>2. CASE best'[n] # best[n]
    <3>1. n = y.at /\ best'[n] = y /\ frontier' = Append(frontier, y) BY <1>2, <2>2 DEF Walking
    <3>2. PICK j \in DOMAIN frontier' : frontier'[j] = y
      <4>1. Len(frontier) + 1 \in DOMAIN frontier' /\ frontier'[Len(frontier) + 1] = y
        BY <3>1 DEF Walking
      <4> QED BY <4>1
    <3>3. y.at = Links[l][1] /\ y.loss <= c /\ Hops(y) <= k + 1 BY <1>2, <1>4, <1>5, <3>1
    <3> QED BY <3>2, <3>3 DEF Settled, Owed, Hops
  <2> QED BY <2>1, <2>2
<1> QED BY <1>11, <1>12, <1>13, <1>14 DEF Search

(* What taking an entry from the queue does.                               *)
LEMMA PopFacts ==
    ASSUME Walking, Pop
    PROVE  \E x \in Walks : \E m \in Nat :
              /\ DOMAIN frontier = 1 .. m + 1 /\ frontier[1] = x
              /\ frontier' \in Seq(Walks) /\ DOMAIN frontier' = 1 .. m
              /\ \A j \in 1 .. m : frontier'[j] = frontier[j + 1]
              /\ todo = {} /\ hand' = x /\ loss' = loss /\ best' = best
              /\ todo' = IF Hops(x) >= MaxHops THEN {} ELSE Leaving(x.at)
<1>1. frontier \in Seq(Walks) /\ frontier # <<>> BY DEF Walking, Pop
<1>2. PICK x : x = Head(frontier) OBVIOUS
<1>3. x \in Walks /\ frontier[1] = x BY <1>1, <1>2
<1>4. PICK m \in Nat : m = Len(frontier) - 1 BY <1>1
<1>5. /\ DOMAIN frontier = 1 .. m + 1 /\ Tail(frontier) \in Seq(Walks)
      /\ DOMAIN Tail(frontier) = 1 .. m
      /\ \A j \in 1 .. m : Tail(frontier)[j] = frontier[j + 1]
  BY <1>1, <1>4
<1>6. hand' = x /\ frontier' = Tail(frontier) BY <1>2 DEF Pop
<1>7. todo' = IF Len(x.path) >= MaxHops THEN {} ELSE Leaving(x.at) BY <1>6, Zenon DEF Pop
<1> QED BY <1>3, <1>5, <1>6, <1>7 DEF Pop, Hops

LEMMA PopWalks ==
    ASSUME Walking, Pop
    PROVE  Walking'
<1>1. PICK x \in Walks : /\ frontier' \in Seq(Walks) /\ hand' = x /\ loss' = loss /\ best' = best
                         /\ todo' = IF Hops(x) >= MaxHops THEN {} ELSE Leaving(x.at)
  BY PopFacts
<1>2. Weighed' /\ Effective' = Effective /\ Walks' = Walks BY <1>1, SameWalks DEF Walking
<1>3. Hops(x) \in Nat /\ MaxHops \in Nat
  BY WalkFacts, ScenarioAssumption DEF Entry, Hops, Path
<1>4. /\ todo' \subseteq Effective
      /\ todo' # {} => /\ hand' \in Walks /\ Len(hand'.path) < MaxHops
                       /\ \A l \in todo' : Links[l][1] = hand'.at
  <2>1. CASE Hops(x) >= MaxHops BY <1>1, <2>1
  <2>2. CASE ~ (Hops(x) >= MaxHops)
    <3>1. todo' = Leaving(x.at) /\ Hops(x) < MaxHops BY <1>1, <1>3, <2>2
    <3> QED BY <1>1, <3>1 DEF Leaving, Hops
  <2> QED BY <2>1, <2>2
<1>5. best'[Shock] # NoPath BY <1>1 DEF Walking, Pop
<1> QED BY <1>1, <1>2, <1>4, <1>5 DEF Walking, Hops

(* Taking an entry from the queue turns what it owes into links to follow. *)
LEMMA PopAtLevel ==
    ASSUME Walking, NEW k \in 0 .. MaxHops, Search(k), Pop,
           Hops(Head(frontier)) = k
    PROVE  Search(k)'
<1>1. PICK x \in Walks, m \in Nat :
              /\ DOMAIN frontier = 1 .. m + 1 /\ frontier[1] = x
              /\ frontier' \in Seq(Walks) /\ DOMAIN frontier' = 1 .. m
              /\ \A j \in 1 .. m : frontier'[j] = frontier[j + 1]
              /\ todo = {} /\ hand' = x /\ loss' = loss /\ best' = best
              /\ todo' = IF Hops(x) >= MaxHops THEN {} ELSE Leaving(x.at)
  BY PopFacts
<1>2. Effective' = Effective /\ Losses' = Losses BY <1>1, SameWalks
<1>3. Hops(x) = k /\ k \in Nat /\ MaxHops \in Nat /\ k <= MaxHops
  <2>1. Head(frontier) = x BY <1>1 DEF Walking, Pop
  <2> QED BY <2>1, ScenarioAssumption
<1>4. Level(k)'
  <2>1. \A j \in 1 .. m : j + 1 \in DOMAIN frontier BY <1>1
  <2>2. \A j \in DOMAIN frontier : Hops(frontier[j]) \in {k, k + 1} BY DEF Search, Level
  <2>3. \A j \in DOMAIN frontier' : Hops(frontier'[j]) \in {k, k + 1} BY <1>1, <2>1, <2>2
  <2>4. ASSUME NEW j \in DOMAIN frontier', NEW l \in DOMAIN frontier', j < l
        PROVE  Hops(frontier'[j]) <= Hops(frontier'[l])
    <3>1. j + 1 \in DOMAIN frontier /\ l + 1 \in DOMAIN frontier /\ j + 1 < l + 1
      BY <1>1, <2>1, <2>4
    <3>2. Hops(frontier[j + 1]) <= Hops(frontier[l + 1]) BY <3>1 DEF Search, Level
    <3> QED BY <1>1, <3>2
  <2>5. Hops(hand') = k BY <1>1, <1>3
  <2> QED BY <2>3, <2>4, <2>5 DEF Level, Hops
<1>5. Reached(k)' BY <1>1, <1>2 DEF Search, Reached
<1>6. ASSUME k < MaxHops, NEW l \in Effective, NEW c, NEW h, Settled(l, c, h)
      PROVE  Settled(l, c, h)'
  <2>1. CASE Below(l, c) BY <1>1, <2>1 DEF Below, Settled
  <2>2. ASSUME NEW j \in DOMAIN frontier, frontier[j].at = Links[l][1],
               frontier[j].loss <= c, Hops(frontier[j]) <= h
        PROVE  Owed(l, c, h)'
    <3>1. CASE j = 1
      <4>1. todo' = Leaving(x.at) BY <1>1, <1>3, <1>6
      <4>2. l \in todo' BY <1>1, <2>2, <3>1, <4>1 DEF Leaving
      <4>3. hand'.loss <= c /\ Len(hand'.path) <= h BY <1>1, <2>2, <3>1 DEF Hops
      <4> QED BY <4>2, <4>3 DEF Owed, Hops
    <3>2. CASE j # 1
      <4>1. PICK q \in 1 .. m : j = q + 1
        <5>1. j - 1 \in 1 .. m /\ j = (j - 1) + 1 BY <1>1, <3>2
        <5> QED BY <5>1
      <4>2. q \in DOMAIN frontier' /\ frontier'[q] = frontier[j] BY <1>1, <4>1
      <4>3. frontier'[q].at = Links[l][1] /\ frontier'[q].loss <= c /\ Len(frontier'[q].path) <= h
        BY <2>2, <4>2 DEF Hops
      <4> QED BY <4>2, <4>3 DEF Owed, Hops
    <3> QED BY <3>1, <3>2
  <2>3. ASSUME Owed(l, c, h) PROVE Settled(l, c, h)'
    <3>1. \E j \in DOMAIN frontier :
              frontier[j].at = Links[l][1] /\ frontier[j].loss <= c /\ Hops(frontier[j]) <= h
      BY <1>1, <2>3 DEF Owed
    <3>2. Owed(l, c, h)' BY <2>2, <3>1
    <3> QED BY <3>2 DEF Settled
  <2> QED BY <1>6, <2>1, <2>3 DEF Settled
<1>7. Oldest(k)'
  <2> SUFFICES ASSUME k < MaxHops, NEW l \in Effective, NEW c \in Losses[k][Links[l][1]]
               PROVE  Settled(l, c, k)'
    BY <1>2 DEF Oldest
  <2>1. Settled(l, c, k) BY DEF Search, Oldest
  <2> QED BY <1>6, <2>1
<1>8. Newest(k)'
  <2> SUFFICES ASSUME k < MaxHops, NEW l \in Effective, NEW c, c = best[Links[l][1]].loss,
                      best[Links[l][1]] # NoPath
               PROVE  Settled(l, c, k + 1)'
    BY <1>1, <1>2 DEF Newest
  <2>1. Settled(l, c, k + 1) BY DEF Search, Newest
  <2> QED BY <1>6, <2>1
<1> QED BY <1>4, <1>5, <1>7, <1>8 DEF Search

LEMMA PopSearches ==
    ASSUME Walking, NEW k \in 0 .. MaxHops, Search(k), Pop
    PROVE  \E h \in 0 .. MaxHops : Search(h)'
<1>1. frontier \in Seq(Walks) /\ frontier # <<>> /\ todo = {} BY DEF Walking, Pop
<1>2. 1 \in DOMAIN frontier /\ frontier[1] = Head(frontier) /\ Head(frontier) \in Walks BY <1>1
<1>3. Hops(Head(frontier)) \in {k, k + 1} BY <1>2 DEF Search, Level
<1>4. k \in Nat /\ MaxHops \in Nat BY ScenarioAssumption
<1>5. CASE Hops(Head(frontier)) = k BY <1>5, PopAtLevel
<1>6. CASE Hops(Head(frontier)) = k + 1
  <2>1. k + 1 <= MaxHops BY <1>2, <1>6, WalkFacts DEF Walked
  <2>2. k < MaxHops /\ k + 1 \in 0 .. MaxHops BY <1>4, <2>1
  <2>3. ASSUME NEW j \in DOMAIN frontier PROVE Hops(frontier[j]) = k + 1
    <3>1. Hops(frontier[j]) \in {k, k + 1} BY DEF Search, Level
    <3>2. CASE j = 1 BY <1>2, <1>6, <3>2
    <3>3. CASE j # 1
      <4>1. 1 < j BY <1>1, <3>3
      <4>2. Hops(frontier[1]) <= Hops(frontier[j]) BY <1>2, <4>1 DEF Search, Level
      <4> QED BY <1>2, <1>4, <1>6, <3>1, <4>2
    <3> QED BY <3>2, <3>3
  <2>4. Search(k + 1) BY <1>1, <1>4, <2>2, <2>3, NextLevel
  <2>5. PICK h \in 0 .. MaxHops : h = k + 1 BY <2>2
  <2>6. Search(h) /\ Hops(Head(frontier)) = h BY <1>6, <2>4, <2>5
  <2>7. Search(h)' BY <2>6, PopAtLevel
  <2> QED BY <2>7
<1> QED BY <1>3, <1>5, <1>6

LEMMA SearchSteps ==
    ASSUME Walking, Searching, ScenarioNext
    PROVE  Walking' /\ Searching'
<1>1. CASE Pop
  <2>1. best[Shock] # NoPath BY <1>1 DEF Walking, Pop
  <2>2. PICK k \in 0 .. MaxHops : Search(k) BY <2>1 DEF Searching
  <2>3. \E h \in 0 .. MaxHops : Search(h)' BY <1>1, <2>2, PopSearches
  <2> QED BY <1>1, <2>3, PopWalks DEF Searching
<1>2. ASSUME NEW i \in todo, Follow(i) PROVE Walking' /\ Searching'
  <2>1. best[Shock] # NoPath BY <1>2 DEF Walking
  <2>2. PICK k \in 0 .. MaxHops : Search(k) BY <2>1 DEF Searching
  <2>3. Search(k)' BY <1>2, <2>2, FollowSearches
  <2> QED BY <1>2, <2>3, FollowWalks DEF Searching
<1> QED BY <1>1, <1>2 DEF ScenarioNext

LEMMA SearchStutters ==
    ASSUME Walking, Searching, UNCHANGED scenario
    PROVE  Walking' /\ Searching'
<1>1. loss' = loss /\ best' = best /\ frontier' = frontier /\ hand' = hand /\ todo' = todo
  BY DEF scenario
<1>2. Weighed' /\ Effective' = Effective /\ Walks' = Walks /\ Losses' = Losses
  BY <1>1, SameWalks DEF Walking
<1>3. Walking' BY <1>1, <1>2, Zenon DEF Walking, Hops
<1>4. ASSUME NEW k, Search(k) PROVE Search(k)'
  <2>1. Level(k)' BY <1>1, <1>4, Zenon DEF Search, Level, Hops
  <2>2. Reached(k)' BY <1>1, <1>2, <1>4, Zenon DEF Search, Reached
  <2>3. ASSUME NEW l, NEW c, NEW h, Settled(l, c, h) PROVE Settled(l, c, h)'
    BY <1>1, <2>3, Zenon DEF Settled, Below, Owed, Hops
  <2>4. Oldest(k)' BY <1>2, <1>4, <2>3, Zenon DEF Search, Oldest
  <2>5. Newest(k)'
    <3> SUFFICES ASSUME k < MaxHops, NEW l \in Effective, NEW c, c = best[Links[l][1]].loss,
                        best[Links[l][1]] # NoPath
                 PROVE  Settled(l, c, k + 1)'
      BY <1>1, <1>2 DEF Newest
    <3>1. Settled(l, c, k + 1) BY <1>4 DEF Search, Newest
    <3> QED BY <2>3, <3>1
  <2> QED BY <2>1, <2>2, <2>4, <2>5 DEF Search
<1> QED BY <1>1, <1>3, <1>4 DEF Searching

(* With nothing left to follow, the walks of every length have been reached. *)
LEMMA SearchEnds ==
    ASSUME Walking, Searching, best[Shock] # NoPath, frontier = <<>>, todo = {}
    PROVE  Reached(MaxHops)
<1>1. MaxHops \in Nat BY ScenarioAssumption
<1>2. PICK k \in 0 .. MaxHops : Search(k) BY DEF Searching
<1>3. DOMAIN frontier = {} OBVIOUS
<1> DEFINE S == {d \in Nat : k + d <= MaxHops => Search(k + d)}
<1>4. 0 \in S
  <2>1. k + 0 = k BY <1>1
  <2> QED BY <1>2, <2>1
<1>5. ASSUME NEW d \in Nat, d \in S PROVE d + 1 \in S
  <2> SUFFICES ASSUME k + (d + 1) <= MaxHops PROVE Search(k + (d + 1))
    OBVIOUS
  <2>1. k + d \in Nat /\ k + d < MaxHops /\ (k + d) + 1 = k + (d + 1) BY <1>1
  <2>2. Search(k + d) BY <1>1, <1>5, <2>1
  <2>3. Search((k + d) + 1)
    <3>1. PICK h \in Nat : h = k + d BY <2>1
    <3>2. h < MaxHops /\ Search(h) BY <2>1, <2>2, <3>1
    <3>3. Search(h + 1) BY <1>3, <3>2, NextLevel
    <3> QED BY <3>1, <3>3
  <2> QED BY <2>1, <2>3
<1>6. MaxHops - k \in S
  <2> HIDE DEF S
  <2>1. MaxHops - k \in Nat BY <1>1
  <2> QED BY <1>4, <1>5, <2>1, Induction
<1>7. k + (MaxHops - k) = MaxHops BY <1>1
<1>8. Search(MaxHops) BY <1>1, <1>6, <1>7
<1> QED BY <1>8 DEF Search

LEMMA SearchFinds == Walking /\ Searching => StrongestPaths
<1> SUFFICES ASSUME Walking, Searching, best[Shock] # NoPath, frontier = <<>>, todo = {},
                    NEW n \in Node
             PROVE  /\ (best[n] = NoPath) = (Losses[MaxHops][n] = {})
                    /\ best[n] # NoPath =>
                          /\ best[n].loss = Min(Losses[MaxHops][n])
                          /\ best[n].loss = LossOf(best[n].path) /\ Leads(best[n].path, n)
                          /\ Len(best[n].path) <= MaxHops
  BY DEF StrongestPaths
<1>1. \A l \in Losses[MaxHops][n] : best[n] # NoPath /\ best[n].loss <= l
  BY SearchEnds DEF Reached
<1>2. Weighed BY DEF Walking
<1>3. MaxHops \in 0 .. MaxHops BY ScenarioAssumption
<1>4. Losses[MaxHops][n] \in SUBSET Nat BY <1>2, <1>3, LossesTyped
<1>5. ASSUME best[n] # NoPath
      PROVE  /\ best[n].loss \in Losses[MaxHops][n]
             /\ best[n].loss = LossOf(best[n].path) /\ Leads(best[n].path, n)
             /\ Len(best[n].path) <= MaxHops
  <2>1. PICK x : x = best[n] OBVIOUS
  <2>2. x \in Entry /\ Walked(x) /\ x.at = n BY <1>5, <2>1, WalkFacts DEF Walking
  <2>3. Hops(x) \in 0 .. MaxHops /\ x.loss \in Losses[Hops(x)][n]
    BY <2>2, ScenarioAssumption DEF Walked, Hops, Entry, Path
  <2>4. x.loss \in Losses[MaxHops][n] BY <1>2, <2>3, LossesGrow
  <2> QED BY <2>1, <2>2, <2>4 DEF Walked, Hops
<1>6. ASSUME best[n] # NoPath PROVE best[n].loss = Min(Losses[MaxHops][n])
  <2>1. PICK T, c : T = Losses[MaxHops][n] /\ c = best[n].loss OBVIOUS
  <2>2. T \in SUBSET Nat /\ c \in T /\ \A l \in T : c <= l BY <1>1, <1>4, <1>5, <1>6, <2>1
  <2>3. \A b \in T : (\A l \in T : b <= l) => b = c BY <2>2
  <2>4. Min(T) = c BY <2>2, <2>3 DEF Min
  <2> QED BY <2>1, <2>4
<1>7. (best[n] = NoPath) = (Losses[MaxHops][n] = {}) BY <1>1, <1>5
<1> QED BY <1>5, <1>6, <1>7

(* When the propagation stops, the entities with an impact are those that  *)
(* a walk of at most MaxHops effective edges reaches, and each keeps a     *)
(* walk as strong as the strongest, for every graph, factor and number of  *)
(* hops.                                                                   *)
THEOREM StrongestPathsAreKept == DecisionsSpec => []StrongestPaths
<1> DEFINE Inv == Walking /\ Searching
<1>1. DecisionsInit => Inv BY InitWalks DEF DecisionsInit
<1>2. Inv /\ [DecisionsNext]_vars => Inv'
  <2> SUFFICES ASSUME Walking, Searching, [DecisionsNext]_vars PROVE Walking' /\ Searching'
    OBVIOUS
  <2>1. CASE ScenarioNext BY <2>1, SearchSteps
  <2>2. CASE UNCHANGED scenario BY <2>2, SearchStutters
  <2> QED BY <2>1, <2>2 DEF DecisionsNext, vars
<1>3. Inv => StrongestPaths BY SearchFinds
<1> QED BY <1>1, <1>2, <1>3, PTL DEF DecisionsSpec

-----------------------------------------------------------------------------
(***************************************************************************)
(* The research pipeline: runs from a graph.                               *)
(***************************************************************************)

(* A ledger whose bars were all collected off midnight. *)
OffMidnight == input.kind = "graph" /\ \A d \in DOMAIN input.bars : input.bars[d] % Tick # 0

Rejected == [decision |-> "rejected", because |-> {"history"}]
Undecided == [decision |-> "none", because |-> {}]

(* Such a run is not past its first backtest: its signals lie off midnight, *)
(* where no price is.                                                       *)
Starving ==
    OffMidnight =>
        /\ input \in GraphInput
        /\ at \in {"load", "score", "train", "done", "raised"}
        /\ \A s \in signals : s.date \in Int /\ s.date % Tick # 0
        /\ split.train \subseteq signals
        /\ at \in {"load", "score"} => split.train = {}
        /\ verdict = IF at = "done" THEN Rejected ELSE Undecided

(* A price is dated by the midnight of an integer day. *)
LEMMA GraphTyped ==
    ASSUME input \in GraphInput
    PROVE  /\ input.kind = "graph" /\ DOMAIN input.bars \subseteq Int
           /\ \A d \in DOMAIN input.bars : input.bars[d] \in Int
           /\ DOMAIN Bars \subseteq Int
<1>1. PICK ds \in SUBSET (1 .. GraphDay) : input.bars \in [ds -> 0 .. Midnight(GraphDay + 2)]
  BY DEF GraphInput
<1>2. input.kind = "graph" BY DEF GraphInput
<1>3. GraphDay \in Nat /\ Midnight(GraphDay + 2) \in Int BY ResearchAssumption DEF Midnight
<1>4. DOMAIN input.bars = ds /\ ds \subseteq Int BY <1>1, <1>3
<1>5. \A d \in ds : input.bars[d] \in Int BY <1>1, <1>3
<1>6. DOMAIN Bars = Kept BY <1>2 DEF Bars
<1> QED BY <1>2, <1>4, <1>5, <1>6 DEF Kept

(* Nothing dated off midnight meets a price. *)
LEMMA OffMidnightIsUnpriced ==
    ASSUME NEW ss, \A s \in ss : s.date \in Int /\ s.date % Tick # 0,
           DOMAIN Bars \subseteq Int
    PROVE  Joined(ss) = {}
<1>1. SUFFICES ASSUME NEW s \in ss, NEW d \in Int, Midnight(d) = s.date PROVE FALSE
  BY DEF Joined
<1>2. Tick \in Nat \ {0, 1} BY ResearchAssumption
<1>3. (Tick * d) % Tick = 0 BY <1>2, Z3
<1> QED BY <1>1, <1>3 DEF Midnight

LEMMA StarvingInit == DecisionsInit => Starving
<1> SUFFICES ASSUME NEW i \in FileInput \cup GraphInput \cup {Idle}, Init0(i), OffMidnight
             PROVE  Starving
  BY DEF DecisionsInit, ResearchInit, Starving
<1>1. input \in GraphInput BY DEF Init0, OffMidnight, FileInput, Idle
<1> QED BY <1>1 DEF Starving, Init0, Undecided

LEMMA StarvingStep == Starving /\ [ResearchNext]_research => Starving'
<1> SUFFICES ASSUME Starving, [ResearchNext]_research, OffMidnight' PROVE Starving'
  BY DEF Starving
<1>1. input' = input
  BY DEF research, ResearchNext, LoadFile, LoadGraph, Refuse, Score, EvaluateTrain, EvaluateHoldout,
         Evaluate, Starved, Gate, Paper, Raise
<1>2. OffMidnight BY <1>1 DEF OffMidnight
<1>3. input \in GraphInput /\ input' \in GraphInput BY <1>1, <1>2 DEF Starving
<1>4. input.kind = "graph" /\ DOMAIN Bars \subseteq Int /\ DOMAIN input.bars \subseteq Int
      /\ \A d \in DOMAIN input.bars : input.bars[d] \in Int
  BY <1>3, GraphTyped
<1> USE <1>1, <1>2, <1>3
<1>5. CASE LoadFile BY <1>4, <1>5 DEF LoadFile
<1>6. CASE LoadGraph
  <2>1. CASE Kept = {} BY <1>6, <2>1 DEF LoadGraph, Raise, Starving
  <2>2. CASE Kept # {}
    <3>1. \A s \in GraphSignals : s.date \in Int /\ s.date % Tick # 0
      BY <1>4 DEF GraphSignals, FeatureDate, Kept, OffMidnight
    <3> QED BY <1>6, <2>2, <3>1 DEF LoadGraph, Starving
  <2> QED BY <2>1, <2>2
<1>7. CASE Refuse BY <1>7 DEF Refuse, Raise, Starving
<1>8. CASE Score
  <2>1. Splits.train \subseteq signals BY DEF Splits, Before
  <2>2. CASE at' = "raised" BY <1>8, <2>2 DEF Score, Raise, Starving
  <2>3. CASE /\ at' = "train" /\ split' = Splits
             /\ UNCHANGED <<input, signals, reports, verdict, targets>>
    BY <1>8, <2>1, <2>3 DEF Score, Starving
  <2> QED BY <1>8, <2>2, <2>3 DEF Score, Raise
<1>9. CASE EvaluateTrain
  <2>1. at = "train" BY <1>9 DEF EvaluateTrain, Evaluate
  <2>2. Joined(split.train) = {}
    <3>1. \A s \in split.train : s.date \in Int /\ s.date % Tick # 0 BY DEF Starving
    <3> QED BY <3>1, <1>4, OffMidnightIsUnpriced
  <2>3. Raise \/ Starved("history")
    <3>1. Unknown(split.train) = FALSE BY <2>2 DEF Unknown
    <3> QED BY <1>9, <2>2, <3>1 DEF EvaluateTrain, Evaluate
  <2>4. CASE Raise BY <2>1, <2>4 DEF Raise, Starving
  <2>5. CASE Starved("history") BY <2>1, <2>5, <1>4 DEF Starved, Raise, Starving, Rejected
  <2> QED BY <2>3, <2>4, <2>5
<1>10. CASE EvaluateHoldout BY <1>10 DEF EvaluateHoldout, Evaluate, Starving
<1>11. CASE Gate BY <1>11 DEF Gate, Starving
<1>12. CASE Paper BY <1>12 DEF Paper, Starving
<1>13. CASE UNCHANGED research BY <1>13 DEF research, Starving
<1> QED BY <1>5, <1>6, <1>7, <1>8, <1>9, <1>10, <1>11, <1>12, <1>13 DEF ResearchNext

(* A run from a graph whose bars were collected off midnight is rejected   *)
(* for want of history whatever history it has (alpha-run-graph).          *)
THEOREM GraphRunsAlwaysStarve == DecisionsSpec => []GraphRunsStarve
<1>1. Starving => GraphRunsStarve BY DEF Starving, GraphRunsStarve, OffMidnight, Rejected
<1>2. [DecisionsNext]_vars => [ResearchNext]_research BY DEF DecisionsNext, vars
<1> QED BY <1>1, <1>2, StarvingInit, StarvingStep, PTL DEF DecisionsSpec

-----------------------------------------------------------------------------
(***************************************************************************)
(* The research pipeline: what was accepted was unseen.                    *)
(***************************************************************************)

(* The numbers in the input of a command are integers, its sets finite.    *)
Given ==
    \/ input = Idle /\ at = "load"
    \/ input \in FileInput
    \/ input \in GraphInput

(* Nothing is taken from after the time the run is as of.                  *)
InTime == at \notin {"load", "raised"} => \A d \in DOMAIN Bars : Bars[d] <= input.asOf

Signals ==
    /\ IsFiniteSet(signals)
    /\ \A s \in signals : s.date \in Int /\ s.known \in Int

(* Two sets of dates of which one lies before the other.                   *)
Apart ==
    /\ split.train \subseteq signals /\ split.holdout \subseteq signals
    /\ \A s \in split.train, h \in split.holdout : s.date < h.date

AnyReport == {NoReport} \cup UNION {Report(n) : n \in Nat}

(* A report is of the dates of its part, all of them scored in time.       *)
Reported(part) ==
    reports[part] # NoReport =>
        /\ reports[part] \in Report(Cardinality(Joined(split[part])))
        /\ ~ Unknown(split[part])

(* The gate has nothing against the reports, and the holdout was run.      *)
Passed == Failures = {} /\ Tested

Unseen ==
    /\ Given /\ InTime /\ Signals /\ Apart
    /\ reports \in [train : AnyReport, holdout : AnyReport]
    /\ at \in {"load", "score", "train"} => reports.train = NoReport /\ reports.holdout = NoReport
    /\ at = "holdout" => reports.holdout = NoReport
    /\ at \in {"load", "score"} => split.train = {} /\ split.holdout = {}
    /\ Reported("train") /\ Reported("holdout")
    /\ at = "paper" \/ targets # {} => Passed
    /\ targets # {} => at = "done"

-----------------------------------------------------------------------------
(* Every rank is somebody's: a finite set of n integers has, for each k up *)
(* to n, a member with exactly k members from it on.                       *)
LEMMA RankExists ==
    ASSUME NEW D \in SUBSET Int, IsFiniteSet(D), NEW k \in 1 .. Cardinality(D)
    PROVE  \E t \in D : Cardinality({u \in D : u >= t}) = k
<1> DEFINE From(t) == {u \in D : u >= t}
           n == Cardinality(D)
           rank == [t \in D |-> Cardinality(From(t))]
           others == (1 .. n) \ {k}
<1>1. n \in Nat BY FS_CardinalityType
<1>2. \A t \in D : IsFiniteSet(From(t)) /\ Cardinality(From(t)) \in 1 .. n
  <2> SUFFICES ASSUME NEW t \in D PROVE IsFiniteSet(From(t)) /\ Cardinality(From(t)) \in 1 .. n
    OBVIOUS
  <2>1. From(t) \in SUBSET D /\ t \in From(t) OBVIOUS
  <2>2. IsFiniteSet(From(t)) /\ Cardinality(From(t)) <= n
    <3> HIDE DEF From
    <3> QED BY <2>1, FS_Subset
  <2>3. Cardinality(From(t)) \in Nat /\ Cardinality(From(t)) # 0
    BY <2>1, <2>2, FS_CardinalityType, FS_EmptySet
  <2> HIDE DEF From, n
  <2> QED BY <1>1, <2>2, <2>3
<1>3. \A t, u \in D : t < u => rank[t] # rank[u]
  <2> SUFFICES ASSUME NEW t \in D, NEW u \in D, t < u PROVE rank[t] # rank[u]
    OBVIOUS
  <2>1. From(u) \in SUBSET From(t) /\ From(u) # From(t)
    <3>1. \A v \in From(u) : v \in D /\ v \in Int /\ v >= t OBVIOUS
    <3>2. t \in From(t) /\ t \notin From(u) OBVIOUS
    <3> QED BY <3>1, <3>2
  <2> HIDE DEF From
  <2>2. Cardinality(From(u)) # Cardinality(From(t)) BY <1>2, <2>1, FS_Subset
  <2> QED BY <2>2
<1>4. \A t, u \in D : t # u => rank[t] # rank[u]
  <2> HIDE DEF rank
  <2> SUFFICES ASSUME NEW t \in D, NEW u \in D, t # u PROVE rank[t] # rank[u]
    OBVIOUS
  <2>1. t \in Int /\ u \in Int OBVIOUS
  <2>2. t < u \/ u < t BY <2>1
  <2> QED BY <1>3, <2>2
<1>5. IsFiniteSet(others) /\ Cardinality(others) < Cardinality(D)
  <2>1. 1 \in Int /\ n \in Int BY <1>1
  <2>2. IsFiniteSet(1 .. n) /\ Cardinality(1 .. n) = IF 1 > n THEN 0 ELSE n - 1 + 1
    BY <2>1, FS_Interval
  <2>3. k \in 1 .. n OBVIOUS
  <2>4. IsFiniteSet(others) /\ Cardinality(others) = Cardinality(1 .. n) - 1
    BY <2>2, <2>3, FS_RemoveElement
  <2> HIDE DEF others
  <2> QED BY <1>1, <2>2, <2>3, <2>4
<1> SUFFICES ASSUME \A t \in D : Cardinality(From(t)) # k PROVE FALSE
  OBVIOUS
<1>6. rank \in [D -> others]
  <2> HIDE DEF From, n
  <2> QED BY <1>2
<1> HIDE DEF rank, others
<1> QED BY <1>4, <1>5, <1>6, FS_PigeonHole

-----------------------------------------------------------------------------
(* What a file gives: integer times, and finitely many dates.              *)
LEMMA FileTyped ==
    ASSUME input \in FileInput
    PROVE  /\ input.kind = "file" /\ input.asOf \in Int
           /\ DOMAIN Bars \subseteq Int /\ \A d \in DOMAIN Bars : Bars[d] \in Int
           /\ IsFiniteSet(FileSignals)
           /\ \A s \in FileSignals : s.date \in Int /\ s.known \in Int
<1>0. Tick \in Int /\ LastDay \in Nat BY ResearchAssumption
<1>1. /\ input.kind = "file" /\ input.bars \subseteq 1 .. LastDay
      /\ input.featured \subseteq 1 .. LastDay
      /\ input.asOf \in {Close(LastDay - 1), Close(LastDay)}
  BY DEF FileInput
<1>2. \A d \in Int : Close(d) \in Int /\ Midnight(d) \in Int BY <1>0 DEF Close, Midnight
<1>3. input.asOf \in Int BY <1>0, <1>1, <1>2
<1>4. Bars = FileBars BY <1>1 DEF Bars
<1>5. DOMAIN Bars \subseteq Int /\ \A d \in DOMAIN Bars : Bars[d] \in Int
  BY <1>1, <1>2, <1>4 DEF FileBars
<1>6. IsFiniteSet(input.featured)
  <2>1. 1 \in Int /\ LastDay \in Int BY <1>0
  <2>2. IsFiniteSet(1 .. LastDay) BY <2>1, FS_Interval
  <2> QED BY <1>1, <2>2, FS_Subset
<1> DEFINE sig == [d \in input.featured |->
              [date |-> Midnight(d), known |-> Midnight(IF d \in input.late THEN d + 1 ELSE d)]]
<1>7. sig \in Surjection(input.featured, FileSignals) BY DEF FileSignals, Surjection
<1>8. IsFiniteSet(FileSignals)
  <2> HIDE DEF sig
  <2> QED BY <1>6, <1>7, FS_Surjection
<1>9. \A s \in FileSignals : s.date \in Int /\ s.known \in Int
  <2> SUFFICES ASSUME NEW d \in input.featured
               PROVE  Midnight(d) \in Int /\ Midnight(IF d \in input.late THEN d + 1 ELSE d) \in Int
    BY DEF FileSignals
  <2>1. d \in Int /\ d + 1 \in Int BY <1>1
  <2> QED BY <1>2, <2>1
<1> QED BY <1>1, <1>3, <1>5, <1>8, <1>9

(* What a ledger gives: what is kept was available by the time as of.      *)
LEMMA LedgerTyped ==
    ASSUME input \in GraphInput
    PROVE  /\ input.asOf \in Int
           /\ DOMAIN Bars \subseteq Int
           /\ \A d \in DOMAIN Bars : Bars[d] \in Int /\ Bars[d] <= input.asOf
           /\ IsFiniteSet(GraphSignals)
           /\ \A s \in GraphSignals : s.date \in Int /\ s.known \in Int
<1>0. Tick \in Int /\ GraphDay \in Nat BY ResearchAssumption
<1>1. PICK ds \in SUBSET (1 .. GraphDay) : input.bars \in [ds -> 0 .. Midnight(GraphDay + 2)]
  BY DEF GraphInput
<1>2. /\ input.kind = "graph" /\ input.snapshot \in 0 .. Midnight(GraphDay + 2)
      /\ input.asOf \in {Midnight(GraphDay + 1), Close(GraphDay + 2)}
  BY DEF GraphInput
<1>3. \A d \in Int : Close(d) \in Int /\ Midnight(d) \in Int BY <1>0 DEF Close, Midnight
<1>4. input.asOf \in Int /\ input.snapshot \in Int BY <1>0, <1>2, <1>3
<1>5. /\ DOMAIN input.bars = ds /\ Kept \subseteq ds /\ ds \subseteq Int
      /\ \A d \in ds : input.bars[d] \in Int
  BY <1>0, <1>1, <1>3 DEF Kept
<1>6. Bars = [d \in Kept |-> input.bars[d]] BY <1>2 DEF Bars
<1>7. \A d \in DOMAIN Bars : Bars[d] \in Int /\ Bars[d] <= input.asOf BY <1>5, <1>6 DEF Kept
<1>8. IsFiniteSet(Kept)
  <2>1. 1 \in Int /\ GraphDay \in Int BY <1>0
  <2>2. IsFiniteSet(1 .. GraphDay) BY <2>1, FS_Interval
  <2>3. Kept \in SUBSET (1 .. GraphDay) BY <1>5
  <2> QED BY <2>2, <2>3, FS_Subset
<1> DEFINE sig == [d \in Kept |-> [date |-> FeatureDate(d), known |-> input.snapshot]]
<1>9. sig \in Surjection(Kept, GraphSignals) BY DEF GraphSignals, Surjection
<1>10. IsFiniteSet(GraphSignals)
  <2> HIDE DEF sig
  <2> QED BY <1>8, <1>9, FS_Surjection
<1>11. \A s \in GraphSignals : s.date \in Int /\ s.known \in Int
  <2> SUFFICES ASSUME NEW d \in Kept PROVE FeatureDate(d) \in Int /\ input.snapshot \in Int
    BY DEF GraphSignals
  <2> QED BY <1>4, <1>5 DEF FeatureDate
<1> QED BY <1>4, <1>5, <1>6, <1>7, <1>10, <1>11

(* The cutoff leaves the dates before it to one part, the rest to the other.*)
LEMMA SplitsApart ==
    ASSUME Signals
    PROVE  /\ Splits.train \subseteq signals /\ Splits.holdout \subseteq signals
           /\ \A s \in Splits.train, h \in Splits.holdout : s.date < h.date
<1> DEFINE n == Cardinality(Dates)
<1>1. CASE n < 2 * MinPeriods
  <2>1. Splits = [train |-> signals, holdout |-> {}] BY <1>1 DEF Splits
  <2> QED BY <2>1
<1>2. CASE ~ (n < 2 * MinPeriods)
  <2>1. Dates \in SUBSET Int BY DEF Dates, Signals
  <2>2. IsFiniteSet(Dates)
    <3> DEFINE date == [s \in signals |-> s.date]
    <3>1. date \in Surjection(signals, Dates) BY DEF Dates, Surjection
    <3> HIDE DEF date
    <3> QED BY <3>1, FS_Surjection DEF Signals
  <2>3. n \in Nat BY <2>2, FS_CardinalityType
  <2>4. HoldoutSize(n) \in 1 .. n
    <3> HIDE DEF n
    <3> QED BY <1>2, <2>3, ResearchAssumption DEF HoldoutSize
  <2> DEFINE cutoff == CHOOSE t \in Dates : Cardinality({u \in Dates : u >= t}) = HoldoutSize(n)
  <2>5. \E t \in Dates : Cardinality({u \in Dates : u >= t}) = HoldoutSize(n)
    BY <2>1, <2>2, <2>4, RankExists
  <2>6. cutoff \in Int BY <2>1, <2>5
  <2>7. Splits = [train |-> Before(cutoff), holdout |-> Since(cutoff)] BY <1>2 DEF Splits
  <2> HIDE DEF cutoff
  <2>8. /\ Splits.train \subseteq signals /\ Splits.holdout \subseteq signals
        /\ \A s \in Splits.train : ~ (s.date >= cutoff)
        /\ \A h \in Splits.holdout : h.date >= cutoff
    BY <2>7 DEF Before, Since
  <2>9. ASSUME NEW s \in Splits.train, NEW h \in Splits.holdout PROVE s.date < h.date
    <3>1. s.date \in Int /\ h.date \in Int BY <2>8, <2>9 DEF Signals
    <3>2. ~ (s.date >= cutoff) /\ h.date >= cutoff BY <2>8, <2>9
    <3> QED BY <2>6, <3>1, <3>2
  <2> QED BY <2>8, <2>9
<1> QED BY <1>1, <1>2

-----------------------------------------------------------------------------
LEMMA UnseenInit == DecisionsInit => Unseen
<1> SUFFICES ASSUME NEW i, Init0(i), i = Idle \/ i \in FileInput \cup GraphInput PROVE Unseen
  BY DEF DecisionsInit, ResearchInit
<1> USE DEF Init0
<1>1. Given /\ InTime BY DEF Given, InTime
<1>2. Signals BY FS_EmptySet DEF Signals
<1>3. Apart BY DEF Apart
<1>4. reports \in [train : AnyReport, holdout : AnyReport] BY DEF AnyReport
<1>5. reports.train = NoReport /\ reports.holdout = NoReport OBVIOUS
<1>6. Reported("train") /\ Reported("holdout") BY <1>5 DEF Reported
<1> QED BY <1>1, <1>2, <1>3, <1>4, <1>5, <1>6 DEF Unseen

LEMMA ReportedStays ==
    ASSUME NEW part \in {"train", "holdout"}, Reported(part),
           UNCHANGED <<input, split, reports>>
    PROVE  Reported(part)'
<1> SUFFICES ASSUME NEW ss, ss = split[part], NEW r, r = reports[part], r # NoReport
             PROVE  r \in Report(Cardinality(Joined(ss)')) /\ ~ Unknown(ss)'
  BY DEF Reported
<1>1. Bars' = Bars BY DEF Bars, FileBars, Kept
<1>2. Joined(ss)' = Joined(ss) BY <1>1 DEF Joined, NextBar
<1>3. Unknown(ss)' = Unknown(ss) BY <1>1, <1>2 DEF Unknown
<1>4. r \in Report(Cardinality(Joined(ss))) /\ ~ Unknown(ss) BY DEF Reported
<1> QED BY <1>2, <1>3, <1>4

(* What is known of a run that has an input, and does not end well.        *)
LEMMA EndsBadly ==
    ASSUME Unseen, input \in FileInput \cup GraphInput,
           at \in {"load", "score", "train", "holdout"},
           at' = "raised" \/ (at' = "done" /\ at \in {"train", "holdout"}),
           UNCHANGED <<input, signals, split, reports, targets>>
    PROVE  Unseen'
<1>1. Given' BY DEF Given
<1>2. InTime' BY DEF Unseen, InTime, Bars, FileBars, Kept
<1>3. Signals' /\ Apart' BY DEF Unseen, Signals, Apart
<1>4. Reported("train")' /\ Reported("holdout")' BY ReportedStays DEF Unseen
<1>5. targets' = {} BY DEF Unseen
<1> QED BY <1>1, <1>2, <1>3, <1>4, <1>5 DEF Unseen

LEMMA InputStays == [ResearchNext]_research => input' = input
BY DEF research, ResearchNext, LoadFile, LoadGraph, Refuse, Score, EvaluateTrain, EvaluateHoldout,
       Evaluate, Starved, Gate, Paper, Raise

LEMMA UnseenLoads == ASSUME Unseen, LoadFile \/ LoadGraph PROVE Unseen'
<1>1. input' = input BY InputStays DEF ResearchNext
<1>2. at = "load" BY DEF LoadFile, LoadGraph
<1>3. input \in FileInput \cup GraphInput
  BY DEF LoadFile, LoadGraph, Unseen, Given, Idle
<1>4. CASE Raise BY <1>2, <1>3, <1>4, EndsBadly DEF Raise
<1>5. ASSUME at' = "score", UNCHANGED <<input, split, reports, verdict, targets>>,
             Signals', Apart', InTime'
      PROVE  Unseen'
  <2>1. Reported("train")' /\ Reported("holdout")' BY <1>2, <1>5 DEF Unseen, Reported
  <2>2. Given' BY <1>3, <1>5 DEF Given
  <2> QED BY <1>2, <1>5, <2>1, <2>2 DEF Unseen
<1>6. split.train = {} /\ split.holdout = {} BY <1>2 DEF Unseen
<1>7. CASE LoadFile /\ ~ Raise
  <2>1. /\ at' = "score" /\ signals' = FileSignals
        /\ UNCHANGED <<input, split, reports, verdict, targets>>
        /\ \A d \in DOMAIN Bars : ~ (Bars[d] > input.asOf)
    BY <1>7 DEF LoadFile
  <2>2. input \in FileInput BY <1>3, <1>7 DEF LoadFile, GraphInput
  <2>3. Signals' BY <2>1, <2>2, FileTyped DEF Signals
  <2>4. \A d \in DOMAIN Bars : Bars[d] <= input.asOf BY <2>1, <2>2, FileTyped
  <2>5. InTime' BY <2>1, <2>4 DEF InTime, Bars, FileBars, Kept
  <2>6. Apart' BY <1>6, <2>1 DEF Apart
  <2> QED BY <1>5, <2>1, <2>3, <2>5, <2>6
<1>8. CASE LoadGraph /\ ~ Raise
  <2>1. /\ at' = "score" /\ signals' = GraphSignals
        /\ UNCHANGED <<input, split, reports, verdict, targets>>
    BY <1>8 DEF LoadGraph
  <2>2. input \in GraphInput BY <1>3, <1>8, FileTyped DEF LoadGraph
  <2>3. Signals' BY <2>1, <2>2, LedgerTyped DEF Signals
  <2>4. InTime' BY <2>1, <2>2, LedgerTyped DEF InTime, Bars, FileBars, Kept
  <2>5. Apart' BY <1>6, <2>1 DEF Apart
  <2> QED BY <1>5, <2>1, <2>3, <2>4, <2>5
<1> QED BY <1>4, <1>7, <1>8

LEMMA UnseenScores == ASSUME Unseen, Refuse \/ Score PROVE Unseen'
<1>1. at = "score" BY DEF Refuse, Score
<1>2. input \in FileInput \cup GraphInput BY <1>1 DEF Unseen, Given
<1>3. CASE Raise BY <1>1, <1>2, <1>3, EndsBadly DEF Raise
<1>4. CASE Score /\ ~ Raise
  <2>1. /\ at' = "train" /\ split' = Splits
        /\ UNCHANGED <<input, signals, reports, verdict, targets>>
    BY <1>4 DEF Score
  <2>2. Given' /\ Signals' BY <1>2, <2>1 DEF Unseen, Given, Signals
  <2>3. InTime' BY <1>1, <2>1 DEF Unseen, InTime, Bars, FileBars, Kept
  <2>4. Apart' BY <2>1, SplitsApart DEF Unseen, Apart
  <2>5. Reported("train")' /\ Reported("holdout")' BY <1>1, <2>1 DEF Unseen, Reported
  <2> QED BY <1>1, <2>1, <2>2, <2>3, <2>4, <2>5 DEF Unseen
<1> QED BY <1>3, <1>4 DEF Refuse

(* The periods of a part are a number.                                     *)
LEMMA PeriodsCounted ==
    ASSUME Signals, NEW ss \in SUBSET signals
    PROVE  IsFiniteSet(Joined(ss)) /\ Cardinality(Joined(ss)) \in Nat
<1>1. Joined(ss) \in SUBSET signals BY DEF Joined
<1> QED BY <1>1, FS_Subset, FS_CardinalityType DEF Signals

LEMMA UnseenEvaluates == ASSUME Unseen, EvaluateTrain \/ EvaluateHoldout PROVE Unseen'
<1>0. PICK part \in {"train", "holdout"}, next \in {"holdout", "gate"} :
        /\ Evaluate(part, next)
        /\ part = "holdout" => next = "gate"
  BY DEF EvaluateTrain, EvaluateHoldout
<1>1. at = part BY <1>0 DEF Evaluate
<1>2. input \in FileInput \cup GraphInput BY <1>1 DEF Unseen, Given
<1>3. CASE Raise BY <1>1, <1>2, <1>3, EndsBadly DEF Raise
<1>4. CASE Starved("history")
  BY <1>1, <1>2, <1>4, EndsBadly DEF Starved, Raise
<1>5. CASE ~ Raise /\ ~ Starved("history")
  <2> DEFINE n == Cardinality(Joined(split[part]))
  <2>1. PICK r \in Report(n) :
          /\ ~ Unknown(split[part]) /\ at' = next
          /\ reports' = [reports EXCEPT ![part] = r]
          /\ UNCHANGED <<input, signals, split, verdict, targets>>
    BY <1>0, <1>5 DEF Evaluate
  <2>2. n \in Nat
    <3>1. split[part] \in SUBSET signals BY DEF Unseen, Apart
    <3> QED BY <3>1, PeriodsCounted DEF Unseen
  <2> HIDE DEF n
  <2>3. r \in AnyReport BY <2>2 DEF AnyReport
  <2>4. /\ reports' \in [train : AnyReport, holdout : AnyReport]
        /\ part = "train" => reports'.train = r /\ reports'.holdout = reports.holdout
        /\ part = "holdout" => reports'.holdout = r /\ reports'.train = reports.train
    BY <2>1, <2>3 DEF Unseen
  <2>5. Given' /\ Signals' /\ Apart' BY <1>2, <2>1 DEF Unseen, Given, Signals, Apart
  <2>6. InTime' BY <1>1, <2>1 DEF Unseen, InTime, Bars, FileBars, Kept
  <2>7. Reported("train")' /\ Reported("holdout")'
    <3>1. /\ Reported(part)'
          /\ \A p \in {"train", "holdout"} \ {part} : reports'[p] = reports[p]
      BY <1>1, <2>1, <2>4, ZenonT(60)
      DEF Reported, Joined, NextBar, Unknown, Bars, FileBars, Kept, n
    <3>2. ASSUME NEW p \in {"train", "holdout"} \ {part} PROVE Reported(p)'
      <4>1. Reported(p) /\ reports'[p] = reports[p] BY <3>1 DEF Unseen
      <4>2. input' = input /\ signals' = signals /\ split' = split BY <2>1
      <4> QED BY <4>1, <4>2, ZenonT(60)
          DEF Reported, Joined, NextBar, Unknown, Bars, FileBars, Kept
    <3> QED BY <1>1, <3>1, <3>2
  <2>8. targets' = {} BY <1>1, <2>1 DEF Unseen
  <2> QED BY <1>0, <1>1, <2>1, <2>4, <2>5, <2>6, <2>7, <2>8 DEF Unseen
<1> QED BY <1>3, <1>4, <1>5

LEMMA UnseenDecides == ASSUME Unseen, Gate \/ Paper PROVE Unseen'
<1>1. at \in {"gate", "paper"} /\ at' \in {"paper", "done"}
      /\ UNCHANGED <<input, signals, split, reports>>
  BY DEF Gate, Paper
<1>2. input \in FileInput \cup GraphInput BY <1>1 DEF Unseen, Given
<1>3. Given' /\ Signals' /\ Apart' BY <1>1, <1>2 DEF Unseen, Given, Signals, Apart
<1>4. InTime' BY <1>1 DEF Unseen, InTime, Bars, FileBars, Kept
<1>5. Reported("train")' /\ Reported("holdout")' BY <1>1, ReportedStays DEF Unseen
<1>6. Passed' <=> Passed BY <1>1 DEF Passed, Failures, Tested
<1>7. CASE Gate
  <2>1. at = "gate" /\ (at' = "paper" => Passed) /\ targets' = targets
    BY <1>7 DEF Gate, Passed, Review
  <2>2. targets' = {} BY <2>1 DEF Unseen
  <2> QED BY <1>1, <1>3, <1>4, <1>5, <1>6, <2>1, <2>2 DEF Unseen
<1>8. CASE Paper
  <2>1. at = "paper" /\ at' = "done" BY <1>8 DEF Paper
  <2>2. Passed BY <2>1 DEF Unseen
  <2> QED BY <1>1, <1>3, <1>4, <1>5, <1>6, <2>1, <2>2 DEF Unseen
<1> QED BY <1>7, <1>8

LEMMA UnseenStep == Unseen /\ [DecisionsNext]_vars => Unseen'
<1> SUFFICES ASSUME Unseen, [DecisionsNext]_vars PROVE Unseen' OBVIOUS
<1>1. CASE ResearchNext
  BY <1>1, UnseenLoads, UnseenScores, UnseenEvaluates, UnseenDecides DEF ResearchNext
<1>2. CASE UNCHANGED research
  <2>1. UNCHANGED <<input, at, signals, split, reports, targets>> BY <1>2 DEF research
  <2>2. Given' /\ Signals' /\ Apart' BY <2>1 DEF Unseen, Given, Signals, Apart
  <2>3. InTime' BY <2>1 DEF Unseen, InTime, Bars, FileBars, Kept
  <2>4. Reported("train")' /\ Reported("holdout")' BY <2>1, ReportedStays DEF Unseen
  <2>5. Passed' <=> Passed BY <2>1 DEF Passed, Failures, Tested
  <2> QED BY <2>1, <2>2, <2>3, <2>4, <2>5 DEF Unseen
<1> QED BY <1>1, <1>2 DEF DecisionsNext, vars

(* A signal that is joined to a price lies on that price's day.            *)
LEMMA JoinedDay ==
    ASSUME NEW s, NEW d \in Int, s.date = Midnight(d)
    PROVE  Day(s) = d
<1>1. Tick \in Nat \ {0, 1} BY ResearchAssumption
<1>2. (Tick * d) \div Tick = d BY <1>1, Z3
<1> QED BY <1>2 DEF Day, Midnight

(* What the paper portfolio holds was tested, with costs, on two sets of   *)
(* dates that lie apart and are long enough, and no score is younger than  *)
(* the price it was traded at, for any file, ledger and number of periods. *)
THEOREM AcceptedIsAlwaysUnseen == DecisionsSpec => []AcceptedIsUnseen
<1>1. Unseen => AcceptedIsUnseen
  <2> SUFFICES ASSUME Unseen, targets # {} PROVE AcceptedIsUnseen
    BY DEF AcceptedIsUnseen
  <2> DEFINE train == Joined(split.train)
             holdout == Joined(split.holdout)
  <2>1. Failures = {} /\ Tested /\ at = "done" BY DEF Unseen, Passed
  <2>2. input \in FileInput \cup GraphInput BY <2>1 DEF Unseen, Given
  <2>3. /\ ~ (reports.train.periods < MinPeriods) /\ input.costs
        /\ ~ (reports.holdout.periods < MinPeriods)
    BY <2>1 DEF Failures
  <2>4. Cardinality(train) \in Nat /\ Cardinality(holdout) \in Nat
    BY PeriodsCounted DEF Unseen, Apart
  <2>5. NoReport.periods = 0 BY DEF NoReport
  <2>6. reports.train # NoReport /\ reports.holdout # NoReport
    BY <2>1, <2>3, <2>5, ResearchAssumption DEF Tested
  <2>7. /\ reports.train.periods = Cardinality(train) /\ ~ Unknown(split.train)
        /\ reports.holdout.periods = Cardinality(holdout) /\ ~ Unknown(split.holdout)
    BY <2>6 DEF Unseen, Reported, Report
  <2>8. Cardinality(train) >= MinPeriods /\ Cardinality(holdout) >= MinPeriods
    BY <2>3, <2>4, <2>7, ResearchAssumption
  <2>9. /\ DOMAIN Bars \subseteq Int
        /\ \A d \in DOMAIN Bars : Bars[d] \in Int /\ Bars[d] <= input.asOf
    BY <2>1, <2>2, FileTyped, LedgerTyped DEF Unseen, InTime
  <2>10. \A s \in train \cup holdout :
           /\ Day(s) \in DOMAIN Bars /\ s.date = Midnight(Day(s))
           /\ s.known \in Int
    <3> SUFFICES ASSUME NEW s \in train \cup holdout
                 PROVE  /\ Day(s) \in DOMAIN Bars /\ s.date = Midnight(Day(s))
                        /\ s.known \in Int
      OBVIOUS
    <3>1. PICK d \in DOMAIN Bars : Midnight(d) = s.date BY DEF Joined
    <3>2. Day(s) = d BY <2>9, <3>1, JoinedDay
    <3>3. s \in signals BY DEF Joined, Unseen, Apart
    <3> QED BY <3>1, <3>2, <3>3 DEF Unseen, Signals
  <2>11. \A s \in train, h \in holdout : Day(s) < Day(h)
    <3> SUFFICES ASSUME NEW s \in train, NEW h \in holdout PROVE Day(s) < Day(h) OBVIOUS
    <3>1. s.date < h.date BY DEF Unseen, Apart, Joined
    <3>2. Tick * Day(s) < Tick * Day(h) BY <2>10, <3>1 DEF Midnight
    <3>3. Day(s) \in Int /\ Day(h) \in Int BY <2>9, <2>10
    <3> QED BY <3>2, <3>3, ResearchAssumption, Z3
  <2>12. \A s \in train \cup holdout : s.known <= Bars[Day(s)] /\ Bars[Day(s)] <= input.asOf
    <3> SUFFICES ASSUME NEW s \in train \cup holdout
                 PROVE  s.known <= Bars[Day(s)] /\ Bars[Day(s)] <= input.asOf
      OBVIOUS
    <3>1. ~ (s.known > Bars[Day(s)]) BY <2>7 DEF Unknown
    <3> QED BY <2>9, <2>10, <3>1
  <2> QED BY <2>3, <2>8, <2>11, <2>12 DEF AcceptedIsUnseen
<1> QED BY <1>1, UnseenInit, UnseenStep, PTL DEF DecisionsSpec
================================================================================
