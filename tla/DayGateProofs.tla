---------------------------- MODULE DayGateProofs ----------------------------
(* For every limits table, every set of pods, symbols and checks: losing a
   measurement never opens a blocked day, a day on which the fund tier halves the
   targets opens nothing, and the book of the day only reduces the pods' targets.
   The last needs what a sum is: the library defines it by a recursive function
   whose existence, and whose independence of the set it is taken over, are
   proved first, by the least counterexample. *)
EXTENDS DayGate, FiniteSetTheorems, WellFoundedInduction, TLAPS

\* The result on the table is the run of the inputs on the table.
Inv == inputs \in Inputs /\ result = RunDay(inputs)

------------------------------------------------------------------------------
(* Layer by layer: a breach is still one when readings are lost *)

LEMMA SectorsStayBreached ==
  ASSUME NEW m, NEW n, NEW w, FewerValues(m, n), SectorsBreached(n, w)
  PROVE  SectorsBreached(m, w)
  BY DEF FewerValues, SectorsBreached, Outside, Missing

LEMMA BetasStayBreached ==
  ASSUME NEW m, NEW n, FewerValues(m, n), BetasBreached(n)
  PROVE  BetasBreached(m)
  BY DEF FewerValues, BetasBreached, Outside, Missing

LEMMA BookStaysBreached ==
  ASSUME NEW b \in [BookFields -> Reading], NEW c \in [BookFields -> Reading],
         NEW w, NEW m, NEW n, NEW k, NEW l,
         FewerFields(c, b), FewerValues(m, n), FewerValues(k, l),
         BookBreached(b, w, n, l)
  PROVE  BookBreached(c, w, m, k)
<1>1. \A f \in BookFields : c[f] = b[f] \/ Missing(c[f])
  BY DEF FewerFields
<1>2. \/ b["gross"] = c["gross"] /\ b["net"] = c["net"] 
         /\ b["liquidation"] = c["liquidation"] /\ b["volatility"] = c["volatility"]
         /\ b["drawdown"] = c["drawdown"] /\ b["percentile"] = c["percentile"]
      \/ \E f \in BookFields : Missing(c[f])
  BY <1>1 DEF BookFields
<1>3. CASE \E f \in BookFields : Missing(c[f])
  BY <1>3 DEF BookBreached, BookFields, Above, Outside, LiquidityBreached
<1>4. CASE SectorsBreached(n, w) \/ BetasBreached(l)
  BY <1>4, SectorsStayBreached, BetasStayBreached DEF BookBreached
<1> QED
  BY <1>2, <1>3, <1>4 DEF BookBreached

LEMMA FundStaysBreached ==
  ASSUME NEW f \in {Unmeasured} \cup [FundFields -> Reading],
         NEW g \in {Unmeasured} \cup [FundFields -> Reading],
         Fewer(g, f), FundBreached(f),
         g # Unmeasured => g.correlation = f.correlation \/ f.pods # 1
  PROVE  FundBreached(g)
<1>1. CASE g = Unmeasured
  BY <1>1 DEF FundBreached
<1>2. CASE g # Unmeasured
  <2>1. f \in [FundFields -> Reading]
    BY <1>2 DEF Fewer
  <2>2. \A x \in FundFields : g[x] = f[x] \/ Missing(g[x])
    BY <1>2, <2>1 DEF Fewer, FewerFields
  <2>3. CASE \E x \in FundFields \ {"correlation"} : Missing(g[x])
    BY <2>3 DEF FundBreached, CorrelationBreached, Above, FundFields
  <2>4. CASE \A x \in FundFields \ {"correlation"} : g[x] = f[x]
    <3>1. g.correlation = f.correlation \/ (Missing(g.correlation) /\ f.pods # 1)
      BY <1>2, <2>2 DEF FundFields
    <3>2. CorrelationBreached(f) => CorrelationBreached(g)
      BY <2>4, <3>1 DEF CorrelationBreached, FundFields
    <3>3. g.var95 = f.var95 /\ g.es975 = f.es975 /\ g.drawdown = f.drawdown
      BY <2>4 DEF FundFields
    <3>4. f # Unmeasured
      BY <1>2 DEF Fewer
    <3>. QED
      BY <3>2, <3>3, <3>4, Zenon DEF FundBreached
  <2>. QED
    BY <2>2, <2>3, <2>4
<1>. QED
  BY <1>1, <1>2

LEMMA FinancingStaysBreached ==
  ASSUME NEW f \in {Unmeasured} \cup [FinancingFields -> Reading],
         NEW g \in {Unmeasured} \cup [FinancingFields -> Reading], NEW s,
         Fewer(g, f), FinancingBreached(f, s),
         g # Unmeasured => /\ g.cost = f.cost
                           /\ \A x \in {"utilization", "cash"} : g[x] = NaN => f[x] = NaN
  PROVE  FinancingBreached(g, s)
<1>1. CASE g = Unmeasured
  BY <1>1 DEF FinancingBreached
<1>2. CASE g # Unmeasured
  <2>1. f \in [FinancingFields -> Reading] /\ f # Unmeasured
    BY <1>2 DEF Fewer
  <2>2. ASSUME NEW x \in {"utilization", "cash"}
        PROVE  g[x] = f[x] \/ g[x] = Unmeasured
    BY <1>2, <2>1 DEF Fewer, FewerFields, FinancingFields, Missing
  <2>3. /\ g.utilization = f.utilization \/ g.utilization = Unmeasured
        /\ g.cash = f.cash \/ g.cash = Unmeasured
        /\ g.cost = f.cost
    BY <1>2, <2>2
  <2>. QED
    BY <2>1, <2>3, Zenon DEF FinancingBreached
<1>. QED
  BY <1>1, <1>2

LEMMA CapacityStaysBreached ==
  ASSUME NEW f \in {Unmeasured} \cup [Pods -> [CapacityFields -> Reading]],
         NEW g \in {Unmeasured} \cup [Pods -> [CapacityFields -> Reading]],
         NEW m \in [Pods -> Flag], NEW n \in [Pods -> Flag],
         FewerByPod(g, f), FewerFlags(n, m), CapacityBreached(f, m)
  PROVE  CapacityBreached(g, n)
<1>1. CASE g = Unmeasured
  BY <1>1 DEF CapacityBreached
<1>2. CASE g # Unmeasured
  <2>1. ASSUME NEW p \in Pods, PodOverCapacity(f[p], m[p])
        PROVE  PodOverCapacity(g[p], n[p])
    <3>1. \A x \in CapacityFields : g[p][x] = f[p][x] \/ Missing(g[p][x])
      BY <1>2 DEF FewerByPod, FewerFields
    <3>2. CASE n[p] # m[p]
      BY <3>2, UnmeasuredAssumption DEF FewerFlags, PodOverCapacity
    <3>3. CASE \E x \in CapacityFields : Missing(g[p][x])
      BY <3>3 DEF PodOverCapacity, CapacityFields, Missing
    <3>4. CASE n[p] = m[p] /\ \A x \in CapacityFields : g[p][x] = f[p][x]
      <4>1. g[p].tested = f[p].tested /\ g[p].participation = f[p].participation
            /\ g[p].allocated = f[p].allocated
        BY <3>4 DEF CapacityFields
      <4>. QED
        BY <2>1, <3>4, <4>1, Zenon DEF PodOverCapacity
    <3>. QED
      BY <3>1, <3>2, <3>3, <3>4
  <2>. QED
    BY <1>2, <2>1, Zenon DEF CapacityBreached, FewerByPod
<1>. QED
  BY <1>1, <1>2

LEMMA CostStaysBreached ==
  ASSUME NEW f \in {Unmeasured} \cup [Pods -> [CostFields -> Reading]],
         NEW g \in {Unmeasured} \cup [Pods -> [CostFields -> Reading]],
         NEW m \in [Pods -> Flag], NEW n \in [Pods -> Flag],
         FewerByPod(g, f), FewerFlags(n, m), CostBreached(f, m)
  PROVE  CostBreached(g, n)
<1>1. CASE g = Unmeasured
  BY <1>1 DEF CostBreached
<1>2. CASE g # Unmeasured
  <2>1. ASSUME NEW p \in Pods, PodBelowFloor(f[p], m[p])
        PROVE  PodBelowFloor(g[p], n[p])
    <3>1. \A x \in CostFields : g[p][x] = f[p][x] \/ Missing(g[p][x])
      BY <1>2 DEF FewerByPod, FewerFields
    <3>2. CASE n[p] # m[p]
      BY <3>2, UnmeasuredAssumption DEF FewerFlags, PodBelowFloor
    <3>3. CASE \E x \in CostFields : Missing(g[p][x])
      BY <3>3 DEF PodBelowFloor, CostFields, Missing
    <3>4. CASE n[p] = m[p] /\ \A x \in CostFields : g[p][x] = f[p][x]
      <4>1. g[p].ir = f[p].ir /\ g[p].cost = f[p].cost
            /\ g[p].capital = f[p].capital /\ g[p].volatility = f[p].volatility
        BY <3>4 DEF CostFields
      <4>. QED
        BY <2>1, <3>4, <4>1, Zenon DEF PodBelowFloor
    <3>. QED
      BY <3>1, <3>2, <3>3, <3>4
  <2>. QED
    BY <1>2, <2>1, Zenon DEF CostBreached, FewerByPod
<1>. QED
  BY <1>1, <1>2

------------------------------------------------------------------------------
(* The gate as a whole *)

LEMMA BlockedStaysBlocked ==
  ASSUME NEW i \in Inputs, NEW j \in Inputs, Loses(i, j), Breached(i) # {}
  PROVE  Breached(j) # {}
<1>1. PICK l \in Layers : l \in Breached(i)
  BY DEF Breached
<1>2. CASE FundBreached(j.fund)
  BY <1>2 DEF Breached, Layers
<1>3. CASE ~FundBreached(j.fund)
  <2>1. /\ j.fund # Unmeasured /\ j.fund \in [FundFields -> Reading]
        /\ i.fund # Unmeasured /\ i.fund \in [FundFields -> Reading]
    BY <1>3 DEF FundBreached, Loses, Fewer, Inputs
  <2>2. j.fund.drawdown = i.fund.drawdown
    <3>1. ~Missing(j.fund.drawdown)
      BY <1>3 DEF FundBreached
    <3>. QED
      BY <2>1, <3>1 DEF Loses, Fewer, FewerFields, FundFields
  <2>3. BookWeights(j) = BookWeights(i)
    <3>1. CutsGross(j.fund) <=> CutsGross(i.fund)
      BY <2>1, <2>2, Zenon DEF CutsGross
    <3>2. j.targets = i.targets /\ j.weights = i.weights
      BY DEF Loses, OptionalKept
    <3>. QED
      BY <3>1, <3>2, Zenon DEF BookWeights, NettedBook, Halves
  <2>4. CASE l = "health"
    <3>1. \E c \in Checks : i.health[c] # TRUE
      BY <1>1, <2>4 DEF Breached
    <3>2. \E c \in Checks : j.health[c] # TRUE
      BY <3>1, UnmeasuredAssumption DEF Loses, FewerFlags, Inputs
    <3>. QED
      BY <3>2 DEF Breached, Layers
  <2>5. CASE l = "orders"
    BY <1>1, <2>5 DEF Breached, Layers, Loses
  <2>6. CASE l = "book"
    <3>1. BookBreached(i.book, BookWeights(i), i.sectors, i.betas)
      BY <1>1, <2>6 DEF Breached
    <3>2. /\ FewerFields(j.book, i.book)
          /\ FewerValues(j.sectors, i.sectors) /\ FewerValues(j.betas, i.betas)
          /\ i.book \in [BookFields -> Reading] /\ j.book \in [BookFields -> Reading]
      BY DEF Loses, Inputs
    <3>3. BookBreached(j.book, BookWeights(j), j.sectors, j.betas)
      BY <3>1, <3>2, <2>3, BookStaysBreached
    <3>. QED
      BY <3>3, Zenon DEF Breached, Layers
  <2>7. CASE l = "fund"
    <3>1. FundBreached(i.fund)
      BY <1>1, <2>7 DEF Breached
    <3>. QED
      BY <3>1, <1>3, <2>1, FundStaysBreached DEF Loses, OptionalKept
  <2>8. CASE l = "financing"
    <3>1. FinancingBreached(i.financing, i.shares)
      BY <1>1, <2>8 DEF Breached
    <3>2. FinancingBreached(j.financing, j.shares)
      BY <3>1, FinancingStaysBreached DEF Loses, OptionalKept, Inputs
    <3>. QED
      BY <3>2, Zenon DEF Breached, Layers
  <2>9. CASE l = "capacity"
    <3>1. CapacityBreached(j.capacity, j.adv_measured)
      BY <1>1, <2>9, CapacityStaysBreached DEF Breached, Loses, Inputs
    <3>. QED
      BY <3>1, Zenon DEF Breached, Layers
  <2>10. CASE l = "cost"
    <3>1. CostBreached(j.cost, j.cost_measured)
      BY <1>1, <2>10, CostStaysBreached DEF Breached, Loses, Inputs
    <3>. QED
      BY <3>1, Zenon DEF Breached, Layers
  <2>. QED
    BY <1>1, <2>4, <2>5, <2>6, <2>7, <2>8, <2>9, <2>10 DEF Layers
<1>. QED
  BY <1>2, <1>3

------------------------------------------------------------------------------
(* Sums *)

\* What the library's sum computes on the way: the sum over every subset of S.
Pick(S) == CHOOSE x \in S : TRUE

Adds(g, f, S) == g = [T \in SUBSET S |-> IF T = {} THEN 0
                                         ELSE f[Pick(T)] + g[T \ {Pick(T)}]]

SmallAdds(g, f, S, n) ==
    g = [T \in {U \in SUBSET S : Cardinality(U) <= n} |->
           IF T = {} THEN 0 ELSE f[Pick(T)] + g[T \ {Pick(T)}]]

LEMMA SumIsChosen ==
  ASSUME NEW f, NEW S
  PROVE  SumFunctionOnSet(f, S) = (CHOOSE g : Adds(g, f, S))[S]
BY DEF SumFunctionOnSet, FoldFunctionOnSet, MapThenFoldSet, Adds, Pick

LEMMA PickIn ==
  ASSUME NEW S, S # {}
  PROVE  Pick(S) \in S
BY DEF Pick

\* A set of naturals that is not empty has a least member.
LEMMA LeastNatural ==
    ASSUME NEW S \in SUBSET Nat, S # {}
    PROVE  \E x \in S : \A y \in S : x <= y
<1>. DEFINE less == OpToRel(<, Nat)
<1>1. IsWellFoundedOn(less, Nat)
  BY NatLessThanWellFounded
<1>2. \A i, j \in Nat : i < j => <<i, j>> \in less
  BY Zenon DEF OpToRel
<1>. HIDE DEF less
<1>3. PICK x \in S : \A y \in S : <<y, x>> \notin less
  BY <1>1, WFMin
<1>4. ASSUME NEW y \in S
      PROVE  x <= y
  <2>1. x \in Nat /\ y \in Nat /\ ~(y < x)
    BY <1>2, <1>3, Zenon
  <2>. QED  BY <2>1
<1>. QED  BY <1>4

\* A set of subsets that is closed under adding one element holds them all.
LEMMA SubsetInduction ==
  ASSUME NEW S, IsFiniteSet(S), NEW Good, {} \in Good,
         \A T \in SUBSET S : T # {} /\ T \ {Pick(T)} \in Good => T \in Good
  PROVE  \A T \in SUBSET S : T \in Good
<1>. DEFINE bad == {n \in Nat : \E T \in SUBSET S : Cardinality(T) = n /\ T \notin Good}
<1>1. SUFFICES bad = {}
  <2>1. ASSUME NEW T \in SUBSET S
        PROVE  Cardinality(T) \in Nat
    BY FS_Subset, FS_CardinalityType
  <2>. QED  BY <2>1
<1>2. SUFFICES ASSUME bad # {}
               PROVE  FALSE
  OBVIOUS
<1>3. PICK n \in bad : \A k \in bad : n <= k
  <2>1. bad \in SUBSET Nat
    OBVIOUS
  <2>. HIDE DEF bad
  <2>. QED  BY <1>2, <2>1, LeastNatural
<1>4. PICK T \in SUBSET S : Cardinality(T) = n /\ T \notin Good
  BY <1>3
<1>5. T # {}
  BY <1>4
<1>. DEFINE U == T \ {Pick(T)}
<1>6. U \in SUBSET S /\ Cardinality(U) = n - 1 /\ n - 1 \in Nat
  <2>1. IsFiniteSet(T) /\ Pick(T) \in T
    BY <1>5, FS_Subset, PickIn
  <2>2. IsFiniteSet(U) /\ Cardinality(U) = n - 1
    BY <1>4, <2>1, FS_RemoveElement
  <2>. QED  BY <2>2, FS_CardinalityType
<1>7. U \in Good
  <2>1. n - 1 \notin bad
    <3>. HIDE DEF bad
    <3>1. n - 1 \in bad => n <= n - 1
      BY <1>3
    <3>2. n \in Nat
      BY <1>3 DEF bad
    <3>. QED  BY <3>1, <3>2
  <2>. QED  BY <1>6, <2>1
<1>. QED  BY <1>4, <1>5, <1>7

LEMMA SmallAddsExist ==
  ASSUME NEW f, NEW S, IsFiniteSet(S), NEW n \in Nat
  PROVE  \E g : SmallAdds(g, f, S, n)
<1>. DEFINE bad == {k \in Nat : ~\E g : SmallAdds(g, f, S, k)}
<1>1. SUFFICES bad = {}
  OBVIOUS
<1>2. SUFFICES ASSUME bad # {}
               PROVE  FALSE
  OBVIOUS
<1>3. PICK k \in bad : \A j \in bad : k <= j
  <2>1. bad \in SUBSET Nat
    OBVIOUS
  <2>. HIDE DEF bad
  <2>. QED  BY <1>2, <2>1, LeastNatural
<1>4. k \in Nat /\ ~\E g : SmallAdds(g, f, S, k)
  BY <1>3
<1>5. \A T \in SUBSET S : IsFiniteSet(T) /\ Cardinality(T) \in Nat
  BY FS_Subset, FS_CardinalityType
<1>. DEFINE small(j) == {U \in SUBSET S : Cardinality(U) <= j}
<1>6. CASE k = 0
  <2>1. \A T \in small(0) : T = {}
    <3>1. ASSUME NEW T \in small(0)
          PROVE  T = {}
      <4>1. IsFiniteSet(T) /\ Cardinality(T) = 0
        BY <1>5
      <4>. QED  BY <4>1, FS_EmptySet
    <3>. QED  BY <3>1
  <2>. DEFINE g == [T \in small(0) |-> 0]
  <2>2. g = [T \in small(0) |-> IF T = {} THEN 0 ELSE f[Pick(T)] + g[T \ {Pick(T)}]]
    BY <2>1
  <2>3. SmallAdds(g, f, S, 0)
    BY <2>2 DEF SmallAdds
  <2>. QED  BY <1>4, <1>6, <2>3
<1>7. CASE k # 0
  <2>1. k - 1 \in Nat
    BY <1>4, <1>7
  <2>2. k - 1 \notin bad
    <3>. HIDE DEF bad
    <3>1. k - 1 \in bad => k <= k - 1
      BY <1>3
    <3>. QED  BY <1>4, <3>1
  <2>3. PICK h : SmallAdds(h, f, S, k - 1)
    BY <2>1, <2>2
  <2>. DEFINE value(r, T) == IF T = {} THEN 0 ELSE f[Pick(T)] + r[T \ {Pick(T)}]
              g == [T \in small(k) |-> value(h, T)]
  <2>4. ASSUME NEW T \in small(k), T # {}
        PROVE  T \ {Pick(T)} \in small(k - 1)
    <3>1. Cardinality(T \ {Pick(T)}) = Cardinality(T) - 1
      BY <1>5, <2>4, PickIn, FS_RemoveElement
    <3>2. Cardinality(T) \in Nat /\ Cardinality(T) <= k
      BY <1>5
    <3>. QED  BY <3>1, <3>2, <1>4
  <2>5. small(k - 1) \subseteq small(k)
    BY <1>4, <1>5
  <2>6. ASSUME NEW T \in small(k - 1)
        PROVE  g[T] = h[T]
    <3>1. h = [U \in small(k - 1) |-> value(h, U)]
      BY <2>3, Zenon DEF SmallAdds
    <3>2. h[T] = value(h, T)
      <4>. HIDE DEF value, small
      <4>. QED  BY <3>1
    <3>3. g[T] = value(h, T)
      <4>. HIDE DEF value, small
      <4>. QED  BY <2>5
    <3>. QED  BY <3>2, <3>3, Zenon
  <2>7. \A T \in small(k) : value(h, T) = value(g, T)
    <3>1. ASSUME NEW T \in small(k), T # {}
          PROVE  h[T \ {Pick(T)}] = g[T \ {Pick(T)}]
      <4>. HIDE DEF g, small
      <4>. QED  BY <2>4, <2>6, <3>1
    <3>. HIDE DEF g, small
    <3>. QED  BY <3>1
  <2>8. g = [T \in small(k) |-> value(g, T)]
    <3>1. [T \in small(k) |-> value(h, T)] = [T \in small(k) |-> value(g, T)]
      <4>. HIDE DEF g, small, value
      <4>. QED  BY <2>7
    <3>. QED  BY <3>1, Zenon
  <2>9. SmallAdds(g, f, S, k)
    <3>. HIDE DEF g
    <3>. QED BY <2>8, Zenon DEF SmallAdds
  <2>. QED  BY <1>4, <2>9
<1>. QED  BY <1>6, <1>7

LEMMA AddsExists ==
  ASSUME NEW f, NEW S, IsFiniteSet(S)
  PROVE  \E g : Adds(g, f, S)
<1>. DEFINE n == Cardinality(S)
<1>1. n \in Nat
  BY FS_CardinalityType
<1>2. {U \in SUBSET S : Cardinality(U) <= n} = SUBSET S
  BY FS_Subset
<1>3. PICK g : SmallAdds(g, f, S, n)
  BY <1>1, SmallAddsExist
<1>4. Adds(g, f, S)
  BY <1>2, <1>3, Zenon DEF SmallAdds, Adds
<1>. QED  BY <1>4

\* The sums over the subsets do not depend on the set they are taken in.
LEMMA AddsAgree ==
  ASSUME NEW f, NEW S, IsFiniteSet(S), NEW T \in SUBSET S,
         NEW g, NEW h, Adds(g, f, S), Adds(h, f, T)
  PROVE  g[T] = h[T]
<1>. DEFINE same == {U \in SUBSET T : g[U] = h[U]}
<1>1. IsFiniteSet(T)
  BY FS_Subset
<1>2. ASSUME NEW U \in SUBSET T
      PROVE  /\ U = {} => g[U] = 0 /\ h[U] = 0
             /\ U # {} => g[U] = f[Pick(U)] + g[U \ {Pick(U)}]
             /\ U # {} => h[U] = f[Pick(U)] + h[U \ {Pick(U)}]
  <2>. DEFINE value(r, V) == IF V = {} THEN 0 ELSE f[Pick(V)] + r[V \ {Pick(V)}]
  <2>1. U \in SUBSET S
    OBVIOUS
  <2>2. g = [V \in SUBSET S |-> value(g, V)] /\ h = [V \in SUBSET T |-> value(h, V)]
    BY Zenon DEF Adds
  <2>3. g[U] = value(g, U) /\ h[U] = value(h, U)
    <3>. HIDE DEF value
    <3>. QED  BY <2>1, <2>2
  <2>. QED  BY <2>3
<1>3. {} \in same
  BY <1>2
<1>4. ASSUME NEW U \in SUBSET T, U # {}, U \ {Pick(U)} \in same
      PROVE  U \in same
  BY <1>2, <1>4
<1>5. \A U \in SUBSET T : U \in same
  <2>. HIDE DEF same
  <2>. QED  BY <1>1, <1>3, <1>4, SubsetInduction
<1>. QED  BY <1>5

\* What the library's sum is: nothing over nothing, and else one value more than
\* the sum over the rest.
LEMMA SumStep ==
  ASSUME NEW f, NEW S, IsFiniteSet(S)
  PROVE  SumFunctionOnSet(f, S) =
           IF S = {} THEN 0
           ELSE f[Pick(S)] + SumFunctionOnSet(f, S \ {Pick(S)})
<1>. DEFINE g == CHOOSE r : Adds(r, f, S)
            U == S \ {Pick(S)}
            h == CHOOSE r : Adds(r, f, U)
<1>1. IsFiniteSet(U)
  BY FS_Subset
<1>2. Adds(g, f, S) /\ Adds(h, f, U)
  BY <1>1, AddsExists
<1>3. SumFunctionOnSet(f, S) = g[S] /\ SumFunctionOnSet(f, U) = h[U]
  BY SumIsChosen
<1>. HIDE DEF g, h
<1>4. g[U] = h[U]
  BY <1>2, AddsAgree
<1>5. g[S] = IF S = {} THEN 0 ELSE f[Pick(S)] + g[U]
  BY <1>2 DEF Adds
<1>. QED  BY <1>3, <1>4, <1>5

LEMMA SumOfNothing ==
  ASSUME NEW f
  PROVE  SumFunctionOnSet(f, {}) = 0
BY SumStep, FS_EmptySet

LEMMA SumIsInt ==
  ASSUME NEW S, IsFiniteSet(S), NEW f, \A x \in S : f[x] \in Int
  PROVE  SumFunctionOnSet(f, S) \in Int
<1>. DEFINE good == {T \in SUBSET S : SumFunctionOnSet(f, T) \in Int}
<1>1. \A T \in SUBSET S : IsFiniteSet(T)
  BY FS_Subset
<1>2. {} \in good
  BY SumOfNothing
<1>3. ASSUME NEW T \in SUBSET S, T # {}, T \ {Pick(T)} \in good
      PROVE  T \in good
  <2>1. SumFunctionOnSet(f, T) = f[Pick(T)] + SumFunctionOnSet(f, T \ {Pick(T)})
    BY <1>1, <1>3, SumStep
  <2>2. f[Pick(T)] \in Int
    BY <1>3, PickIn
  <2>. QED  BY <1>3, <2>1, <2>2
<1>4. \A T \in SUBSET S : T \in good
  <2>. HIDE DEF good
  <2>. QED  BY <1>2, <1>3, SubsetInduction
<1>. QED  BY <1>4

LEMMA SumAdds ==
  ASSUME NEW S, IsFiniteSet(S), NEW f, NEW g, NEW h,
         \A x \in S : f[x] \in Int /\ g[x] \in Int /\ h[x] = f[x] + g[x]
  PROVE  SumFunctionOnSet(h, S) = SumFunctionOnSet(f, S) + SumFunctionOnSet(g, S)
<1>. DEFINE good == {T \in SUBSET S : SumFunctionOnSet(h, T)
                       = SumFunctionOnSet(f, T) + SumFunctionOnSet(g, T)}
<1>1. \A T \in SUBSET S : IsFiniteSet(T) /\ SumFunctionOnSet(f, T) \in Int
                                         /\ SumFunctionOnSet(g, T) \in Int
  BY FS_Subset, SumIsInt
<1>2. {} \in good
  BY SumOfNothing
<1>3. ASSUME NEW T \in SUBSET S, T # {}, T \ {Pick(T)} \in good
      PROVE  T \in good
  <2>. DEFINE U == T \ {Pick(T)}
  <2>1. /\ SumFunctionOnSet(f, T) = f[Pick(T)] + SumFunctionOnSet(f, U)
        /\ SumFunctionOnSet(g, T) = g[Pick(T)] + SumFunctionOnSet(g, U)
        /\ SumFunctionOnSet(h, T) = h[Pick(T)] + SumFunctionOnSet(h, U)
    BY <1>1, <1>3, SumStep
  <2>2. f[Pick(T)] \in Int /\ g[Pick(T)] \in Int /\ h[Pick(T)] = f[Pick(T)] + g[Pick(T)]
    BY <1>3, PickIn
  <2>3. SumFunctionOnSet(h, U) = SumFunctionOnSet(f, U) + SumFunctionOnSet(g, U)
        /\ SumFunctionOnSet(f, U) \in Int /\ SumFunctionOnSet(g, U) \in Int
    BY <1>1, <1>3
  <2>. HIDE DEF U
  <2>4. SumFunctionOnSet(h, T) = SumFunctionOnSet(f, T) + SumFunctionOnSet(g, T)
    BY <2>1, <2>2, <2>3
  <2>. QED  BY <2>4
<1>4. \A T \in SUBSET S : T \in good
  <2>. HIDE DEF good
  <2>. QED  BY <1>2, <1>3, SubsetInduction
<1>. QED  BY <1>4

\* The size of a sum is at most the sum of the sizes.
LEMMA SumTriangle ==
  ASSUME NEW S, IsFiniteSet(S), NEW f, NEW g,
         \A x \in S : f[x] \in Int /\ g[x] = Size(f[x])
  PROVE  Size(SumFunctionOnSet(f, S)) <= SumFunctionOnSet(g, S)
<1>. DEFINE good == {T \in SUBSET S :
                       Size(SumFunctionOnSet(f, T)) <= SumFunctionOnSet(g, T)}
<1>0. \A x \in S : g[x] \in Int
  BY DEF Size
<1>1. \A T \in SUBSET S : IsFiniteSet(T) /\ SumFunctionOnSet(f, T) \in Int
                                         /\ SumFunctionOnSet(g, T) \in Int
  BY <1>0, FS_Subset, SumIsInt
<1>2. {} \in good
  <2>1. SumFunctionOnSet(f, {}) = 0 /\ SumFunctionOnSet(g, {}) = 0
    BY <1>1, SumStep
  <2>. QED  BY <2>1 DEF Size
<1>3. ASSUME NEW T \in SUBSET S, T # {}, T \ {Pick(T)} \in good
      PROVE  T \in good
  <2>. DEFINE U == T \ {Pick(T)}
  <2>1. /\ SumFunctionOnSet(f, T) = f[Pick(T)] + SumFunctionOnSet(f, U)
        /\ SumFunctionOnSet(g, T) = g[Pick(T)] + SumFunctionOnSet(g, U)
    BY <1>1, <1>3, SumStep
  <2>2. f[Pick(T)] \in Int /\ g[Pick(T)] = Size(f[Pick(T)])
    BY <1>3, PickIn
  <2>3. Size(SumFunctionOnSet(f, U)) <= SumFunctionOnSet(g, U)
        /\ SumFunctionOnSet(f, U) \in Int /\ SumFunctionOnSet(g, U) \in Int
    BY <1>1, <1>3
  <2>. HIDE DEF U
  <2>4. Size(SumFunctionOnSet(f, T)) <= SumFunctionOnSet(g, T)
    BY <2>1, <2>2, <2>3 DEF Size
  <2>. QED  BY <2>4
<1>4. \A T \in SUBSET S : T \in good
  <2>. HIDE DEF good
  <2>. QED  BY <1>2, <1>3, SubsetInduction
<1>. QED  BY <1>4

\* What is bounded name by name, by a multiple of the names' flows over all the
\* pods, is bounded in sum: the two sums of the flows may be taken in either order.
LEMMA SumsBounded ==
  ASSUME IsFiniteSet(Symbols), IsFiniteSet(Pods), NEW flow, NEW n, NEW k \in {1, 2},
         \A p \in Pods, s \in Symbols : flow[p][s] \in Int,
         \A s \in Symbols : /\ n[s] \in Int
                            /\ n[s] <= k * SumFunctionOnSet([p \in Pods |-> flow[p][s]], Pods)
  PROVE  SumFunctionOnSet(n, Symbols)
           <= k * SumFunctionOnSet([p \in Pods |-> SumFunctionOnSet(flow[p], Symbols)], Pods)
<1>. DEFINE rows(T) == [p \in Pods |-> SumFunctionOnSet(flow[p], T)]
            column(s) == [p \in Pods |-> flow[p][s]]
            good == {T \in SUBSET Symbols :
                       SumFunctionOnSet(n, T) <= k * SumFunctionOnSet(rows(T), Pods)}
<1>1. \A T \in SUBSET Symbols : /\ IsFiniteSet(T) 
                                /\ SumFunctionOnSet(n, T) \in Int
                                /\ \A p \in Pods : SumFunctionOnSet(flow[p], T) \in Int
  BY FS_Subset, SumIsInt
<1>2. \A T \in SUBSET Symbols : SumFunctionOnSet(rows(T), Pods) \in Int
  <2>1. ASSUME NEW T \in SUBSET Symbols
        PROVE  \A p \in Pods : rows(T)[p] \in Int
    BY <1>1
  <2>. HIDE DEF rows
  <2>. QED  BY <2>1, SumIsInt
<1>3. {} \in good
  <2>1. SumFunctionOnSet(n, {}) = 0 /\ \A p \in Pods : SumFunctionOnSet(flow[p], {}) = 0
    BY <1>1, SumStep
  <2>2. \A p \in Pods : rows({})[p] = 0 /\ 0 = 0 + 0
    BY <2>1
  <2>3. SumFunctionOnSet(rows({}), Pods)
          = SumFunctionOnSet(rows({}), Pods) + SumFunctionOnSet(rows({}), Pods)
    <3>. HIDE DEF rows
    <3>1. \A p \in Pods : /\ rows({})[p] \in Int
                          /\ rows({})[p] = rows({})[p] + rows({})[p]
      BY <2>2
    <3>. QED  BY <3>1, SumAdds
  <2>4. SumFunctionOnSet(rows({}), Pods) = 0
    <3>. HIDE DEF rows
    <3>. QED  BY <1>2, <2>3
  <2>. HIDE DEF rows
  <2>. QED  BY <2>1, <2>4
<1>4. ASSUME NEW T \in SUBSET Symbols, T # {}, T \ {Pick(T)} \in good
      PROVE  T \in good
  <2>. DEFINE x == Pick(T)
              U == T \ {x}
  <2>0. x \in Symbols /\ U \in SUBSET Symbols
    BY <1>4, PickIn
  <2>1. SumFunctionOnSet(n, T) = n[x] + SumFunctionOnSet(n, U)
    BY <1>1, <1>4, SumStep
  <2>2. ASSUME NEW p \in Pods
        PROVE  /\ rows(U)[p] \in Int /\ column(x)[p] \in Int
               /\ rows(T)[p] = column(x)[p] + rows(U)[p]
    <3>1. SumFunctionOnSet(flow[p], T) = flow[p][x] + SumFunctionOnSet(flow[p], U)
      BY <1>1, <1>4, SumStep
    <3>. HIDE DEF U, x
    <3>. QED  BY <1>1, <2>0, <3>1
  <2>. HIDE DEF U, x, rows, column
  <2>3. SumFunctionOnSet(rows(T), Pods)
          = SumFunctionOnSet(column(x), Pods) + SumFunctionOnSet(rows(U), Pods)
    BY <2>2, SumAdds
  <2>4. SumFunctionOnSet(column(x), Pods) \in Int
    BY <2>2, SumIsInt
  <2>5. n[x] \in Int /\ n[x] <= k * SumFunctionOnSet(column(x), Pods)
    BY <2>0 DEF column
  <2>6. SumFunctionOnSet(n, U) <= k * SumFunctionOnSet(rows(U), Pods)
    BY <1>4 DEF U, x
  <2>7. SumFunctionOnSet(rows(U), Pods) \in Int /\ SumFunctionOnSet(n, U) \in Int
    BY <1>1, <1>2, <2>0
  <2>8. SumFunctionOnSet(n, T) <= k * SumFunctionOnSet(rows(T), Pods)
    BY <2>1, <2>3, <2>4, <2>5, <2>6, <2>7
  <2>. QED  BY <2>8
<1>5. \A T \in SUBSET Symbols : T \in good
  <2>. HIDE DEF good
  <2>. QED  BY <1>3, <1>4, SubsetInduction
<1>6. Symbols \in good
  BY <1>5
<1>. QED  BY <1>6

------------------------------------------------------------------------------
(* The book the pods are netted into *)

LEMMA NetIsSum ==
  ASSUME NEW t \in [Pods -> [Symbols -> Number]], NEW s \in Symbols,
         Net(t, s) # NaN
  PROVE  /\ \A p \in Pods : t[p][s] \in Int
         /\ Net(t, s) = SumFunctionOnSet([p \in Pods |-> t[p][s]], Pods)
         /\ Net(t, s) \in Int
<1>1. \A p \in Pods : t[p][s] # NaN
  BY DEF Net
<1>2. \A p \in Pods : t[p][s] \in Int
  BY <1>1 DEF Number
<1>. DEFINE column == [p \in Pods |-> t[p][s]]
<1>3. DOMAIN column = Pods /\ \A p \in Pods : column[p] \in Int
  BY <1>2
<1>4. Net(t, s) = SumFunction(column)
  BY <1>1, Zenon DEF Net
<1>. HIDE DEF column
<1>5. SumFunction(column) = SumFunctionOnSet(column, Pods)
  BY <1>3, Zenon DEF SumFunction
<1>6. SumFunctionOnSet(column, Pods) \in Int
  BY <1>3, TableAssumption, SumIsInt
<1>. QED  BY <1>2, <1>4, <1>5, <1>6 DEF column

\* Trimming and halving keep the sign, and make nothing larger.
LEMMA TrimReduces ==
  ASSUME NEW w \in Int, NEW k \in {1, 2}
  PROVE  /\ Scale(Trim(w), k) \in Int
         /\ Size(Scale(Trim(w), k)) <= k * Size(w)
         /\ Size(Scale(Trim(w), k)) <= k * Limits.single_name
         /\ Scale(Trim(w), k) * w >= 0
<1>1. Limits.single_name \in Nat /\ NaN \notin Int
  BY TableAssumption, UnmeasuredAssumption, Zenon
<1>. DEFINE cap == Limits.single_name
<1>2. Trim(w) = IF w > cap THEN cap ELSE IF w < -cap THEN -cap ELSE w
  BY <1>1 DEF Trim
<1>. HIDE DEF cap
<1>3. /\ Trim(w) \in Int /\ Size(Trim(w)) <= Size(w) /\ Size(Trim(w)) <= cap
      /\ w >= 0 => Trim(w) >= 0
      /\ w <= 0 => Trim(w) <= 0
  BY <1>1, <1>2 DEF Size, cap
<1>. DEFINE v == Trim(w)
<1>4. Scale(v, k) = v * k
  BY <1>1, <1>3 DEF Scale
<1>. HIDE DEF v
<1>5. v * k \in Int /\ Size(v * k) <= k * Size(w) /\ Size(v * k) <= k * cap
  BY <1>1, <1>3 DEF Size, v, cap
<1>6. (v * k) * w >= 0
  <2>1. CASE w >= 0
    <3>1. v * k >= 0 /\ v * k \in Int
      BY <1>3, <2>1 DEF v
    <3>. QED  BY <2>1, <3>1
  <2>2. CASE w <= 0
    <3>1. v * k <= 0 /\ v * k \in Int
      BY <1>3, <2>2 DEF v
    <3>. QED  BY <2>2, <3>1
  <2>. QED  BY <2>1, <2>2
<1>. QED  BY <1>4, <1>5, <1>6 DEF v, cap

\* Name by name: what the netted book holds of a name the pods' net is known of.
LEMMA NameIsReduced ==
  ASSUME NEW i \in Inputs, i.targets # Unmeasured, NEW s \in Symbols,
         Net(i.targets, s) # NaN
  PROVE  /\ NettedBook(i)[s] \in Int
         /\ Size(NettedBook(i)[s]) <= Halves(i) * Size(Net(i.targets, s))
         /\ Size(NettedBook(i)[s]) <= Halves(i) * Limits.single_name
         /\ NettedBook(i)[s] * Net(i.targets, s) >= 0
<1>1. i.targets \in [Pods -> [Symbols -> Number]]
  BY DEF Inputs
<1>2. Net(i.targets, s) \in Int
  BY <1>1, NetIsSum
<1>3. Halves(i) \in {1, 2}
  BY DEF Halves
<1>4. NettedBook(i)[s] = Scale(Trim(Net(i.targets, s)), Halves(i))
  BY DEF NettedBook
<1>. QED  BY <1>2, <1>3, <1>4, TrimReduces

\* The whole book: no larger than the pods' own flows, halved when the fund says so.
LEMMA BookIsReduced ==
  ASSUME NEW i \in Inputs, i.targets # Unmeasured,
         \A p \in Pods, s \in Symbols : i.targets[p][s] # NaN
  PROVE  SumFunction([s \in Symbols |-> Size(NettedBook(i)[s])])
           <= Halves(i) * SumFunction([p \in Pods |->
                            SumFunction([s \in Symbols |-> Size(i.targets[p][s])])])
<1>. DEFINE t == i.targets
            flow == [p \in Pods |-> [s \in Symbols |-> Size(t[p][s])]]
            n == [s \in Symbols |-> Size(NettedBook(i)[s])]
            column(s) == [p \in Pods |-> t[p][s]]
            sizes(s) == [p \in Pods |-> flow[p][s]]
<1>0. IsFiniteSet(Symbols) /\ IsFiniteSet(Pods) /\ NaN \notin Int
  BY TableAssumption, UnmeasuredAssumption, Zenon
<1>1. t \in [Pods -> [Symbols -> Number]]
  BY DEF Inputs
<1>2. \A p \in Pods, s \in Symbols : t[p][s] \in Int
  BY <1>1 DEF Number
<1>3. ASSUME NEW p \in Pods, NEW s \in Symbols
      PROVE  flow[p][s] \in Int /\ flow[p][s] = Size(t[p][s])
  BY <1>2 DEF Size
<1>4. ASSUME NEW s \in Symbols
      PROVE  /\ n[s] \in Int
             /\ n[s] <= Halves(i) * SumFunctionOnSet(sizes(s), Pods)
  <2>1. \A p \in Pods : column(s)[p] \in Int /\ sizes(s)[p] = Size(column(s)[p])
    BY <1>2
  <2>2. Net(t, s) = SumFunction(column(s)) /\ SumFunction(column(s)) = SumFunctionOnSet(column(s), Pods)
    <3>1. DOMAIN column(s) = Pods
      OBVIOUS
    <3>. QED  BY <3>1, Zenon DEF Net, SumFunction
  <2>3. /\ SumFunctionOnSet(column(s), Pods) \in Int
        /\ SumFunctionOnSet(sizes(s), Pods) \in Int
        /\ Size(SumFunctionOnSet(column(s), Pods)) <= SumFunctionOnSet(sizes(s), Pods)
    <3>1. \A p \in Pods : sizes(s)[p] \in Int
      BY <1>3
    <3>. HIDE DEF column, sizes
    <3>. QED  BY <1>0, <2>1, <3>1, SumIsInt, SumTriangle
  <2>4. Net(t, s) \in Int /\ Net(t, s) # NaN
    BY <1>0, <2>2, <2>3
  <2>5. NettedBook(i)[s] \in Int /\ n[s] <= Halves(i) * Size(Net(t, s))
    BY <2>4, NameIsReduced
  <2>6. n[s] = Size(NettedBook(i)[s]) /\ Halves(i) \in {1, 2}
    BY DEF Halves
  <2>. HIDE DEF n, t, column, sizes
  <2>. QED  BY <2>2, <2>3, <2>4, <2>5, <2>6 DEF Size
<1>5. Halves(i) \in {1, 2}
  BY DEF Halves
<1>6. SumFunctionOnSet(n, Symbols)
        <= Halves(i) * SumFunctionOnSet([p \in Pods |-> SumFunctionOnSet(flow[p], Symbols)], Pods)
  <2>. HIDE DEF n, flow
  <2>. QED  BY <1>0, <1>3, <1>4, <1>5, SumsBounded
<1>7. SumFunction(n) = SumFunctionOnSet(n, Symbols)
  BY Zenon DEF SumFunction
<1>8. [p \in Pods |-> SumFunction([s \in Symbols |-> Size(t[p][s])])]
        = [p \in Pods |-> SumFunctionOnSet(flow[p], Symbols)]
  <2>1. ASSUME NEW p \in Pods
        PROVE  SumFunction([s \in Symbols |-> Size(t[p][s])])
                 = SumFunctionOnSet(flow[p], Symbols)
    <3>1. flow[p] = [s \in Symbols |-> Size(t[p][s])] /\ DOMAIN flow[p] = Symbols
      OBVIOUS
    <3>. HIDE DEF flow
    <3>. QED  BY <3>1, Zenon DEF SumFunction
  <2>. HIDE DEF flow, t
  <2>. QED  BY <2>1
<1>9. SumFunction([p \in Pods |-> SumFunction([s \in Symbols |-> Size(t[p][s])])])
        = SumFunctionOnSet([p \in Pods |-> SumFunctionOnSet(flow[p], Symbols)], Pods)
  <2>. DEFINE total == [p \in Pods |-> SumFunctionOnSet(flow[p], Symbols)]
  <2>1. DOMAIN total = Pods
    OBVIOUS
  <2>2. SumFunction(total) = SumFunctionOnSet(total, Pods)
    <3>. HIDE DEF total
    <3>. QED  BY <2>1, Zenon DEF SumFunction
  <2>. HIDE DEF flow
  <2>. QED  BY <1>8, <2>2, Zenon
<1>. HIDE DEF flow
<1>. QED  BY <1>6, <1>7, <1>9, Zenon

------------------------------------------------------------------------------
(* The temporal theorems *)

LEMMA NextIsRerun ==
  ASSUME Next
  PROVE  result' = RunDay(inputs')
  BY Zenon DEF Next, Rerun, CheckReports, OrdersMove, MeasureBook, MeasureWeight,
     MeasureSectors, MeasureBetas, Retarget, MeasureFund, MeasureFinancing,
     MeasureShares, MeasureCapacity, MeasureCost, MarkCapacity, MarkCost, LoseSnapshot

LEMMA InvNext ==
  ASSUME Inv, [Next]_vars
  PROVE  Inv'
<1>1. CASE UNCHANGED vars
  BY <1>1 DEF Inv, vars, RunDay, Breached, Halves, CutsGross, NettedBook, BookWeights
<1>2. CASE Next
  <2>1. result' = RunDay(inputs')
    BY <1>2, NextIsRerun
  <2>2. inputs' \in Inputs
    <3>. USE InputsAssumption DEF Inv, Rerun, Inputs, Numbers, Reading
    <3>1. ASSUME NEW c \in Checks, NEW r \in Flag, CheckReports(c, r)
          PROVE  inputs' \in Inputs
      BY <3>1 DEF CheckReports
    <3>2. ASSUME NEW open \in {{}} \cup {{s} : s \in OrderState}, OrdersMove(open)
          PROVE  inputs' \in Inputs
      BY <3>2 DEF OrdersMove
    <3>3. ASSUME NEW f \in BookFields, NEW x \in Values, MeasureBook(f, x)
          PROVE  inputs' \in Inputs
      BY <3>3 DEF MeasureBook
    <3>4. ASSUME NEW s \in Symbols, NEW x \in Numbers, MeasureWeight(s, x)
          PROVE  inputs' \in Inputs
      BY <3>4 DEF MeasureWeight
    <3>5. ASSUME NEW m \in Mappings, MeasureSectors(m) \/ MeasureBetas(m)
          PROVE  inputs' \in Inputs
      <4>1. m \in {Unmeasured} \cup SUBSET Reading
        BY DEF Mappings
      <4>2. CASE MeasureSectors(m)
        BY <4>1, <4>2 DEF MeasureSectors
      <4>3. CASE MeasureBetas(m)
        BY <4>1, <4>3 DEF MeasureBetas
      <4>. QED  BY <3>5, <4>2, <4>3
    <3>6. ASSUME NEW p \in Pods, NEW s \in Symbols, NEW x \in Numbers, Retarget(p, s, x)
          PROVE  inputs' \in Inputs
      BY <3>6 DEF Retarget
    <3>7. ASSUME NEW f \in FundFields, NEW x \in Values, MeasureFund(f, x)
          PROVE  inputs' \in Inputs
      BY <3>7 DEF MeasureFund
    <3>8. ASSUME NEW f \in FinancingFields, NEW x \in Values, MeasureFinancing(f, x)
          PROVE  inputs' \in Inputs
      BY <3>8 DEF MeasureFinancing
    <3>9. ASSUME NEW x \in Numbers, MeasureShares({x})
          PROVE  inputs' \in Inputs
      BY <3>9 DEF MeasureShares
    <3>10. ASSUME NEW p \in Pods, NEW f \in CapacityFields, NEW x \in Values,
                  MeasureCapacity(p, f, x)
           PROVE  inputs' \in Inputs
      BY <3>10 DEF MeasureCapacity
    <3>11. ASSUME NEW p \in Pods, NEW f \in CostFields, NEW x \in Values,
                  MeasureCost(p, f, x)
           PROVE  inputs' \in Inputs
      BY <3>11 DEF MeasureCost
    <3>12. ASSUME NEW l \in {"targets", "fund", "financing", "capacity", "cost"},
                  LoseSnapshot(l)
           PROVE  inputs' \in Inputs
      BY <3>12 DEF LoseSnapshot
    <3>13. ASSUME NEW p \in Pods, NEW r \in Flag, MarkCapacity(p, r) \/ MarkCost(p, r)
           PROVE  inputs' \in Inputs
      <4>1. CASE MarkCapacity(p, r)
        BY <4>1 DEF MarkCapacity
      <4>2. CASE MarkCost(p, r)
        BY <4>2 DEF MarkCost
      <4>. QED  BY <3>13, <4>1, <4>2
    <3>. HIDE DEF Inputs, Rerun, Inv
    <3>. QED
      BY <1>2, <3>1, <3>2, <3>3, <3>4, <3>5, <3>6, <3>7, <3>8, <3>9, <3>10, <3>11,
         <3>12, <3>13, Zenon DEF Next
  <2>. QED
    BY <2>1, <2>2 DEF Inv
<1>. QED
  BY <1>1, <1>2

LEMMA InvHolds == Spec => []Inv
<1>1. Init => Inv
  BY InputsAssumption DEF Init, Inv
<1>. QED
  BY <1>1, InvNext, PTL DEF Spec

\* Absence blocks, for every limits table: no measurement, health check or
\* snapshot can be lost on a blocked day and the day be opened by it.
THEOREM AbsenceBlocks == Spec => LosingNeverAllows
<1>1. ASSUME Inv, Inv', [Next]_vars, Loses(inputs, inputs'), result'.orders_allowed
      PROVE  result.orders_allowed
  <2>1. Breached(inputs') = {}
    BY <1>1 DEF Inv, RunDay
  <2>2. Breached(inputs) = {}
    BY <1>1, <2>1, BlockedStaysBlocked DEF Inv
  <2>. QED
    BY <1>1, <2>2 DEF Inv, RunDay
<1>2. Inv /\ Inv' /\ [Next]_vars =>
        [Loses(inputs, inputs') => (result'.orders_allowed => result.orders_allowed)]_vars
  BY <1>1
<1>. QED
  BY <1>2, InvHolds, PTL DEF Spec, LosingNeverAllows

\* The day that halves the targets is a day on which nothing may be opened.
THEOREM HalvedDayIsBlocked == Spec => []CutDaysOnlyClose
<1>1. ASSUME Inv, result.halves = 1
      PROVE  ~result.orders_allowed
  <2>1. CutsGross(inputs.fund)
    BY <1>1 DEF Inv, RunDay, Halves
  <2>2. FundBreached(inputs.fund)
    BY <2>1 DEF CutsGross, FundBreached
  <2>. QED
    BY <1>1, <2>2 DEF Inv, RunDay, Breached, Layers
<1>2. Inv => CutDaysOnlyClose
  BY <1>1 DEF CutDaysOnlyClose
<1>. QED
  BY <1>2, InvHolds, PTL

\* The book run_day hands out only reduces what the pods asked for: per name it is
\* no larger than their net or the cap and never reversed, and all together no
\* larger than their own flows; with the fund in its reduce tier, half of that
\* (center_book.py net_orders, pipeline.py 70-87).
THEOREM BookOnlyReduces == Spec => []OverlayOnlyReduces
<1>1. ASSUME Inv
      PROVE  OverlayOnlyReduces
  <2>1. SUFFICES ASSUME inputs.targets # Unmeasured
                 PROVE  OverlayOnlyReduces
    BY DEF OverlayOnlyReduces
  <2>2. /\ inputs \in Inputs
        /\ result.net_targets = NettedBook(inputs)
        /\ result.halves = Halves(inputs)
    BY <1>1, <2>1 DEF Inv, RunDay
  <2>3. ASSUME NEW s \in Symbols, Net(inputs.targets, s) # NaN
        PROVE  /\ Size(NettedBook(inputs)[s]) <= Halves(inputs) * Size(Net(inputs.targets, s))
               /\ Size(NettedBook(inputs)[s]) <= Halves(inputs) * Limits.single_name
               /\ NettedBook(inputs)[s] * Net(inputs.targets, s) >= 0
    BY <2>1, <2>2, <2>3, NameIsReduced
  <2>4. ASSUME \A p \in Pods, s \in Symbols : inputs.targets[p][s] # NaN
        PROVE  SumFunction([s \in Symbols |-> Size(NettedBook(inputs)[s])])
                 <= Halves(inputs) * SumFunction([p \in Pods |->
                      SumFunction([s \in Symbols |-> Size(inputs.targets[p][s])])])
    BY <2>1, <2>2, <2>4, BookIsReduced
  <2>. QED
    BY <2>2, <2>3, <2>4, Zenon DEF OverlayOnlyReduces
<1>2. Inv => OverlayOnlyReduces
  BY <1>1
<1>. QED
  BY <1>2, InvHolds, PTL

==============================================================================
