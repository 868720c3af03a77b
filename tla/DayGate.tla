------------------------------- MODULE DayGate -------------------------------
(* The fail-closed gate of the trading day (core/pipeline.py run_day).  A run
   reads the health report, the open orders, the pod book and four optional
   snapshots (fund, financing, capacity, cost), holds them against the limits
   table, nets the pods into one book, and says whether new orders may exist.

   A reading is an integer in the unit of its limit, or none: Unmeasured when it
   is absent or None, NaN when its computation failed.  limits.as_measurement
   takes both for no measurement (a string or a bool as well); a comparison of
   the raw value, as in check_financing, is false for NaN.  A weight, a pod's
   target or a broker's share that is None raises and leaves the day without a
   result, so these are numbers or NaN.  Weights are counted in shares of NAV;
   the netted book in halves of them, because the reduce tier multiplies by one
   half.  The desk runs the day again whenever a measurement arrives, changes or
   is lost, at most MaxChanges times. *)
EXTENDS Integers, FiniteSets, Functions, OrderStates

CONSTANTS Unmeasured, NaN, Symbols, Pods, Checks,
          Limits,        \* core/risk/limits.yaml
          Values,        \* the readings a measurement may take
          MaxChanges,
          FirstInputs    \* what the day starts from

\* Not a truth value: a check that did not run is not one that passed.  Not a
\* number either.
ASSUME UnmeasuredAssumption == /\ Unmeasured \notin BOOLEAN \cup Int
                               /\ NaN \notin BOOLEAN \cup Int
                               /\ NaN # Unmeasured

\* The caps bound sizes; frames and books are finite.
ASSUME TableAssumption == /\ Limits.single_name \in Nat
                          /\ IsFiniteSet(Symbols) /\ IsFiniteSet(Pods)

VARIABLES inputs, result, changes

vars == <<inputs, result, changes>>

Number == {NaN} \cup Int
Reading == {Unmeasured} \cup Number
BookFields == {"gross", "net", "liquidation", "volatility", "drawdown", "percentile"}
FundFields == {"var95", "es975", "pods", "correlation", "drawdown"}
FinancingFields == {"utilization", "cost", "cash"}
CapacityFields == {"tested", "participation", "allocated"}
CostFields == {"ir", "cost", "capital", "volatility"}

\* A flag may be absent.
Flag == BOOLEAN \cup {Unmeasured}

\* A mapping whose keys do not matter to a limit (sectors, factors, brokers) is
\* the set of its values; an empty snapshot counts as an absent one.  A capacity
\* or cost snapshot names every pod of Pods.
Inputs == [health    : [Checks -> Flag],
           orders    : SUBSET OrderState,
           book      : [BookFields -> Reading],
           weights   : [Symbols -> Number],
           sectors   : {Unmeasured} \cup SUBSET Reading,
           betas     : {Unmeasured} \cup SUBSET Reading,
           targets   : {Unmeasured} \cup [Pods -> [Symbols -> Number]],
           fund      : {Unmeasured} \cup [FundFields -> Reading],
           financing : {Unmeasured} \cup [FinancingFields -> Reading],
           shares    : SUBSET Number,
           capacity  : {Unmeasured} \cup [Pods -> [CapacityFields -> Reading]],
           cost      : {Unmeasured} \cup [Pods -> [CostFields -> Reading]],
           adv_measured  : [Pods -> Flag],
           cost_measured : [Pods -> Flag]]

ASSUME InputsAssumption == FirstInputs \subseteq Inputs /\ Values \subseteq Reading

Layers == {"health", "orders", "book", "fund", "financing", "capacity", "cost"}

\* as_measurement(x) is None.
Missing(x) == x \in {Unmeasured, NaN}

Outside(x, low, high) == Missing(x) \/ x < low \/ x > high
Above(x, high) == Missing(x) \/ x > high

\* The raw comparisons of Python: false when either side is NaN.
Exceeds(x, high) == x # NaN /\ x > high
FallsBelow(x, low) == x # NaN /\ x < low

Size(x) == IF x < 0 THEN -x ELSE x

------------------------------------------------------------------------------
(* Netting: core/portfolio/center_book.py *)

\* One symbol across the pods; NaN in any of them is NaN in the sum.
Net(targets, s) == IF \E p \in Pods : targets[p][s] = NaN
                   THEN NaN
                   ELSE SumFunction([p \in Pods |-> targets[p][s]])

\* Mutant: the cap loses the sign of the position.
TrimUnsigned(w) == IF w = NaN THEN w
                   ELSE IF Size(w) > Limits.single_name THEN Limits.single_name
                   ELSE w

\* A NaN is larger than nothing: it is not trimmed.
Trim(w) == IF w = NaN THEN w
           ELSE IF w > Limits.single_name THEN Limits.single_name
           ELSE IF w < -Limits.single_name THEN -Limits.single_name
           ELSE w

Scale(w, halves) == IF w = NaN THEN w ELSE w * halves

------------------------------------------------------------------------------
(* The limit checks: one operator a layer, TRUE when it reports a breach *)

DrawdownTier(dd, pct) == \E t \in {"warn", "cut", "stop"} :
                           /\ dd <= Limits.pod_dd[t].abs
                           /\ pct > Limits.pod_dd[t].pct

Held(w) == \E s \in Symbols : w[s] # NaN /\ w[s] # 0

SectorsBreached(sectors, w) ==
    \/ sectors = Unmeasured
    \/ sectors = {} /\ Held(w)
    \/ \E x \in sectors : Outside(x, -Limits.sector, Limits.sector)

BetasBreached(betas) ==
    \/ betas = Unmeasured
    \/ betas = {}
    \/ \E x \in betas : Outside(x, -Limits.beta, Limits.beta)

\* Mutant: an absent horizon reads as zero days, the most forgiving number.
LiquidityAtZero(days) == ~Missing(days) /\ days > Limits.liquidation

LiquidityBreached(days) == Outside(days, 0, Limits.liquidation)

BookBreached(b, w, sectors, betas) ==
    \/ Above(b.gross, Limits.gross)
    \/ Outside(b.net, Limits.net_low, Limits.net_high)
    \/ \E s \in Symbols : w[s] # NaN /\ Size(w[s]) > 2 * Limits.single_name
    \/ SectorsBreached(sectors, w)
    \/ BetasBreached(betas)
    \/ LiquidityBreached(b.liquidation)
    \/ Outside(b.volatility, 0, Limits.volatility)
    \/ Missing(b.drawdown) \/ Missing(b.percentile)
    \/ DrawdownTier(b.drawdown, b.percentile)

\* One pod has nothing to correlate with; silence about the count is no such fact.
CorrelationBreached(f) ==
    \/ Missing(f.pods) \/ f.pods < 1
    \/ Missing(f.correlation) /\ f.pods # 1
    \/ ~Missing(f.correlation) /\ f.correlation > Limits.correlation

FundBreached(f) ==
    \/ f = Unmeasured
    \/ Above(f.var95, Limits.var95)
    \/ Above(f.es975, Limits.es975)
    \/ CorrelationBreached(f)
    \/ Missing(f.drawdown) \/ f.drawdown <= Limits.reduce

\* The action of the most severe tier only: under the halt nothing is halved.
CutsGross(f) == /\ f # Unmeasured
                /\ ~Missing(f.drawdown)
                /\ f.drawdown <= Limits.reduce
                /\ f.drawdown > Limits.halt

\* None blocks the first and the last of the readings, NaN none of them: the
\* comparisons take the values as they are.
FinancingBreached(f, shares) ==
    \/ f = Unmeasured
    \/ f.utilization = Unmeasured \/ Exceeds(f.utilization, Limits.utilization)
    \/ \E x \in shares : Exceeds(x, Limits.pb_share)
    \/ f.cost # Unmeasured /\ Exceeds(f.cost, Limits.financing_cost)
    \/ f.cash = Unmeasured \/ FallsBelow(f.cash, Limits.cash)

\* Allocated above the allowed percentage of tested * cap / participation, or
\* the participation is a default and no measurement.
PodOverCapacity(c, measured) ==
    \/ measured # TRUE
    \/ Missing(c.tested) \/ c.tested <= 0
    \/ Missing(c.participation) \/ c.participation <= 0
    \/ Missing(c.allocated) \/ c.allocated < 0
    \/ 100 * c.allocated * c.participation > Limits.utilisation * c.tested * Limits.adv

CapacityBreached(snapshot, measured) ==
    \/ ~Limits.respect_hard_cap
    \/ Outside(Limits.utilisation, 1, 100)
    \/ snapshot = Unmeasured
    \/ \E p \in Pods : PodOverCapacity(snapshot[p], measured[p])

\* The gross IR less cost / capital / volatility, against the floor, unless the
\* cost is a default and no measurement.
PodBelowFloor(c, measured) ==
    \/ measured # TRUE
    \/ Missing(c.ir)
    \/ Missing(c.cost) \/ c.cost < 0
    \/ Missing(c.capital) \/ c.capital <= 0
    \/ Missing(c.volatility) \/ c.volatility <= 0
    \/ (c.ir - Limits.ir_floor) * c.capital * c.volatility < c.cost

\* An absent snapshot blocks before the table is asked whether pods are charged.
CostBreached(snapshot, measured) ==
    \/ snapshot = Unmeasured
    \/ Limits.charge_pods = Unmeasured
    \/ /\ Limits.charge_pods = TRUE
       /\ \/ Limits.ir_floor = Unmeasured
          \/ \E p \in Pods : PodBelowFloor(snapshot[p], measured[p])

------------------------------------------------------------------------------
(* The run of the day *)

Halves(i) == IF CutsGross(i.fund) THEN 1 ELSE 2

NettedBook(i) == [s \in Symbols |-> Scale(Trim(Net(i.targets, s)), Halves(i))]

\* The weights the limits read, in halves: those of the netted book when the pods
\* gave targets; gross, net and sectors stay the ones the caller measured.
BookWeights(i) == IF i.targets = Unmeasured
                  THEN [s \in Symbols |-> Scale(i.weights[s], 2)]
                  ELSE NettedBook(i)

Breached(i) ==
    {l \in Layers :
       \/ l = "health" /\ \E c \in Checks : i.health[c] # TRUE
       \/ l = "orders" /\ \E s \in i.orders : Blocking(s)
       \/ l = "book" /\ BookBreached(i.book, BookWeights(i), i.sectors, i.betas)
       \/ l = "fund" /\ FundBreached(i.fund)
       \/ l = "financing" /\ FinancingBreached(i.financing, i.shares)
       \/ l = "capacity" /\ CapacityBreached(i.capacity, i.adv_measured)
       \/ l = "cost" /\ CostBreached(i.cost, i.cost_measured)}

RunDay(i) == [orders_allowed |-> Breached(i) = {},
              reasons        |-> Breached(i),
              halves         |-> Halves(i),
              net_targets    |-> IF i.targets = Unmeasured THEN Unmeasured
                                 ELSE NettedBook(i)]

------------------------------------------------------------------------------
(* The inputs move, and the day is run again *)

Init == /\ inputs \in FirstInputs
        /\ result = RunDay(inputs)
        /\ changes = 0

Rerun(i) == /\ changes < MaxChanges
            /\ changes' = changes + 1
            /\ inputs' = i
            /\ result' = RunDay(i)

CheckReports(c, r) == Rerun([inputs EXCEPT !.health[c] = r])

OrdersMove(open) == Rerun([inputs EXCEPT !.orders = open])

MeasureBook(f, x) == Rerun([inputs EXCEPT !.book[f] = x])

MeasureWeight(s, x) == Rerun([inputs EXCEPT !.weights[s] = x])

MeasureSectors(m) == Rerun([inputs EXCEPT !.sectors = m])

MeasureBetas(m) == Rerun([inputs EXCEPT !.betas = m])

Retarget(p, s, x) == /\ inputs.targets # Unmeasured
                     /\ Rerun([inputs EXCEPT !.targets[p][s] = x])

MeasureFund(f, x) == /\ inputs.fund # Unmeasured
                     /\ Rerun([inputs EXCEPT !.fund[f] = x])

MeasureFinancing(f, x) == /\ inputs.financing # Unmeasured
                          /\ Rerun([inputs EXCEPT !.financing[f] = x])

MeasureShares(m) == Rerun([inputs EXCEPT !.shares = m])

MeasureCapacity(p, f, x) == /\ inputs.capacity # Unmeasured
                            /\ Rerun([inputs EXCEPT !.capacity[p][f] = x])

MeasureCost(p, f, x) == /\ inputs.cost # Unmeasured
                        /\ Rerun([inputs EXCEPT !.cost[p][f] = x])

MarkCapacity(p, r) == Rerun([inputs EXCEPT !.adv_measured[p] = r])

MarkCost(p, r) == Rerun([inputs EXCEPT !.cost_measured[p] = r])

\* Nobody passes the snapshot, or the pods' targets, this time.
LoseSnapshot(l) == Rerun([inputs EXCEPT ![l] = Unmeasured])

Mappings == {Unmeasured, {}} \cup {{x} : x \in Values}

Numbers == Values \ {Unmeasured}

Next ==
    \/ \E c \in Checks, r \in Flag : CheckReports(c, r)
    \/ \E open \in {{}} \cup {{s} : s \in OrderState} : OrdersMove(open)
    \/ \E f \in BookFields, x \in Values : MeasureBook(f, x)
    \/ \E s \in Symbols, x \in Numbers : MeasureWeight(s, x)
    \/ \E m \in Mappings : MeasureSectors(m) \/ MeasureBetas(m)
    \/ \E p \in Pods, s \in Symbols, x \in Numbers : Retarget(p, s, x)
    \/ \E f \in FundFields, x \in Values : MeasureFund(f, x)
    \/ \E f \in FinancingFields, x \in Values : MeasureFinancing(f, x)
    \/ \E x \in Numbers : MeasureShares({x})
    \/ \E p \in Pods, f \in CapacityFields, x \in Values : MeasureCapacity(p, f, x)
    \/ \E p \in Pods, f \in CostFields, x \in Values : MeasureCost(p, f, x)
    \/ \E p \in Pods, r \in Flag : MarkCapacity(p, r) \/ MarkCost(p, r)
    \/ \E l \in {"targets", "fund", "financing", "capacity", "cost"} : LoseSnapshot(l)

Spec == Init /\ [][Next]_vars

------------------------------------------------------------------------------
(* Properties *)

\* g is f with some readings lost; a whole snapshot may be.
FewerFields(g, f) == \A x \in DOMAIN f : g[x] = f[x] \/ Missing(g[x])

Fewer(g, f) == g = Unmeasured \/ (f # Unmeasured /\ FewerFields(g, f))

FewerValues(m, n) == \/ m = Unmeasured
                     \/ /\ n # Unmeasured
                        /\ \A x \in m : x \in n \/ Missing(x)
                        /\ n \subseteq m \/ \E x \in m : Missing(x)

FewerByPod(g, f) == \/ g = Unmeasured
                    \/ f # Unmeasured /\ \A p \in Pods : FewerFields(g[p], f[p])

FewerFlags(g, f) == \A x \in DOMAIN f : g[x] = f[x] \/ g[x] = Unmeasured

\* What the gate does not block on when it is lost: the weights, the targets, the
\* broker shares, the financing cost, the correlation of a fund that has one pod,
\* and a utilisation or a cash buffer that turned into NaN.
OptionalKept(i, j) ==
    /\ j.weights = i.weights /\ j.targets = i.targets /\ j.shares = i.shares
    /\ j.financing # Unmeasured =>
         /\ j.financing.cost = i.financing.cost
         /\ \A x \in {"utilization", "cash"} :
              j.financing[x] = NaN => i.financing[x] = NaN
    /\ j.fund # Unmeasured => \/ j.fund.correlation = i.fund.correlation
                              \/ i.fund.pods # 1

Loses(i, j) == /\ FewerFlags(j.health, i.health)
               /\ j.orders = i.orders
               /\ FewerFields(j.book, i.book)
               /\ FewerValues(j.sectors, i.sectors) /\ FewerValues(j.betas, i.betas)
               /\ Fewer(j.fund, i.fund) /\ Fewer(j.financing, i.financing)
               /\ FewerByPod(j.capacity, i.capacity) /\ FewerByPod(j.cost, i.cost)
               /\ FewerFlags(j.adv_measured, i.adv_measured)
               /\ FewerFlags(j.cost_measured, i.cost_measured)
               /\ OptionalKept(i, j)

\* Absence blocks (ADR-0015, ADR-0016), in every reading that as_measurement or a
\* flag guards: a blocked day is never opened by losing such a measurement to None
\* or to NaN, a health check or a whole snapshot.
LosingNeverAllows ==
    [][Loses(inputs, inputs') => (result'.orders_allowed => result.orders_allowed)]_vars

\* "Every pod field of check_pod must pass as_measurement() [...] absence becomes a
\* breach, and a breach blocks new orders" (ADR-0015, decision 1): a day whose book
\* holds a weight that is no measurement allows no order.
UnmeasuredWeightsBlock ==
    (\E s \in Symbols : Missing(BookWeights(inputs)[s])) => ~result.orders_allowed

\* "In the limit engine the absence of a measurement is a block" (ADR-0015), and
\* NaN is "not measured" (as_measurement): no order is allowed on a margin
\* utilisation or a cash buffer that is no measurement.
UnmeasuredFinancingBlocks ==
    result.orders_allowed => /\ ~Missing(inputs.financing.utilization)
                             /\ ~Missing(inputs.financing.cash)

\* The center book and the fund tier only ever reduce: in the book run_day hands
\* out no name is larger than the pods' net, reversed, or above the cap, and the
\* whole is no larger than the pods' own flows.
OverlayOnlyReduces ==
    LET t == inputs.targets
        flows(p) == SumFunction([s \in Symbols |-> Size(t[p][s])])
        gross == SumFunction([p \in Pods |-> flows(p)])
        netted == SumFunction([s \in Symbols |-> Size(result.net_targets[s])])
        whole == \A p \in Pods, s \in Symbols : t[p][s] # NaN
    IN t # Unmeasured =>
       /\ \A s \in Symbols : Net(t, s) # NaN =>
            /\ Size(result.net_targets[s]) <= result.halves * Size(Net(t, s))
            /\ Size(result.net_targets[s]) <= result.halves * Limits.single_name
            /\ result.net_targets[s] * Net(t, s) >= 0
       /\ whole => netted <= result.halves * gross

\* A day whose targets were halved is a day on which nothing may be opened: the
\* cut can only reach the market as closing trades.
CutDaysOnlyClose == result.halves = 1 => ~result.orders_allowed

==============================================================================
