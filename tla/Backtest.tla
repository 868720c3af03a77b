------------------------------- MODULE Backtest -------------------------------
(***************************************************************************)
(* The backtest engine, its look-ahead scan and the gates G0 to G6         *)
(* (core/backtest/engine.py, cv.py, leakage.py, gates.py), beside a desk   *)
(* that trades the same signal bar by bar.                                 *)
(*                                                                         *)
(* The desk is what the engine's alignment claims to be: on every close it *)
(* computes the signal from the closes it has, holds that row until the    *)
(* next close, and books what the bar paid, what was traded and what share *)
(* of the decision bar's volume that was.  The engine sees the panel only  *)
(* when it is complete.  A plan is what is submitted: a signal, the grid   *)
(* it is searched over, the chosen point, and whether volume was fetched.  *)
(***************************************************************************)
EXTENDS Strategies

CONSTANTS
    None, Raised,   \* nothing yet; the engine refused
    Plans,          \* what may be submitted
    Prices,         \* what a close may be
    Opening,        \* bound: the rows a panel may start with
    MaxRows,        \* bound: rows of the panel
    Cost,           \* cost_bps, in parts of Scale
    Tenth,          \* oos_fraction, in tenths
    Splits, Horizon, Embargo,   \* n_splits, label_horizon, embargo_pct
    Dust,           \* DUST_DOLLARS
    Percentile,     \* participation_percentile
    AdvMax,         \* adv_participation_max, in parts of Scale
    StabilityTenth  \* fold_sign_stability_min, in tenths

ASSUME BacktestAssumption ==
    /\ Prices \subseteq Nat \ {0} /\ Opening \subseteq [Symbols -> Prices]
    /\ MaxRows \in Nat /\ Cost \in Nat /\ Dust \in Nat /\ AdvMax \in Nat
    /\ Percentile \in 1 .. 100
    /\ None # {}   \* nothing yet is no list of gates
    /\ Tenth \in 1 .. 9 /\ StabilityTenth \in 1 .. 10
    /\ Splits \in Nat \ {0, 1} /\ Horizon \in Nat /\ Embargo \in 0 .. 100

\* A registered strategy looks back a whole number of rows, and none ahead,
\* and is scaled to a whole number of parts.
ASSUME PlansAssumption ==
    \A q \in Plans : q.strategy \in Registry =>
        /\ \A key \in Lookbacks(q.strategy) : q.grid[q.chosen][key] \in Nat
        /\ q.grid[q.chosen].gross \in Nat

VARIABLES
    plan,        \* what is being tried
    close,       \* the closes so far
    held,        \* the row the desk decided on the last close
    before,      \* the row it held into that close
    book,        \* what each of the desk's bars came to
    submission,  \* what the engine made of the complete panel
    verdict      \* the gates it failed

vars == <<plan, close, held, before, book, submission, verdict>>

Rows == [Symbols -> Prices]

-----------------------------------------------------------------------------
(* Signals that are not in the registry                                    *)

Bounded(t, n) == IF t > n THEN n ELSE t

\* Yesterday's return with a little of tomorrow's mixed in.
Canary(panel) ==
    LET n == Len(panel)
    IN [t \in 1 .. n |-> [s \in Symbols |->
          (IF t = 1 THEN 0 ELSE 6 * Return(panel[t - 1][s], panel[t][s]))
          + Return(panel[t][s], panel[Bounded(t + 1, n)][s])]]

\* Above or below the mean of the whole sample.
Standardised(panel) ==
    [t \in 1 .. Len(panel) |-> [s \in Symbols |->
        Direction(Len(panel) * panel[t][s]
                  - Sum([i \in 1 .. Len(panel) |-> panel[i][s]]))]]

\* Looks ahead in its first row only, where no probe is drawn.
WarmUp(panel) ==
    [t \in 1 .. Len(panel) |-> [s \in Symbols |->
        IF t > 1 THEN 1 ELSE Direction(panel[Bounded(2, Len(panel))][s] - panel[1][s])]]

Signal(name, panel, p) ==
    IF name \in Registry THEN Registered(name, panel, p)
    ELSE IF name = "canary" THEN ScaleToGross(Canary(panel), p.gross)
    ELSE IF name = "standardised" THEN ScaleToGross(Standardised(panel), p.gross)
    ELSE ScaleToGross(WarmUp(panel), p.gross)

Weights(panel, p) == Signal(plan.strategy, panel, p)
Chosen == plan.grid[plan.chosen]

-----------------------------------------------------------------------------
(* simulate, adv_participation                                             *)

Earned(row, old, new) == Sum([s \in Symbols |-> row[s] * Return(old[s], new[s])])

Traded(row, previous) == [s \in Symbols |-> Magnitude(row[s] - previous[s])]

\* Traded dollars as a share of a bar's dollar volume: the close stands for it.
Shares(traded, volume) == [s \in Symbols |-> (traded[s] * Scale) \div volume[s]]

\* The row that was held into it, and what it came to.
Bar(row, previous, old, new) ==
    [row |-> row,
     gross |-> Earned(row, old, new),
     turnover |-> Gross(Traded(row, previous)),
     traded |-> Traded(row, previous),
     shares |-> Shares(Traded(row, previous), old)]

\* Mutant: a weight earns the bar that was over when it was decided.
SimulateLate(panel, weights) ==
    LET paid == SubSeq(weights, 2, Len(weights))
        previous == <<Flat>> \o SubSeq(paid, 1, Len(paid) - 1)
    IN [t \in 1 .. Len(paid) |-> Bar(paid[t], previous[t], panel[t], panel[t + 1])]

\* weights[t] is held into the bar t -> t+1; the last row is never paid.
Simulate(panel, weights) ==
    LET paid == SubSeq(weights, 1, Len(weights) - 1)
        previous == <<Flat>> \o SubSeq(paid, 1, Len(paid) - 1)
    IN [t \in 1 .. Len(paid) |-> Bar(paid[t], previous[t], panel[t], panel[t + 1])]

Net(bars, cost) == [t \in DOMAIN bars |-> bars[t].gross - cost * bars[t].turnover]

\* The trades that are not dust, and the share each took.
TradesOf(bars) == {c \in (DOMAIN bars) \X Symbols : bars[c[1]].traded[c[2]] >= Dust}
ShareOf(bars, c) == bars[c[1]].shares[c[2]]

\* The k-th smallest of their shares.
ShareAtRank(bars, k) ==
    Min({v \in {ShareOf(bars, c) : c \in TradesOf(bars)} :
            Cardinality({c \in TradesOf(bars) : ShareOf(bars, c) <= v}) >= k})

\* np.percentile, in hundredths: on the line between the two nearest ranks.
\* at is the rank it is asked for, from 0, in hundredths.
ShareAt(bars, at) ==
    LET low == at \div 100 + 1
    IN (100 - (at % 100)) * ShareAtRank(bars, low)
       + (at % 100) * ShareAtRank(bars, Min({low + 1, Cardinality(TradesOf(bars))}))

\* Mutant: np.percentile is given the fraction, 0.95 for 95.
AdvParticipationOfAFraction(bars) ==
    IF TradesOf(bars) = {} THEN 0
    ELSE ShareAt(bars, (Percentile * (Cardinality(TradesOf(bars)) - 1)) \div 100)

AdvParticipation(bars) ==
    IF TradesOf(bars) = {} THEN 0
    ELSE ShareAt(bars, Percentile * (Cardinality(TradesOf(bars)) - 1))

-----------------------------------------------------------------------------
(* lookahead_scan                                                          *)

\* The first row a probe may fall on.
FirstProbe(n) == 1 + Max({2, n \div 10})

\* Mutant: the truncated frame ends one row before the probe.
LookaheadScanShort(panel, p, probes) ==
    LET full == Weights(panel, p)
    IN {t \in probes : Last(Weights(SubSeq(panel, 1, t - 1), p)) # full[t]}

LookaheadScan(panel, p, probes) ==
    LET full == Weights(panel, p)
    IN {t \in probes : Last(Weights(SubSeq(panel, 1, t), p)) # full[t]}

\* Drawn with replacement: every row a probe may fall on, or the first of them alone.
ProbeSets(n) == {FirstProbe(n) .. n, {FirstProbe(n)}}

-----------------------------------------------------------------------------
(* purged_kfold                                                            *)

\* round(): to the nearest, and to the even one of two.
Round(a, b) ==
    LET q == (2 * a + b) \div (2 * b)
    IN IF (2 * a + b) % (2 * b) = 0 /\ q % 2 = 1 THEN q - 1 ELSE q

\* array_split: the first n % k blocks are one longer.
BlockEnd(n, k, i) == i * (n \div k) + Min({i, n % k})
BlockStart(n, k, i) == BlockEnd(n, k, i - 1) + 1

\* Mutant: the embargo counts from the block's end, not from its last label's.
TrainAfterTheBlock(n, first, last, horizon, embargo) ==
    {i \in 1 .. n : i < first - horizon \/ i > last + embargo}

Train(n, first, last, horizon, embargo) ==
    {i \in 1 .. n : i < first - horizon \/ i > last + horizon + embargo}

LongEnough(n, k, horizon) == n >= k * (horizon + 1)

PurgedKfold(n, k, horizon, pct) ==
    [b \in 1 .. k |->
        LET first == BlockStart(n, k, b)
            last == BlockEnd(n, k, b)
        IN [train |-> Train(n, first, last, horizon, Round(n * pct, 100)),
            test |-> first .. last]]

-----------------------------------------------------------------------------
(* run                                                                     *)

WithinGross(weights) == \A t \in DOMAIN weights : Gross(weights[t]) <= Unit

\* One parameter at a time moved by a fifth; a whole number may round back to itself.
Moved(value, tenths) == (value * tenths + 5) \div 10
PerturbedGrid(p) ==
    {[p EXCEPT ![key] = Moved(p[key], d)] : key \in DOMAIN p, d \in {8, 12}} \ {p}

\* The neighbours the pod could not run are left out.
Feasible(panel, p) == {w \in {Weights(panel, q) : q \in PerturbedGrid(p)} : WithinGross(w)}

SplitAt(n) == n - Round(n * Tenth, 10)

RaisesOn(panel) ==
    LET n == Len(panel) - 1
    IN \/ \E i \in DOMAIN plan.grid : ~WithinGross(Weights(panel, plan.grid[i]))
       \/ SplitAt(n) < 2 \/ n - SplitAt(n) < 2
       \/ ~LongEnough(n, Splits, Horizon)

SubmissionOf(panel, probes) ==
    LET bars == Simulate(panel, Weights(panel, Chosen))
        n == Len(bars)
    IN [bars |-> bars,
        net |-> Net(bars, Cost),
        doubled |-> Net(bars, 2 * Cost),
        split |-> SplitAt(n),
        folds |-> PurgedKfold(n, Splits, Horizon, Embargo),
        trials |-> Len(plan.grid),
        perturbed |-> {Net(Simulate(panel, w), Cost) : w \in Feasible(panel, Chosen)},
        participation |-> IF plan.volume THEN AdvParticipation(bars) ELSE 0,
        measured |-> plan.volume,
        probes |-> probes,
        leaks |-> LookaheadScan(panel, Chosen, probes)]

-----------------------------------------------------------------------------
(* The gates.  A statistic that needs a square root is a free choice among *)
(* what the sign of its mean allows.                                       *)

Still(series) == \A t \in DOMAIN series : series[t] = series[1]

\* sharpe_ratio is 0.0 for a series that does not move.
SharpeAbove0(series) == Sum(series) > 0 /\ ~Still(series)

InSample(sub) == SubSeq(sub.net, 1, sub.split)
OutOfSample(sub) == SubSeq(sub.net, sub.split + 1, Len(sub.net))

G2InSample(sub, lucky) == SharpeAbove0(InSample(sub)) /\ lucky

\* Folds that earned something.
Stability(sub) ==
    Cardinality({b \in DOMAIN sub.folds :
        Sum(SubSeq(sub.net, Min(sub.folds[b].test), Max(sub.folds[b].test))) > 0})

G3Oos(sub, lucky) ==
    /\ SharpeAbove0(InSample(sub))
    /\ SharpeAbove0(OutOfSample(sub)) /\ lucky
    /\ 10 * Stability(sub) >= StabilityTenth * Len(sub.folds)

\* A probability that is not a number is not below its floor.
G4Statistics(sub, lucky) ==
    /\ sub.trials >= 2
    /\ Sum(sub.net) > 0
    /\ Still(sub.net) \/ lucky

G5Robustness(sub, lucky) ==
    /\ sub.perturbed # {} =>
         /\ SharpeAbove0(sub.net)
         /\ \A series \in sub.perturbed : SharpeAbove0(series)
         /\ lucky
    /\ Sum(sub.doubled) > 0


\* No book is supplied, and its correlation is 0.0.
G6Capacity(sub) == sub.measured /\ sub.participation <= 100 * AdvMax

FailedGates(sub, lucky) ==
    {g \in {"G0_data", "G2_in_sample", "G3_oos", "G4_statistics", "G5_robustness", "G6_capacity"} :
        \/ g = "G0_data" /\ sub.leaks # {}
        \/ g = "G2_in_sample" /\ ~G2InSample(sub, g \in lucky)
        \/ g = "G3_oos" /\ ~G3Oos(sub, g \in lucky)
        \/ g = "G4_statistics" /\ ~G4Statistics(sub, g \in lucky)
        \/ g = "G5_robustness" /\ ~G5Robustness(sub, g \in lucky)
        \/ g = "G6_capacity" /\ ~G6Capacity(sub)}

Approved == verdict = {}

-----------------------------------------------------------------------------
(* The desk and the engine                                                 *)

Init ==
    /\ plan \in Plans
    /\ \E row \in Opening :
         /\ close = <<row>>
         /\ held = Weights(<<row>>, Chosen)[1]
    /\ before = Flat
    /\ book = <<>>
    /\ submission = None /\ verdict = None

\* A bar closes: the desk is paid for it, and decides again.
Close(row) ==
    /\ submission = None /\ Len(close) < MaxRows
    /\ close' = Append(close, row)
    /\ book' = Append(book, Bar(held, before, Last(close), row))
    /\ before' = held
    /\ held' = Last(Weights(close', Chosen))
    /\ UNCHANGED <<plan, submission, verdict>>

\* PricePanel wants three rows; a run that raises leaves no submission.
Run(probes) ==
    /\ submission = None /\ Len(close) >= 3
    /\ submission' = IF RaisesOn(close) THEN Raised ELSE SubmissionOf(close, probes)
    /\ UNCHANGED <<plan, close, held, before, book, verdict>>

Evaluate(lucky) ==
    /\ submission \notin {None, Raised} /\ verdict = None
    /\ verdict' = FailedGates(submission, lucky)
    /\ UNCHANGED <<plan, close, held, before, book, submission>>

Next ==
    \/ \E row \in Rows : Close(row)
    \/ \E probes \in ProbeSets(Len(close)) : Run(probes)
    \/ \E lucky \in SUBSET {"G2_in_sample", "G3_oos", "G4_statistics", "G5_robustness"} :
         Evaluate(lucky)

Spec == Init /\ [][Next]_vars

-----------------------------------------------------------------------------
(* Properties                                                              *)

Submitted == submission \notin {None, Raised}

\* What the engine says a registered strategy earned, paid and took of the
\* volume on a bar is what the desk that traded it bar by bar saw
\* (engine.py:202-231, and library.py's promise to read no later row).
BacktestIsLive ==
    (Submitted /\ plan.strategy \in Registry) => submission.bars = book

\* The scan accuses only a signal whose backtest the desk could not have traded,
\* and one it clears at every row it may probe was traded from there on
\* (leakage.py:43-85).
ScanIsHonest ==
    Submitted =>
      /\ submission.leaks # {} => Append(submission.bars, Weights(close, Chosen)[Len(close)])
                                    # Append(book, held)
      /\ (submission.leaks = {} /\ submission.probes = FirstProbe(Len(close)) .. Len(close))
           => \A t \in (FirstProbe(Len(close)) + 1) .. Len(book) : submission.bars[t] = book[t]

\* No bar a fold trains on has a label that overlaps a tested bar's, and the
\* blocks test every bar once (cv.py:16-46).
TrainNeverSeesTest ==
    Submitted =>
      LET n == Len(submission.net)
          Label(i) == i .. (i + Horizon)
      IN /\ \A b \in DOMAIN submission.folds :
              \A i \in submission.folds[b].train, j \in submission.folds[b].test :
                Label(i) \cap Label(j) = {}
         /\ \A i \in 1 .. n : Cardinality({b \in DOMAIN submission.folds :
                                             i \in submission.folds[b].test}) = 1

\* The desk's trades that took more of their day's volume than the cap.
OverTheCap == {c \in TradesOf(book) : ShareOf(book, c) > AdvMax}

\* A registered strategy that is approved would have earned on the desk at twice
\* the cost, and no more of the desk's trades were over the cap on their day's
\* volume than the percentile leaves above it: at 95, a twentieth of all but one,
\* rounded up.  They may be as large as they like (engine.py:162-164, 234-259;
\* gates.py:180-223, 496-542).
ApprovedEarned ==
    (Approved /\ plan.strategy \in Registry) =>
      /\ plan.volume
      /\ Sum(Net(book, 2 * Cost)) > 0
      /\ 100 * Cardinality(OverTheCap)
           < 100 * Cardinality(TradesOf(book)) - Percentile * (Cardinality(TradesOf(book)) - 1)
=============================================================================
