------------------------------ MODULE Strategies ------------------------------
(***************************************************************************)
(* The registered strategies (core/strategies/base.py, library.py): pure   *)
(* functions from a close panel and parameters to a weight per symbol and  *)
(* row.  No state.                                                         *)
(*                                                                         *)
(* A panel is a sequence of rows, a row a function from the columns 1 ..   *)
(* Width to numbers.  Numbers are integers: a return is counted in parts   *)
(* of Scale, a weight in parts of Unit (the pod's gross limit of 1.0).     *)
(* The slices are the source's own, so that a slice one bar off in the     *)
(* code is one bar off here.                                               *)
(***************************************************************************)
EXTENDS Integers, SequencesExt

CONSTANTS
    Width,   \* symbols in the panel
    Scale,   \* parts a return of 1.0 is counted in
    Unit     \* parts a weight of 1.0 is counted in

ASSUME StrategiesAssumption ==
    /\ Width \in Nat \ {0} /\ Scale \in Nat \ {0} /\ Unit \in Nat \ {0}

Symbols == 1 .. Width

NoRow == <<>>                         \* a row of NaN
Flat == [s \in Symbols |-> 0]         \* a row without a position

-----------------------------------------------------------------------------
(* Shared shaping: base.py                                                 *)

Magnitude(x) == IF x < 0 THEN -x ELSE x

Direction(x) == IF x > 0 THEN 1 ELSE IF x < 0 THEN -1 ELSE 0

Return(old, new) == ((new - old) * Scale) \div old

Sum(f) ==
    LET row == SubSeq(f, 1, Len(f))
        upTo[i \in 0 .. Len(row)] == IF i = 0 THEN 0 ELSE upTo[i - 1] + row[i]
    IN upTo[Len(row)]

\* The same matrix; TLC computes its cells once.
Table(m) == SubSeq([t \in 1 .. Len(m) |-> SubSeq(m[t], 1, Len(m[t]))], 1, Len(m))

Gross(row) == Sum([s \in Symbols |-> Magnitude(row[s])])

\* A row of zeros stays one: no position is a position.
ScaleToGross(raw, gross) ==
    LET rows == Table(raw)
    IN Table([t \in 1 .. Len(rows) |->
         IF Gross(rows[t]) = 0 THEN rows[t]
         ELSE [s \in Symbols |-> (rows[t][s] * gross) \div Gross(rows[t])]])

\* Demeaning, times Width so that it stays in the integers.
DollarNeutral(scores, gross) ==
    ScaleToGross([t \in DOMAIN scores |->
                    [s \in Symbols |-> Width * scores[t][s] - Sum(scores[t])]],
                 gross)

\* argsort of argsort: equal scores are ranked by their column.
RankIn(row, s) ==
    Cardinality({u \in Symbols : row[u] < row[s] \/ (row[u] = row[s] /\ u < s)})

\* Ranks centred on zero (and doubled); a row with a gap is dropped whole.
CrossSectionalRank(scores) ==
    LET rows == Table(scores)
    IN Table([t \in 1 .. Len(rows) |->
         IF Width < 2 \/ rows[t] = NoRow THEN Flat
         ELSE [s \in Symbols |-> 2 * RankIn(rows[t], s) - (Width - 1)]])

\* close[lookback:] / close[:-lookback] - 1, and a gap before enough history.
TrailingReturn(close, lookback) ==
    LET n == Len(close)
        recent == SubSeq(close, lookback + 1, n)
        older == SubSeq(close, 1, n - lookback)
    IN [t \in 1 .. n |->
          IF lookback < 1 \/ lookback >= n \/ t <= lookback THEN NoRow
          ELSE [s \in Symbols |-> Return(older[t - lookback][s], recent[t - lookback][s])]]

\* The return earned into a row: known at that row.
BarReturns(close) ==
    [t \in 1 .. Len(close) |->
        IF t = 1 THEN NoRow ELSE [s \in Symbols |-> Return(close[t - 1][s], close[t][s])]]

\* The plain average of several books; the mean's divisor leaves with the scaling.
Blend(parts, gross) ==
    ScaleToGross([t \in DOMAIN parts[1] |->
                    [s \in Symbols |-> Sum([p \in DOMAIN parts |-> parts[p][t][s]])]],
                 gross)

-----------------------------------------------------------------------------
(* The families: library.py                                                *)

TsMomentum(close, p) ==
    LET past == TrailingReturn(close, p.lookback)
    IN ScaleToGross([t \in 1 .. Len(close) |->
                        IF past[t] = NoRow THEN Flat
                        ELSE [s \in Symbols |-> Direction(past[t][s])]],
                    p.gross)

\* The last `skip` bars of the window are left out.
XsMomentum(close, p) ==
    LET n == Len(close)
        start == p.lookback + p.skip
        recent == SubSeq(close, start - p.skip + 1, n - p.skip)
        older == SubSeq(close, 1, n - start)
        scores == [t \in 1 .. n |->
                     IF start >= n \/ t <= start THEN NoRow
                     ELSE [s \in Symbols |-> Return(older[t - start][s], recent[t - start][s])]]
    IN DollarNeutral(CrossSectionalRank(scores), p.gross)

Negated(scores) ==
    [t \in DOMAIN scores |->
        IF scores[t] = NoRow THEN NoRow ELSE [s \in Symbols |-> -scores[t][s]]]

ShortTermReversal(close, p) ==
    DollarNeutral(CrossSectionalRank(Negated(TrailingReturn(close, p.lookback))), p.gross)

\* Only the order of the betas is read, and they share the market's variance:
\* a row holds each name's covariance with the panel over the window.
RollingBeta(close, lookback) ==
    LET returns == Table(BarReturns(close))
        market == Table(<<[t \in 1 .. Len(close) |-> Sum(returns[t])]>>)[1]
        Window(t) == (t - lookback + 1) .. t
        MarketSum(t) == Sum([k \in 1 .. lookback |-> market[t - lookback + k]])
    IN [t \in 1 .. Len(close) |->
          IF t <= lookback \/ lookback < 2
             \/ \A i, j \in Window(t) : market[i] = market[j]
          THEN NoRow
          ELSE [s \in Symbols |->
                  Sum([k \in 1 .. lookback |->
                      (lookback * market[t - lookback + k] - MarketSum(t))
                      * returns[t - lookback + k][s]])]]

BettingAgainstBeta(close, p) ==
    DollarNeutral(CrossSectionalRank(Negated(RollingBeta(close, p.lookback))), p.gross)

\* A close at the window's high turns the sign up, then one at its low turns it
\* down; between breakouts the sign is held, so it is the one of the last.
TrendBreakout(close, p) ==
    LET Before(t) == (t - p.lookback) .. (t - 1)
        Low(t, s) == \A i \in Before(t) : close[t][s] <= close[i][s]
        High(t, s) == \A i \in Before(t) : close[t][s] >= close[i][s]
        Breakouts(t, s) == {i \in (p.lookback + 1) .. t : Low(i, s) \/ High(i, s)}
        State(t, s) == IF Breakouts(t, s) = {} THEN 0
                       ELSE IF Low(Max(Breakouts(t, s)), s) THEN -1 ELSE 1
    IN ScaleToGross([t \in 1 .. Len(close) |->
                        IF p.lookback < 1 THEN Flat ELSE [s \in Symbols |-> State(t, s)]],
                    p.gross)

\* Four horizons, each a book of gross 1.0, blended.
MultiSignal(close, p) ==
    Blend(<<TsMomentum(close, [lookback |-> p.trend_lookback, gross |-> Unit]),
            XsMomentum(close, [lookback |-> p.xs_lookback, skip |-> p.xs_skip, gross |-> Unit]),
            ShortTermReversal(close, [lookback |-> p.reversal_lookback, gross |-> Unit]),
            BettingAgainstBeta(close, [lookback |-> p.beta_lookback, gross |-> Unit])>>,
          p.gross)

-----------------------------------------------------------------------------
(* The registry                                                            *)

Registry == {"ts_momentum", "xs_momentum", "short_term_reversal",
             "betting_against_beta", "trend_breakout", "multi_signal"}

\* value, quality and carry are refused: their data is not in the repository.
Registered(name, close, p) ==
    IF name = "ts_momentum" THEN TsMomentum(close, p)
    ELSE IF name = "xs_momentum" THEN XsMomentum(close, p)
    ELSE IF name = "short_term_reversal" THEN ShortTermReversal(close, p)
    ELSE IF name = "betting_against_beta" THEN BettingAgainstBeta(close, p)
    ELSE IF name = "trend_breakout" THEN TrendBreakout(close, p)
    ELSE MultiSignal(close, p)

\* The parameters that count rows.
Lookbacks(name) ==
    IF name = "xs_momentum" THEN {"lookback", "skip"}
    ELSE IF name = "multi_signal" THEN {"trend_lookback", "xs_lookback", "xs_skip",
                                        "reversal_lookback", "beta_lookback"}
    ELSE {"lookback"}
=============================================================================
