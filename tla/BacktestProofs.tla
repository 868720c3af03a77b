---------------------------- MODULE BacktestProofs ----------------------------
(***************************************************************************)
(* For every panel, width, scale and lookback: no registered strategy      *)
(* reads a later row, so the engine books on the complete panel what a     *)
(* desk that trades bar by bar books, and one the gates approve would have *)
(* earned there; the look-ahead scan accuses no signal the desk could      *)
(* trade, and clears none it could not where it probed; and no fold trains *)
(* on a bar whose label overlaps a tested one's.                           *)
(***************************************************************************)
EXTENDS Backtest, SequenceTheorems, FiniteSetTheorems, WellFoundedInduction, TLAPS

-----------------------------------------------------------------------------
(* Sheets: rows under one another                                          *)

IsSheet(m) == Len(m) \in Nat /\ DOMAIN m = 1 .. Len(m)

(* The longer sheet starts with the shorter one.                           *)
Begins(c, d) ==
    /\ IsSheet(c) /\ IsSheet(d) /\ Len(d) <= Len(c)
    /\ \A t \in 1 .. Len(d) : c[t] = d[t]

LEMMA RowsAreASheet ==
  ASSUME NEW n \in Nat, NEW f, f = [t \in 1 .. n |-> f[t]]
  PROVE  IsSheet(f) /\ Len(f) = n
<1> DEFINE S == {f[t] : t \in 1 .. n}
<1>1. f \in [1 .. n -> S]
  OBVIOUS
<1>2. f \in Seq(S) /\ Len(f) = n
  BY <1>1
<1>. QED
  BY <1>1, <1>2 DEF IsSheet

LEMMA SlicesAreSheets ==
  ASSUME NEW s, NEW i \in Int, NEW j \in Int
  PROVE  /\ IsSheet(SubSeq(s, i, j))
         /\ Len(SubSeq(s, i, j)) = IF i <= j THEN j - i + 1 ELSE 0
         /\ \A t \in 1 .. j - i + 1 : SubSeq(s, i, j)[t] = s[i + t - 1]
<1> DEFINE S == {s[t] : t \in i .. j}
<1>1. \A t \in i .. j : s[t] \in S
  OBVIOUS
<1> HIDE DEF S
<1>2. /\ SubSeq(s, i, j) \in Seq(S)
      /\ Len(SubSeq(s, i, j)) = IF i <= j THEN j - i + 1 ELSE 0
      /\ \A t \in 1 .. j - i + 1 : SubSeq(s, i, j)[t] = s[i + t - 1]
  BY <1>1, SubSeqProperties
<1>. QED
  BY <1>2 DEF IsSheet

LEMMA TableOfRows ==
  ASSUME NEW m, Len(m) \in Nat
  PROVE  /\ IsSheet(Table(m)) /\ Len(Table(m)) = Len(m)
         /\ \A t \in 1 .. Len(m) : Table(m)[t] = SubSeq(m[t], 1, Len(m[t]))
<1> DEFINE f == [t \in 1 .. Len(m) |-> SubSeq(m[t], 1, Len(m[t]))]
           n == Len(m)
<1>1. \A t \in 1 .. n : f[t] = SubSeq(m[t], 1, Len(m[t]))
  OBVIOUS
<1>2. Table(m) = SubSeq(f, 1, n)
  BY DEF Table
<1> HIDE DEF f
<1>3. /\ IsSheet(SubSeq(f, 1, n)) /\ Len(SubSeq(f, 1, n)) = IF 1 <= n THEN n - 1 + 1 ELSE 0
      /\ \A t \in 1 .. n - 1 + 1 : SubSeq(f, 1, n)[t] = f[1 + t - 1]
  BY SlicesAreSheets
<1>. QED
  BY <1>1, <1>2, <1>3

LEMMA TablesBegin ==
  ASSUME NEW c, NEW d, Begins(c, d)
  PROVE  /\ Begins(Table(c), Table(d))
         /\ Len(Table(c)) = Len(c) /\ Len(Table(d)) = Len(d)
<1>1. /\ Len(c) \in Nat /\ Len(d) \in Nat /\ Len(d) <= Len(c)
      /\ \A t \in 1 .. Len(d) : c[t] = d[t] /\ t \in 1 .. Len(c)
  BY DEF Begins, IsSheet
<1>2. /\ IsSheet(Table(c)) /\ Len(Table(c)) = Len(c)
      /\ \A t \in 1 .. Len(c) : Table(c)[t] = SubSeq(c[t], 1, Len(c[t]))
  BY <1>1, TableOfRows
<1>3. /\ IsSheet(Table(d)) /\ Len(Table(d)) = Len(d)
      /\ \A t \in 1 .. Len(d) : Table(d)[t] = SubSeq(d[t], 1, Len(d[t]))
  BY <1>1, TableOfRows
<1>4. ASSUME NEW t \in 1 .. Len(d)
      PROVE  Table(c)[t] = Table(d)[t]
  <2>1. c[t] = d[t] /\ t \in 1 .. Len(c)
    BY <1>1
  <2>2. Table(c)[t] = SubSeq(c[t], 1, Len(c[t]))
    BY <1>2, <2>1
  <2>3. Table(d)[t] = SubSeq(d[t], 1, Len(d[t]))
    BY <1>3
  <2>. QED
    BY <2>1, <2>2, <2>3, Zenon
<1>. QED
  BY <1>1, <1>2, <1>3, <1>4 DEF Begins

-----------------------------------------------------------------------------
(* The shaping: a row of the result depends on that row alone              *)

LEMMA ScalingBegins ==
  ASSUME NEW c, NEW d, Begins(c, d), NEW gross
  PROVE  /\ Begins(ScaleToGross(c, gross), ScaleToGross(d, gross))
         /\ Len(ScaleToGross(c, gross)) = Len(c)
         /\ Len(ScaleToGross(d, gross)) = Len(d)
<1> DEFINE Scaled(rows) ==
             [t \in 1 .. Len(rows) |->
                IF Gross(rows[t]) = 0 THEN rows[t]
                ELSE [s \in Symbols |-> (rows[t][s] * gross) \div Gross(rows[t])]]
           f == Scaled(Table(c))
           g == Scaled(Table(d))
<1>1. /\ Begins(Table(c), Table(d))
      /\ Len(Table(c)) = Len(c) /\ Len(Table(d)) = Len(d)
  BY TablesBegin
<1>2. /\ f = [t \in 1 .. Len(c) |-> f[t]] /\ g = [t \in 1 .. Len(d) |-> g[t]]
      /\ Len(c) \in Nat /\ Len(d) \in Nat /\ Len(d) <= Len(c)
  BY <1>1 DEF Begins, IsSheet
<1>3. \A t \in 1 .. Len(d) : f[t] = g[t]
  <2>1. ASSUME NEW t \in 1 .. Len(d)
        PROVE  f[t] = g[t]
    <3>1. Table(c)[t] = Table(d)[t]
      BY <1>1 DEF Begins
    <3>2. t \in 1 .. Len(Table(c)) /\ t \in 1 .. Len(Table(d))
      BY <1>1, <1>2
    <3>. QED
      BY <3>1, <3>2
  <2>. QED
    BY <2>1
<1>4. ScaleToGross(c, gross) = Table(f) /\ ScaleToGross(d, gross) = Table(g)
  BY DEF ScaleToGross
<1> HIDE DEF f, g
<1>5. IsSheet(f) /\ Len(f) = Len(c) /\ IsSheet(g) /\ Len(g) = Len(d)
  BY <1>2, RowsAreASheet
<1>6. Begins(f, g)
  BY <1>2, <1>3, <1>5 DEF Begins
<1>. QED
  BY <1>4, <1>5, <1>6, TablesBegin

LEMMA NeutralBegins ==
  ASSUME NEW c, NEW d, Begins(c, d), NEW gross
  PROVE  /\ Begins(DollarNeutral(c, gross), DollarNeutral(d, gross))
         /\ Len(DollarNeutral(c, gross)) = Len(c)
         /\ Len(DollarNeutral(d, gross)) = Len(d)
<1> DEFINE f == [t \in DOMAIN c |-> [s \in Symbols |-> Width * c[t][s] - Sum(c[t])]]
           g == [t \in DOMAIN d |-> [s \in Symbols |-> Width * d[t][s] - Sum(d[t])]]
<1>1. /\ DOMAIN c = 1 .. Len(c) /\ DOMAIN d = 1 .. Len(d)
      /\ Len(c) \in Nat /\ Len(d) \in Nat /\ Len(d) <= Len(c)
      /\ \A t \in 1 .. Len(d) : c[t] = d[t]
  BY DEF Begins, IsSheet
<1>2. f = [t \in 1 .. Len(c) |-> f[t]] /\ g = [t \in 1 .. Len(d) |-> g[t]]
  BY <1>1
<1>3. \A t \in 1 .. Len(d) : f[t] = g[t]
  BY <1>1
<1>4. /\ DollarNeutral(c, gross) = ScaleToGross(f, gross)
      /\ DollarNeutral(d, gross) = ScaleToGross(g, gross)
  BY DEF DollarNeutral
<1> HIDE DEF f, g
<1>5. IsSheet(f) /\ Len(f) = Len(c) /\ IsSheet(g) /\ Len(g) = Len(d)
  BY <1>1, <1>2, RowsAreASheet
<1>6. Begins(f, g)
  BY <1>1, <1>3, <1>5 DEF Begins
<1>. QED
  BY <1>4, <1>5, <1>6, ScalingBegins

LEMMA RankingBegins ==
  ASSUME NEW c, NEW d, Begins(c, d)
  PROVE  /\ Begins(CrossSectionalRank(c), CrossSectionalRank(d))
         /\ Len(CrossSectionalRank(c)) = Len(c)
         /\ Len(CrossSectionalRank(d)) = Len(d)
<1> DEFINE Ranked(rows) ==
             [t \in 1 .. Len(rows) |->
                IF Width < 2 \/ rows[t] = NoRow THEN Flat
                ELSE [s \in Symbols |-> 2 * RankIn(rows[t], s) - (Width - 1)]]
           f == Ranked(Table(c))
           g == Ranked(Table(d))
<1>1. /\ Begins(Table(c), Table(d))
      /\ Len(Table(c)) = Len(c) /\ Len(Table(d)) = Len(d)
  BY TablesBegin
<1>2. /\ f = [t \in 1 .. Len(c) |-> f[t]] /\ g = [t \in 1 .. Len(d) |-> g[t]]
      /\ Len(c) \in Nat /\ Len(d) \in Nat /\ Len(d) <= Len(c)
  BY <1>1 DEF Begins, IsSheet
<1>3. \A t \in 1 .. Len(d) : f[t] = g[t]
  <2>1. ASSUME NEW t \in 1 .. Len(d)
        PROVE  f[t] = g[t]
    <3>1. Table(c)[t] = Table(d)[t]
      BY <1>1 DEF Begins
    <3>2. t \in 1 .. Len(Table(c)) /\ t \in 1 .. Len(Table(d))
      BY <1>1, <1>2
    <3>. QED
      BY <3>1, <3>2
  <2>. QED
    BY <2>1
<1>4. CrossSectionalRank(c) = Table(f) /\ CrossSectionalRank(d) = Table(g)
  BY DEF CrossSectionalRank
<1> HIDE DEF f, g
<1>5. IsSheet(f) /\ Len(f) = Len(c) /\ IsSheet(g) /\ Len(g) = Len(d)
  BY <1>2, RowsAreASheet
<1>6. Begins(f, g)
  BY <1>2, <1>3, <1>5 DEF Begins
<1>. QED
  BY <1>4, <1>5, <1>6, TablesBegin

LEMMA NegationBegins ==
  ASSUME NEW c, NEW d, Begins(c, d)
  PROVE  /\ Begins(Negated(c), Negated(d))
         /\ Len(Negated(c)) = Len(c) /\ Len(Negated(d)) = Len(d)
<1> DEFINE f == Negated(c)
           g == Negated(d)
<1>1. /\ DOMAIN c = 1 .. Len(c) /\ DOMAIN d = 1 .. Len(d)
      /\ Len(c) \in Nat /\ Len(d) \in Nat /\ Len(d) <= Len(c)
      /\ \A t \in 1 .. Len(d) : c[t] = d[t]
  BY DEF Begins, IsSheet
<1>2. f = [t \in 1 .. Len(c) |-> f[t]] /\ g = [t \in 1 .. Len(d) |-> g[t]]
  BY <1>1 DEF Negated
<1>3. \A t \in 1 .. Len(d) : f[t] = g[t]
  BY <1>1 DEF Negated
<1> HIDE DEF f, g
<1>4. IsSheet(f) /\ Len(f) = Len(c) /\ IsSheet(g) /\ Len(g) = Len(d)
  BY <1>1, <1>2, RowsAreASheet
<1>5. Begins(f, g)
  BY <1>1, <1>3, <1>4 DEF Begins
<1>. QED
  BY <1>4, <1>5 DEF f, g

-----------------------------------------------------------------------------
(* The signals: a row depends on no later row of the panel                 *)

LEMMA TrailingRow ==
  ASSUME NEW c, IsSheet(c), NEW k \in Nat
  PROVE  /\ IsSheet(TrailingReturn(c, k)) /\ Len(TrailingReturn(c, k)) = Len(c)
         /\ \A t \in 1 .. Len(c) : TrailingReturn(c, k)[t] =
              IF k < 1 \/ t <= k THEN NoRow
              ELSE [s \in Symbols |-> Return(c[t - k][s], c[t][s])]
<1> DEFINE n == Len(c)
           recent == SubSeq(c, k + 1, n)
           older == SubSeq(c, 1, n - k)
           f == [t \in 1 .. n |->
                   IF k < 1 \/ k >= n \/ t <= k THEN NoRow
                   ELSE [s \in Symbols |-> Return(older[t - k][s], recent[t - k][s])]]
<1>1. n \in Nat /\ TrailingReturn(c, k) = f
  BY DEF IsSheet, TrailingReturn
<1>2. ASSUME NEW t \in 1 .. n, t > k
      PROVE  older[t - k] = c[t - k] /\ recent[t - k] = c[t]
  <2>1. \A j \in 1 .. (n - k) - 1 + 1 : older[j] = c[1 + j - 1]
    BY <1>1, SlicesAreSheets
  <2>2. \A j \in 1 .. n - (k + 1) + 1 : recent[j] = c[k + 1 + j - 1]
    BY <1>1, SlicesAreSheets
  <2>3. t - k \in 1 .. (n - k) - 1 + 1 /\ t - k \in 1 .. n - (k + 1) + 1
    BY <1>1, <1>2
  <2>4. 1 + (t - k) - 1 = t - k /\ k + 1 + (t - k) - 1 = t
    BY <1>1
  <2>. QED
    BY <2>1, <2>2, <2>3, <2>4
<1>3. ASSUME NEW t \in 1 .. n
      PROVE  f[t] = IF k < 1 \/ t <= k THEN NoRow
                    ELSE [s \in Symbols |-> Return(c[t - k][s], c[t][s])]
  <2>1. CASE t <= k \/ k < 1
    BY <2>1
  <2>2. CASE t > k /\ ~(k < 1)
    <3>1. ~(k >= n)
      BY <1>1, <2>2
    <3>2. f[t] = [s \in Symbols |-> Return(older[t - k][s], recent[t - k][s])]
      BY <1>1, <2>2, <3>1
    <3>3. older[t - k] = c[t - k] /\ recent[t - k] = c[t]
      BY <1>2, <2>2
    <3>. QED
      BY <1>1, <2>2, <3>2, <3>3
  <2>. QED
    BY <1>1, <2>1, <2>2
<1>4. f = [t \in 1 .. n |-> f[t]]
  OBVIOUS
<1> HIDE DEF f
<1>5. IsSheet(f) /\ Len(f) = n
  BY <1>1, <1>4, RowsAreASheet
<1>. QED
  BY <1>1, <1>3, <1>5

LEMMA TrailingBegins ==
  ASSUME NEW c, NEW d, Begins(c, d), NEW k \in Nat
  PROVE  /\ Begins(TrailingReturn(c, k), TrailingReturn(d, k))
         /\ Len(TrailingReturn(c, k)) = Len(c) /\ Len(TrailingReturn(d, k)) = Len(d)
<1>1. /\ IsSheet(c) /\ IsSheet(d) /\ Len(c) \in Nat /\ Len(d) \in Nat /\ Len(d) <= Len(c)
      /\ \A t \in 1 .. Len(d) : c[t] = d[t]
  BY DEF Begins, IsSheet
<1>2. /\ IsSheet(TrailingReturn(c, k)) /\ Len(TrailingReturn(c, k)) = Len(c)
      /\ \A t \in 1 .. Len(c) : TrailingReturn(c, k)[t] =
           IF k < 1 \/ t <= k THEN NoRow
           ELSE [s \in Symbols |-> Return(c[t - k][s], c[t][s])]
  BY <1>1, TrailingRow
<1>3. /\ IsSheet(TrailingReturn(d, k)) /\ Len(TrailingReturn(d, k)) = Len(d)
      /\ \A t \in 1 .. Len(d) : TrailingReturn(d, k)[t] =
           IF k < 1 \/ t <= k THEN NoRow
           ELSE [s \in Symbols |-> Return(d[t - k][s], d[t][s])]
  BY <1>1, TrailingRow
<1>4. ASSUME NEW t \in 1 .. Len(d)
      PROVE  TrailingReturn(c, k)[t] = TrailingReturn(d, k)[t]
  <2>1. CASE k < 1 \/ t <= k
    <3>1. t \in 1 .. Len(c)
      BY <1>1
    <3>2. TrailingReturn(c, k)[t] = NoRow
      BY <1>2, <2>1, <3>1
    <3>3. TrailingReturn(d, k)[t] = NoRow
      BY <1>3, <2>1
    <3>. QED
      BY <3>2, <3>3
  <2>2. CASE ~(k < 1 \/ t <= k)
    <3>1. t - k \in 1 .. Len(d) /\ t \in 1 .. Len(c)
      BY <1>1, <2>2
    <3>2. c[t - k] = d[t - k] /\ c[t] = d[t]
      BY <1>1, <3>1
    <3>3. TrailingReturn(c, k)[t] = [s \in Symbols |-> Return(c[t - k][s], c[t][s])]
      BY <1>2, <2>2, <3>1
    <3>4. TrailingReturn(d, k)[t] = [s \in Symbols |-> Return(d[t - k][s], d[t][s])]
      BY <1>3, <2>2
    <3>. QED
      BY <3>2, <3>3, <3>4
  <2>. QED
    BY <2>1, <2>2
<1>. QED
  BY <1>1, <1>2, <1>3, <1>4 DEF Begins

LEMMA TsMomentumBegins ==
  ASSUME NEW c, NEW d, Begins(c, d), NEW p, p.lookback \in Nat
  PROVE  /\ Begins(TsMomentum(c, p), TsMomentum(d, p))
         /\ Len(TsMomentum(c, p)) = Len(c) /\ Len(TsMomentum(d, p)) = Len(d)
<1> DEFINE Signs(past, n) ==
             [t \in 1 .. n |-> IF past[t] = NoRow THEN Flat
                               ELSE [s \in Symbols |-> Direction(past[t][s])]]
           f == Signs(TrailingReturn(c, p.lookback), Len(c))
           g == Signs(TrailingReturn(d, p.lookback), Len(d))
<1>1. /\ Begins(TrailingReturn(c, p.lookback), TrailingReturn(d, p.lookback))
      /\ Len(TrailingReturn(c, p.lookback)) = Len(c)
      /\ Len(TrailingReturn(d, p.lookback)) = Len(d)
  BY TrailingBegins
<1>2. Len(c) \in Nat /\ Len(d) \in Nat /\ Len(d) <= Len(c)
  BY DEF Begins, IsSheet
<1>3. f = [t \in 1 .. Len(c) |-> f[t]] /\ g = [t \in 1 .. Len(d) |-> g[t]]
  OBVIOUS
<1>4. ASSUME NEW t \in 1 .. Len(d)
      PROVE  f[t] = g[t]
  <2> DEFINE Sign(row) == IF row = NoRow THEN Flat ELSE [s \in Symbols |-> Direction(row[s])]
  <2>1. TrailingReturn(c, p.lookback)[t] = TrailingReturn(d, p.lookback)[t]
    BY <1>1 DEF Begins
  <2>2. f[t] = Sign(TrailingReturn(c, p.lookback)[t])
    BY <1>2
  <2>3. g[t] = Sign(TrailingReturn(d, p.lookback)[t])
    OBVIOUS
  <2>. QED
    BY <2>1, <2>2, <2>3, Zenon
<1>5. TsMomentum(c, p) = ScaleToGross(f, p.gross) /\ TsMomentum(d, p) = ScaleToGross(g, p.gross)
  BY DEF TsMomentum
<1> HIDE DEF f, g
<1>6. IsSheet(f) /\ Len(f) = Len(c) /\ IsSheet(g) /\ Len(g) = Len(d)
  BY <1>2, <1>3, RowsAreASheet
<1>7. Begins(f, g)
  BY <1>2, <1>4, <1>6 DEF Begins
<1>. QED
  BY <1>5, <1>6, <1>7, ScalingBegins

LEMMA ReversalBegins ==
  ASSUME NEW c, NEW d, Begins(c, d), NEW p, p.lookback \in Nat
  PROVE  /\ Begins(ShortTermReversal(c, p), ShortTermReversal(d, p))
         /\ Len(ShortTermReversal(c, p)) = Len(c) /\ Len(ShortTermReversal(d, p)) = Len(d)
<1> DEFINE a == TrailingReturn(c, p.lookback)
           b == TrailingReturn(d, p.lookback)
<1>1. Begins(a, b) /\ Len(a) = Len(c) /\ Len(b) = Len(d)
  BY TrailingBegins
<1> HIDE DEF a, b
<1>2. Begins(Negated(a), Negated(b)) /\ Len(Negated(a)) = Len(c) /\ Len(Negated(b)) = Len(d)
  BY <1>1, NegationBegins
<1> DEFINE e == CrossSectionalRank(Negated(a))
           h == CrossSectionalRank(Negated(b))
<1>3. Begins(e, h) /\ Len(e) = Len(c) /\ Len(h) = Len(d)
  BY <1>2, RankingBegins
<1> HIDE DEF e, h
<1>4. /\ Begins(DollarNeutral(e, p.gross), DollarNeutral(h, p.gross))
      /\ Len(DollarNeutral(e, p.gross)) = Len(c) /\ Len(DollarNeutral(h, p.gross)) = Len(d)
  BY <1>3, NeutralBegins
<1>. QED
  BY <1>4 DEF ShortTermReversal, a, b, e, h

(* The scores of xs_momentum before they are ranked.                       *)
Scores(m, k, skip) ==
    [t \in 1 .. Len(m) |->
       IF k + skip >= Len(m) \/ t <= k + skip THEN NoRow
       ELSE [s \in Symbols |->
               Return(SubSeq(m, 1, Len(m) - (k + skip))[t - (k + skip)][s],
                      SubSeq(m, (k + skip) - skip + 1, Len(m) - skip)[t - (k + skip)][s])]]

LEMMA ScoreRow ==
  ASSUME NEW c, IsSheet(c), NEW k \in Nat, NEW skip \in Nat
  PROVE  /\ IsSheet(Scores(c, k, skip)) /\ Len(Scores(c, k, skip)) = Len(c)
         /\ \A t \in 1 .. Len(c) : Scores(c, k, skip)[t] =
              IF t <= k + skip THEN NoRow
              ELSE [s \in Symbols |-> Return(c[t - (k + skip)][s], c[t - skip][s])]
<1> DEFINE n == Len(c)
           start == k + skip
           recent == SubSeq(c, start - skip + 1, n - skip)
           older == SubSeq(c, 1, n - start)
           f == Scores(c, k, skip)
<1>1. n \in Nat /\ start \in Nat
  BY DEF IsSheet
<1>2. ASSUME NEW t \in 1 .. n, t > start
      PROVE  older[t - start] = c[t - start] /\ recent[t - start] = c[t - skip]
  <2>1. \A j \in 1 .. (n - start) - 1 + 1 : older[j] = c[1 + j - 1]
    BY <1>1, SlicesAreSheets
  <2>2. \A j \in 1 .. (n - skip) - (start - skip + 1) + 1 :
          recent[j] = c[start - skip + 1 + j - 1]
    BY <1>1, SlicesAreSheets
  <2>3. /\ t - start \in 1 .. (n - start) - 1 + 1
        /\ t - start \in 1 .. (n - skip) - (start - skip + 1) + 1
    BY <1>1, <1>2
  <2>4. 1 + (t - start) - 1 = t - start /\ start - skip + 1 + (t - start) - 1 = t - skip
    BY <1>1
  <2>. QED
    BY <2>1, <2>2, <2>3, <2>4
<1>3. ASSUME NEW t \in 1 .. n
      PROVE  f[t] = IF t <= start THEN NoRow
                    ELSE [s \in Symbols |-> Return(c[t - start][s], c[t - skip][s])]
  <2>1. CASE t <= start
    BY <2>1 DEF Scores
  <2>2. CASE t > start
    <3>1. ~(start >= n) /\ ~(t <= start)
      BY <1>1, <2>2
    <3>2. f[t] = [s \in Symbols |-> Return(older[t - start][s], recent[t - start][s])]
      BY <3>1 DEF Scores
    <3>3. older[t - start] = c[t - start] /\ recent[t - start] = c[t - skip]
      BY <1>2, <2>2
    <3>. QED
      BY <3>1, <3>2, <3>3
  <2>. QED
    BY <1>1, <2>1, <2>2
<1>4. f = [t \in 1 .. n |-> f[t]]
  BY DEF Scores
<1>5. IsSheet(f) /\ Len(f) = n
  BY <1>1, <1>4, RowsAreASheet
<1>. QED
  BY <1>3, <1>5

LEMMA XsMomentumBegins ==
  ASSUME NEW c, NEW d, Begins(c, d), NEW p, p.lookback \in Nat, p.skip \in Nat
  PROVE  /\ Begins(XsMomentum(c, p), XsMomentum(d, p))
         /\ Len(XsMomentum(c, p)) = Len(c) /\ Len(XsMomentum(d, p)) = Len(d)
<1> DEFINE k == p.lookback
           skip == p.skip
           f == Scores(c, k, skip)
           g == Scores(d, k, skip)
<1>1. /\ IsSheet(c) /\ IsSheet(d) /\ Len(c) \in Nat /\ Len(d) \in Nat /\ Len(d) <= Len(c)
      /\ \A t \in 1 .. Len(d) : c[t] = d[t]
  BY DEF Begins, IsSheet
<1>0. /\ XsMomentum(c, p) = DollarNeutral(CrossSectionalRank(f), p.gross)
      /\ XsMomentum(d, p) = DollarNeutral(CrossSectionalRank(g), p.gross)
  BY DEF XsMomentum, Scores
<1>a. k \in Nat /\ skip \in Nat
  OBVIOUS
<1> HIDE DEF k, skip
<1>2. /\ IsSheet(f) /\ Len(f) = Len(c)
      /\ \A t \in 1 .. Len(c) : f[t] =
           IF t <= k + skip THEN NoRow
           ELSE [s \in Symbols |-> Return(c[t - (k + skip)][s], c[t - skip][s])]
  BY <1>1, <1>a, ScoreRow
<1>3. /\ IsSheet(g) /\ Len(g) = Len(d)
      /\ \A t \in 1 .. Len(d) : g[t] =
           IF t <= k + skip THEN NoRow
           ELSE [s \in Symbols |-> Return(d[t - (k + skip)][s], d[t - skip][s])]
  BY <1>1, <1>a, ScoreRow
<1> HIDE DEF f, g
<1>5. ASSUME NEW t \in 1 .. Len(d)
      PROVE  f[t] = g[t]
  <2>1. CASE t <= k + skip
    <3>1. t \in 1 .. Len(c)
      BY <1>1
    <3>2. f[t] = NoRow
      BY <1>2, <2>1, <3>1
    <3>3. g[t] = NoRow
      BY <1>3, <2>1
    <3>. QED
      BY <3>2, <3>3
  <2>2. CASE ~(t <= k + skip)
    <3>1. t - (k + skip) \in 1 .. Len(d) /\ t - skip \in 1 .. Len(d) /\ t \in 1 .. Len(c)
      BY <1>1, <1>a, <2>2
    <3>2. c[t - (k + skip)] = d[t - (k + skip)] /\ c[t - skip] = d[t - skip]
      BY <1>1, <3>1
    <3>3. f[t] = [s \in Symbols |-> Return(c[t - (k + skip)][s], c[t - skip][s])]
      BY <1>2, <2>2, <3>1
    <3>4. g[t] = [s \in Symbols |-> Return(d[t - (k + skip)][s], d[t - skip][s])]
      BY <1>3, <2>2
    <3>. QED
      BY <3>2, <3>3, <3>4
  <2>. QED
    BY <2>1, <2>2
<1>6. Begins(f, g)
  BY <1>1, <1>2, <1>3, <1>5 DEF Begins
<1> DEFINE e == CrossSectionalRank(f)
           h == CrossSectionalRank(g)
<1>7. Begins(e, h) /\ Len(e) = Len(c) /\ Len(h) = Len(d)
  BY <1>2, <1>3, <1>6, RankingBegins
<1> HIDE DEF e, h
<1>8. /\ Begins(DollarNeutral(e, p.gross), DollarNeutral(h, p.gross))
      /\ Len(DollarNeutral(e, p.gross)) = Len(c) /\ Len(DollarNeutral(h, p.gross)) = Len(d)
  BY <1>7, NeutralBegins
<1>. QED
  BY <1>0, <1>8 DEF e, h

LEMMA BarReturnsBegin ==
  ASSUME NEW c, NEW d, Begins(c, d)
  PROVE  /\ Begins(BarReturns(c), BarReturns(d))
         /\ Len(BarReturns(c)) = Len(c) /\ Len(BarReturns(d)) = Len(d)
<1> DEFINE f == BarReturns(c)
           g == BarReturns(d)
<1>1. /\ Len(c) \in Nat /\ Len(d) \in Nat /\ Len(d) <= Len(c)
      /\ \A t \in 1 .. Len(d) : c[t] = d[t]
  BY DEF Begins, IsSheet
<1>2. f = [t \in 1 .. Len(c) |-> f[t]] /\ g = [t \in 1 .. Len(d) |-> g[t]]
  BY DEF BarReturns
<1>3. ASSUME NEW t \in 1 .. Len(d)
      PROVE  f[t] = g[t]
  <2>1. CASE t = 1
    BY <1>1, <2>1 DEF BarReturns
  <2>2. CASE t # 1
    <3>1. t - 1 \in 1 .. Len(d) /\ t \in 1 .. Len(c)
      BY <1>1, <2>2
    <3>2. c[t - 1] = d[t - 1] /\ c[t] = d[t]
      BY <1>1, <3>1
    <3>3. f[t] = [s \in Symbols |-> Return(c[t - 1][s], c[t][s])]
      BY <2>2, <3>1 DEF BarReturns
    <3>4. g[t] = [s \in Symbols |-> Return(d[t - 1][s], d[t][s])]
      BY <2>2 DEF BarReturns
    <3>. QED
      BY <3>2, <3>3, <3>4
  <2>. QED
    BY <2>1, <2>2
<1> HIDE DEF f, g
<1>4. IsSheet(f) /\ Len(f) = Len(c) /\ IsSheet(g) /\ Len(g) = Len(d)
  BY <1>1, <1>2, RowsAreASheet
<1>5. Begins(f, g)
  BY <1>1, <1>3, <1>4 DEF Begins
<1>. QED
  BY <1>4, <1>5 DEF f, g

(* The market of the betas, and one row of them.                           *)
MarketOf(m) == Table(<<[t \in 1 .. Len(m) |-> Sum(Table(BarReturns(m))[t])]>>)[1]

BetaRow(returns, market, k, t) ==
    IF t <= k \/ k < 2 \/ \A i, j \in (t - k + 1) .. t : market[i] = market[j]
    THEN NoRow
    ELSE [s \in Symbols |->
            Sum([q \in 1 .. k |->
                (k * market[t - k + q] - Sum([l \in 1 .. k |-> market[t - k + l]]))
                * returns[t - k + q][s]])]

LEMMA MarketRow ==
  ASSUME NEW c, IsSheet(c)
  PROVE  \A t \in 1 .. Len(c) : MarketOf(c)[t] = Sum(Table(BarReturns(c))[t])
<1> DEFINE f == [t \in 1 .. Len(c) |-> Sum(Table(BarReturns(c))[t])]
<1>1. Len(c) \in Nat /\ f = [t \in 1 .. Len(c) |-> f[t]]
  BY DEF IsSheet
<1>2. \A t \in 1 .. Len(c) : f[t] = Sum(Table(BarReturns(c))[t])
  OBVIOUS
<1>3. MarketOf(c) = Table(<<f>>)[1]
  BY DEF MarketOf
<1> HIDE DEF f
<1>4. Len(f) = Len(c)
  BY <1>1, RowsAreASheet
<1>5. Len(<<f>>) = 1 /\ 1 \in 1 .. Len(<<f>>) /\ <<f>>[1] = f
  OBVIOUS
<1>6. Table(<<f>>)[1] = SubSeq(<<f>>[1], 1, Len(<<f>>[1]))
  BY <1>5, TableOfRows
<1>7. MarketOf(c) = SubSeq(f, 1, Len(c))
  BY <1>3, <1>4, <1>5, <1>6
<1>8. \A t \in 1 .. Len(c) - 1 + 1 : SubSeq(f, 1, Len(c))[t] = f[1 + t - 1]
  BY <1>1, SlicesAreSheets
<1>. QED
  BY <1>1, <1>2, <1>7, <1>8

LEMMA SameBetaRow ==
  ASSUME NEW k \in Nat, NEW t \in Nat, NEW r, NEW x, NEW m, NEW y,
         \A i \in 1 .. t : r[i] = x[i] /\ m[i] = y[i]
  PROVE  BetaRow(r, m, k, t) = BetaRow(x, y, k, t)
<1>1. CASE t <= k \/ k < 2
  BY <1>1 DEF BetaRow
<1>2. CASE ~(t <= k \/ k < 2)
  <2> DEFINE Constant(w) == \A i, j \in (t - k + 1) .. t : w[i] = w[j]
             Total(w) == Sum([l \in 1 .. k |-> w[t - k + l]])
             Covariance(q, w, s) ==
               Sum([l \in 1 .. k |-> (k * w[t - k + l] - Total(w)) * q[t - k + l][s]])
  <2>1. \A i \in (t - k + 1) .. t : m[i] = y[i]
    BY <1>2
  <2>2. Constant(m) <=> Constant(y)
    BY <2>1
  <2>3. \A l \in 1 .. k : m[t - k + l] = y[t - k + l] /\ r[t - k + l] = x[t - k + l]
    BY <1>2
  <2>4. Total(m) = Total(y)
    <3>1. [l \in 1 .. k |-> m[t - k + l]] = [l \in 1 .. k |-> y[t - k + l]]
      BY <2>3
    <3>. QED
      BY <3>1, Zenon
  <2>5. ASSUME NEW s \in Symbols
        PROVE  Covariance(r, m, s) = Covariance(x, y, s)
    <3> DEFINE u == Total(m)
               v == Total(y)
    <3>1. u = v
      BY <2>4
    <3> HIDE DEF u, v
    <3>2. [l \in 1 .. k |-> (k * m[t - k + l] - u) * r[t - k + l][s]]
            = [l \in 1 .. k |-> (k * y[t - k + l] - v) * x[t - k + l][s]]
      BY <2>3, <3>1
    <3>3. Sum([l \in 1 .. k |-> (k * m[t - k + l] - u) * r[t - k + l][s]])
            = Sum([l \in 1 .. k |-> (k * y[t - k + l] - v) * x[t - k + l][s]])
      BY <3>2, Zenon
    <3>. QED
      BY <3>3, Zenon DEF u, v
  <2>6. BetaRow(r, m, k, t) = IF Constant(m) THEN NoRow
                              ELSE [s \in Symbols |-> Covariance(r, m, s)]
    BY <1>2, Zenon DEF BetaRow
  <2>7. BetaRow(x, y, k, t) = IF Constant(y) THEN NoRow
                              ELSE [s \in Symbols |-> Covariance(x, y, s)]
    BY <1>2, Zenon DEF BetaRow
  <2> HIDE DEF Constant, Covariance
  <2>8. [s \in Symbols |-> Covariance(r, m, s)] = [s \in Symbols |-> Covariance(x, y, s)]
    BY <2>5
  <2>9. CASE Constant(m)
    BY <2>2, <2>6, <2>7, <2>9, Zenon
  <2>10. CASE ~Constant(m)
    BY <2>2, <2>6, <2>7, <2>8, <2>10, Zenon
  <2>. QED
    BY <2>9, <2>10
<1>. QED
  BY <1>1, <1>2

LEMMA BetasBegin ==
  ASSUME NEW c, NEW d, Begins(c, d), NEW k \in Nat
  PROVE  /\ Begins(RollingBeta(c, k), RollingBeta(d, k))
         /\ Len(RollingBeta(c, k)) = Len(c) /\ Len(RollingBeta(d, k)) = Len(d)
<1> DEFINE f == RollingBeta(c, k)
           g == RollingBeta(d, k)
           r == Table(BarReturns(c))
           x == Table(BarReturns(d))
<1>1. /\ IsSheet(c) /\ IsSheet(d) /\ Len(c) \in Nat /\ Len(d) \in Nat /\ Len(d) <= Len(c)
  BY DEF Begins, IsSheet
<1>2. Begins(r, x) /\ Len(r) = Len(c) /\ Len(x) = Len(d)
  BY BarReturnsBegin, TablesBegin
<1>3. \A t \in 1 .. Len(d) : r[t] = x[t]
  BY <1>2 DEF Begins
<1>4. \A t \in 1 .. Len(d) : MarketOf(c)[t] = MarketOf(d)[t]
  <2>1. \A t \in 1 .. Len(c) : MarketOf(c)[t] = Sum(r[t])
    BY <1>1, MarketRow
  <2>2. \A t \in 1 .. Len(d) : MarketOf(d)[t] = Sum(x[t])
    BY <1>1, MarketRow
  <2> HIDE DEF r, x
  <2>3. \A t \in 1 .. Len(d) : t \in 1 .. Len(c)
    BY <1>1
  <2>4. \A t \in 1 .. Len(d) : Sum(r[t]) = Sum(x[t])
    BY <1>3
  <2>. QED
    BY <2>1, <2>2, <2>3, <2>4
<1>5. /\ f = [t \in 1 .. Len(c) |-> BetaRow(r, MarketOf(c), k, t)]
      /\ g = [t \in 1 .. Len(d) |-> BetaRow(x, MarketOf(d), k, t)]
  BY DEF RollingBeta, BetaRow, MarketOf
<1> HIDE DEF f, g, r, x
<1>6. ASSUME NEW t \in 1 .. Len(d)
      PROVE  f[t] = g[t]
  <2>1. t \in Nat /\ t \in 1 .. Len(c) /\ \A i \in 1 .. t : i \in 1 .. Len(d)
    BY <1>1
  <2>2. BetaRow(r, MarketOf(c), k, t) = BetaRow(x, MarketOf(d), k, t)
    BY <1>3, <1>4, <2>1, SameBetaRow
  <2>. QED
    BY <1>5, <2>1, <2>2
<1>7. f = [t \in 1 .. Len(c) |-> f[t]] /\ g = [t \in 1 .. Len(d) |-> g[t]]
  BY <1>5
<1>8. IsSheet(f) /\ Len(f) = Len(c) /\ IsSheet(g) /\ Len(g) = Len(d)
  BY <1>1, <1>7, RowsAreASheet
<1>9. Begins(f, g)
  BY <1>1, <1>6, <1>8 DEF Begins
<1>. QED
  BY <1>8, <1>9 DEF f, g

LEMMA BetaBegins ==
  ASSUME NEW c, NEW d, Begins(c, d), NEW p, p.lookback \in Nat
  PROVE  /\ Begins(BettingAgainstBeta(c, p), BettingAgainstBeta(d, p))
         /\ Len(BettingAgainstBeta(c, p)) = Len(c)
         /\ Len(BettingAgainstBeta(d, p)) = Len(d)
<1> DEFINE a == RollingBeta(c, p.lookback)
           b == RollingBeta(d, p.lookback)
<1>1. Begins(a, b) /\ Len(a) = Len(c) /\ Len(b) = Len(d)
  BY BetasBegin
<1> HIDE DEF a, b
<1>2. Begins(Negated(a), Negated(b)) /\ Len(Negated(a)) = Len(c) /\ Len(Negated(b)) = Len(d)
  BY <1>1, NegationBegins
<1> DEFINE e == CrossSectionalRank(Negated(a))
           h == CrossSectionalRank(Negated(b))
<1>3. Begins(e, h) /\ Len(e) = Len(c) /\ Len(h) = Len(d)
  BY <1>2, RankingBegins
<1> HIDE DEF e, h
<1>4. /\ Begins(DollarNeutral(e, p.gross), DollarNeutral(h, p.gross))
      /\ Len(DollarNeutral(e, p.gross)) = Len(c) /\ Len(DollarNeutral(h, p.gross)) = Len(d)
  BY <1>3, NeutralBegins
<1>. QED
  BY <1>4 DEF BettingAgainstBeta, a, b, e, h

(* Numbers with a bound have a least and a greatest one.                   *)
LEMMA LeastNatural ==
  ASSUME NEW S \in SUBSET Nat, S # {}
  PROVE  \E x \in S : \A y \in S : x <= y
<1> DEFINE less == OpToRel(<, Nat)
<1>1. IsWellFoundedOn(less, Nat)
  BY NatLessThanWellFounded
<1>2. \A i, j \in Nat : i < j => <<i, j>> \in less
  BY Zenon DEF OpToRel
<1> HIDE DEF less
<1>3. PICK x \in S : \A y \in S : <<y, x>> \notin less
  BY <1>1, WFMin
<1>4. ASSUME NEW y \in S
      PROVE  x <= y
  <2>1. x \in Nat /\ y \in Nat
    OBVIOUS
  <2>2. ~(y < x)
    BY <1>2, <1>3, <2>1, Zenon
  <2>. QED
    BY <2>1, <2>2
<1>. QED
  BY <1>4

LEMMA MaxIsThere ==
  ASSUME NEW r \in Nat, NEW S \in SUBSET (0 .. r), S # {}
  PROVE  Max(S) \in S
<1> DEFINE below == {r - x : x \in S}
<1>1. below \in SUBSET Nat /\ below # {}
  <2>1. \A x \in S : x \in 0 .. r /\ r - x \in Nat
    OBVIOUS
  <2>. QED
    BY <2>1
<1>2. PICK b \in below : \A e \in below : b <= e
  BY <1>1, LeastNatural
<1>3. PICK x \in S : b = r - x
  OBVIOUS
<1>4. ASSUME NEW y \in S
      PROVE  x >= y
  <2>1. r - y \in below
    OBVIOUS
  <2>. QED
    BY <1>2, <1>3, <2>1
<1>5. \E z \in S : \A y \in S : z >= y
  BY <1>4
<1>. QED
  BY <1>5 DEF Max

(* One row of trend_breakout.                                              *)
LowAt(m, k, t, s) == \A i \in (t - k) .. (t - 1) : m[t][s] <= m[i][s]
HighAt(m, k, t, s) == \A i \in (t - k) .. (t - 1) : m[t][s] >= m[i][s]
BreakoutsOf(m, k, t, s) == {i \in (k + 1) .. t : LowAt(m, k, i, s) \/ HighAt(m, k, i, s)}
StateOf(m, k, t, s) ==
    IF BreakoutsOf(m, k, t, s) = {} THEN 0
    ELSE IF LowAt(m, k, Max(BreakoutsOf(m, k, t, s)), s) THEN -1 ELSE 1
BreakoutRow(m, k, t) == IF k < 1 THEN Flat ELSE [s \in Symbols |-> StateOf(m, k, t, s)]

LEMMA SameBreakoutRow ==
  ASSUME NEW k \in Nat, NEW t \in Nat, NEW m, NEW y, \A i \in 1 .. t : m[i] = y[i]
  PROVE  BreakoutRow(m, k, t) = BreakoutRow(y, k, t)
<1>1. ASSUME NEW s, NEW i \in (k + 1) .. t
      PROVE  /\ LowAt(m, k, i, s) <=> LowAt(y, k, i, s)
             /\ HighAt(m, k, i, s) <=> HighAt(y, k, i, s)
  <2>1. m[i] = y[i] /\ \A j \in (i - k) .. (i - 1) : m[j] = y[j]
    OBVIOUS
  <2>. QED
    BY <2>1 DEF LowAt, HighAt
<1>2. ASSUME NEW s
      PROVE  StateOf(m, k, t, s) = StateOf(y, k, t, s)
  <2>1. BreakoutsOf(m, k, t, s) = BreakoutsOf(y, k, t, s)
    BY <1>1 DEF BreakoutsOf
  <2>2. CASE BreakoutsOf(m, k, t, s) = {}
    BY <2>1, <2>2 DEF StateOf
  <2>3. CASE BreakoutsOf(m, k, t, s) # {}
    <3> DEFINE B == BreakoutsOf(m, k, t, s)
    <3>1. B \in SUBSET (0 .. t) /\ B \subseteq (k + 1) .. t
      BY DEF BreakoutsOf
    <3>2. Max(B) \in (k + 1) .. t
      BY <2>3, <3>1, MaxIsThere
    <3> HIDE DEF B
    <3>3. LowAt(m, k, Max(B), s) <=> LowAt(y, k, Max(B), s)
      BY <1>1, <3>2
    <3>4. StateOf(m, k, t, s) = IF LowAt(m, k, Max(B), s) THEN -1 ELSE 1
      BY <2>3 DEF StateOf, B
    <3>5. StateOf(y, k, t, s) = IF LowAt(y, k, Max(B), s) THEN -1 ELSE 1
      BY <2>1, <2>3 DEF StateOf, B
    <3>. QED
      BY <3>3, <3>4, <3>5
  <2>. QED
    BY <2>2, <2>3
<1>3. [s \in Symbols |-> StateOf(m, k, t, s)] = [s \in Symbols |-> StateOf(y, k, t, s)]
  BY <1>2
<1>. QED
  BY <1>3, Zenon DEF BreakoutRow

LEMMA BreakoutBegins ==
  ASSUME NEW c, NEW d, Begins(c, d), NEW p, p.lookback \in Nat
  PROVE  /\ Begins(TrendBreakout(c, p), TrendBreakout(d, p))
         /\ Len(TrendBreakout(c, p)) = Len(c) /\ Len(TrendBreakout(d, p)) = Len(d)
<1> DEFINE f == [t \in 1 .. Len(c) |-> BreakoutRow(c, p.lookback, t)]
           g == [t \in 1 .. Len(d) |-> BreakoutRow(d, p.lookback, t)]
<1>1. /\ Len(c) \in Nat /\ Len(d) \in Nat /\ Len(d) <= Len(c)
      /\ \A t \in 1 .. Len(d) : c[t] = d[t]
  BY DEF Begins, IsSheet
<1>2. f = [t \in 1 .. Len(c) |-> f[t]] /\ g = [t \in 1 .. Len(d) |-> g[t]]
  OBVIOUS
<1>3. ASSUME NEW t \in 1 .. Len(d)
      PROVE  f[t] = g[t]
  <2>1. t \in Nat /\ t \in 1 .. Len(c) /\ \A i \in 1 .. t : c[i] = d[i]
    BY <1>1
  <2>2. BreakoutRow(c, p.lookback, t) = BreakoutRow(d, p.lookback, t)
    BY <2>1, SameBreakoutRow
  <2>. QED
    BY <2>1, <2>2
<1>4. TrendBreakout(c, p) = ScaleToGross(f, p.gross) /\ TrendBreakout(d, p) = ScaleToGross(g, p.gross)
  BY DEF TrendBreakout, BreakoutRow, StateOf, BreakoutsOf, LowAt, HighAt
<1> HIDE DEF f, g
<1>5. IsSheet(f) /\ Len(f) = Len(c) /\ IsSheet(g) /\ Len(g) = Len(d)
  BY <1>1, <1>2, RowsAreASheet
<1>6. Begins(f, g)
  BY <1>1, <1>3, <1>5 DEF Begins
<1>. QED
  BY <1>4, <1>5, <1>6, ScalingBegins

(* The parts of a blend, of the longer panel and of the shorter one.       *)
PartsBegin(a, b, n, c, d) ==
    /\ n \in Nat \ {0} /\ DOMAIN a = 1 .. n /\ DOMAIN b = 1 .. n
    /\ \A q \in 1 .. n : Begins(a[q], b[q]) /\ Len(a[q]) = Len(c) /\ Len(b[q]) = Len(d)

LEMMA BlendBegins ==
  ASSUME NEW c, NEW d, Begins(c, d), NEW gross, NEW a, NEW b, NEW n, PartsBegin(a, b, n, c, d)
  PROVE  /\ Begins(Blend(a, gross), Blend(b, gross))
         /\ Len(Blend(a, gross)) = Len(c) /\ Len(Blend(b, gross)) = Len(d)
<1> DEFINE Mixed(w, t) == [s \in Symbols |-> Sum([q \in 1 .. n |-> w[q][t][s]])]
           f == [t \in 1 .. Len(c) |-> Mixed(a, t)]
           g == [t \in 1 .. Len(d) |-> Mixed(b, t)]
<1>1. Len(c) \in Nat /\ Len(d) \in Nat /\ Len(d) <= Len(c)
  BY DEF Begins, IsSheet
<1>0. /\ n \in Nat /\ 1 \in 1 .. n /\ DOMAIN a = 1 .. n /\ DOMAIN b = 1 .. n
      /\ \A q \in 1 .. n : Begins(a[q], b[q]) /\ Len(a[q]) = Len(c) /\ Len(b[q]) = Len(d)
  BY DEF PartsBegin
<1>2. DOMAIN a[1] = 1 .. Len(c) /\ DOMAIN b[1] = 1 .. Len(d)
  BY <1>0 DEF Begins, IsSheet
<1>3. Blend(a, gross) = ScaleToGross(f, gross) /\ Blend(b, gross) = ScaleToGross(g, gross)
  BY <1>0, <1>2 DEF Blend
<1>4. ASSUME NEW t \in 1 .. Len(d)
      PROVE  Mixed(a, t) = Mixed(b, t)
  <2>1. \A q \in 1 .. n : a[q][t] = b[q][t]
    BY <1>0 DEF Begins
  <2>2. ASSUME NEW s \in Symbols
        PROVE  Sum([q \in 1 .. n |-> a[q][t][s]]) = Sum([q \in 1 .. n |-> b[q][t][s]])
    <3>1. [q \in 1 .. n |-> a[q][t][s]] = [q \in 1 .. n |-> b[q][t][s]]
      BY <2>1
    <3>. QED
      BY <3>1, Zenon
  <2>. QED
    BY <2>2
<1>5. f = [t \in 1 .. Len(c) |-> f[t]] /\ g = [t \in 1 .. Len(d) |-> g[t]]
  OBVIOUS
<1>6. \A t \in 1 .. Len(d) : f[t] = g[t]
  <2> HIDE DEF Mixed
  <2>. QED
    BY <1>1, <1>4
<1> HIDE DEF f, g
<1>7. IsSheet(f) /\ Len(f) = Len(c) /\ IsSheet(g) /\ Len(g) = Len(d)
  BY <1>1, <1>5, RowsAreASheet
<1>8. Begins(f, g)
  BY <1>1, <1>6, <1>7 DEF Begins
<1>. QED
  BY <1>3, <1>7, <1>8, ScalingBegins

LEMMA MultiBegins ==
  ASSUME NEW c, NEW d, Begins(c, d), NEW p,
         p.trend_lookback \in Nat, p.xs_lookback \in Nat, p.xs_skip \in Nat,
         p.reversal_lookback \in Nat, p.beta_lookback \in Nat
  PROVE  /\ Begins(MultiSignal(c, p), MultiSignal(d, p))
         /\ Len(MultiSignal(c, p)) = Len(c) /\ Len(MultiSignal(d, p)) = Len(d)
<1> DEFINE pt == [lookback |-> p.trend_lookback, gross |-> Unit]
           px == [lookback |-> p.xs_lookback, skip |-> p.xs_skip, gross |-> Unit]
           pr == [lookback |-> p.reversal_lookback, gross |-> Unit]
           pb == [lookback |-> p.beta_lookback, gross |-> Unit]
           Parts(m) == <<TsMomentum(m, pt), XsMomentum(m, px), ShortTermReversal(m, pr),
                         BettingAgainstBeta(m, pb)>>
           a == Parts(c)
           b == Parts(d)
<1>1. /\ pt.lookback \in Nat /\ px.lookback \in Nat /\ px.skip \in Nat
      /\ pr.lookback \in Nat /\ pb.lookback \in Nat
  OBVIOUS
<1>2. MultiSignal(c, p) = Blend(a, p.gross) /\ MultiSignal(d, p) = Blend(b, p.gross)
  BY DEF MultiSignal
<1>3. /\ DOMAIN a = 1 .. 4 /\ DOMAIN b = 1 .. 4
      /\ a[1] = TsMomentum(c, pt) /\ b[1] = TsMomentum(d, pt)
      /\ a[2] = XsMomentum(c, px) /\ b[2] = XsMomentum(d, px)
      /\ a[3] = ShortTermReversal(c, pr) /\ b[3] = ShortTermReversal(d, pr)
      /\ a[4] = BettingAgainstBeta(c, pb) /\ b[4] = BettingAgainstBeta(d, pb)
  OBVIOUS
<1> HIDE DEF a, b, pt, px, pr, pb
<1>4. Begins(a[1], b[1]) /\ Len(a[1]) = Len(c) /\ Len(b[1]) = Len(d)
  <2>1. /\ Begins(TsMomentum(c, pt), TsMomentum(d, pt))
        /\ Len(TsMomentum(c, pt)) = Len(c) /\ Len(TsMomentum(d, pt)) = Len(d)
    BY <1>1, TsMomentumBegins
  <2>. QED
    BY <1>3, <2>1
<1>5. Begins(a[2], b[2]) /\ Len(a[2]) = Len(c) /\ Len(b[2]) = Len(d)
  BY <1>1, <1>3, XsMomentumBegins
<1>6. Begins(a[3], b[3]) /\ Len(a[3]) = Len(c) /\ Len(b[3]) = Len(d)
  BY <1>1, <1>3, ReversalBegins
<1>7. Begins(a[4], b[4]) /\ Len(a[4]) = Len(c) /\ Len(b[4]) = Len(d)
  BY <1>1, <1>3, BetaBegins
<1>8. \A q \in 1 .. 4 : q = 1 \/ q = 2 \/ q = 3 \/ q = 4
  OBVIOUS
<1>9. \A q \in 1 .. 4 : Begins(a[q], b[q]) /\ Len(a[q]) = Len(c) /\ Len(b[q]) = Len(d)
  BY <1>4, <1>5, <1>6, <1>7, <1>8
<1>10. PartsBegin(a, b, 4, c, d)
  BY <1>3, <1>9 DEF PartsBegin
<1>11. ASSUME NEW gross
       PROVE  /\ Begins(Blend(a, gross), Blend(b, gross))
              /\ Len(Blend(a, gross)) = Len(c) /\ Len(Blend(b, gross)) = Len(d)
  BY <1>10, BlendBegins
<1>. QED
  BY <1>2, <1>11, Zenon

(* What a strategy looks back over is counted in whole rows.               *)
LooksBack(name, p) == \A key \in Lookbacks(name) : p[key] \in Nat

(* No registered strategy reads a later row: of a panel and of the same    *)
(* panel cut short it makes the same weights, as far as the short one goes *)
(* (library.py's promise), for every panel and every lookback.             *)
THEOREM NoStrategyLooksAhead ==
  ASSUME NEW c, NEW d, Begins(c, d), NEW name \in Registry, NEW p, LooksBack(name, p)
  PROVE  /\ Begins(Registered(name, c, p), Registered(name, d, p))
         /\ Len(Registered(name, c, p)) = Len(c) /\ Len(Registered(name, d, p)) = Len(d)
<1>1. CASE name = "ts_momentum"
  <2>1. p.lookback \in Nat
    BY <1>1 DEF LooksBack, Lookbacks
  <2>. QED
    BY <1>1, <2>1, TsMomentumBegins DEF Registered
<1>2. CASE name = "xs_momentum"
  <2>1. p.lookback \in Nat /\ p.skip \in Nat
    BY <1>2 DEF LooksBack, Lookbacks
  <2>. QED
    BY <1>2, <2>1, XsMomentumBegins DEF Registered
<1>3. CASE name = "short_term_reversal"
  <2>1. p.lookback \in Nat
    BY <1>3 DEF LooksBack, Lookbacks
  <2>. QED
    BY <1>3, <2>1, ReversalBegins DEF Registered
<1>4. CASE name = "betting_against_beta"
  <2>1. p.lookback \in Nat
    BY <1>4 DEF LooksBack, Lookbacks
  <2>. QED
    BY <1>4, <2>1, BetaBegins DEF Registered
<1>5. CASE name = "trend_breakout"
  <2>1. p.lookback \in Nat
    BY <1>5 DEF LooksBack, Lookbacks
  <2>. QED
    BY <1>5, <2>1, BreakoutBegins DEF Registered
<1>6. CASE name = "multi_signal"
  <2>1. /\ p.trend_lookback \in Nat /\ p.xs_lookback \in Nat /\ p.xs_skip \in Nat
        /\ p.reversal_lookback \in Nat /\ p.beta_lookback \in Nat
    BY <1>6 DEF LooksBack, Lookbacks
  <2>. QED
    BY <1>6, <2>1, MultiBegins DEF Registered
<1>. QED
  BY <1>1, <1>2, <1>3, <1>4, <1>5, <1>6 DEF Registry

-----------------------------------------------------------------------------
(* The desk keeps what the engine will book                                *)

(* Every signal gives as many rows as the panel has.                       *)
LEMMA WeightsAreASheet ==
  ASSUME plan \in Plans, NEW panel, IsSheet(panel)
  PROVE  IsSheet(Weights(panel, Chosen)) /\ Len(Weights(panel, Chosen)) = Len(panel)
<1>1. Len(panel) \in Nat
  BY DEF IsSheet
<1>2. CASE plan.strategy \in Registry
  <2>1. LooksBack(plan.strategy, Chosen)
    BY <1>2, PlansAssumption DEF LooksBack, Chosen
  <2>2. Begins(panel, panel)
    BY <1>1 DEF Begins
  <2>3. /\ Begins(Registered(plan.strategy, panel, Chosen), Registered(plan.strategy, panel, Chosen))
        /\ Len(Registered(plan.strategy, panel, Chosen)) = Len(panel)
    BY <1>2, <2>1, <2>2, NoStrategyLooksAhead
  <2>4. Weights(panel, Chosen) = Registered(plan.strategy, panel, Chosen)
    BY <1>2 DEF Weights, Signal
  <2>. QED
    BY <2>3, <2>4 DEF Begins
<1>3. CASE plan.strategy \notin Registry
  <2>1. ASSUME NEW raw, IsSheet(raw), Len(raw) = Len(panel), NEW gross
        PROVE  IsSheet(ScaleToGross(raw, gross)) /\ Len(ScaleToGross(raw, gross)) = Len(panel)
    <3>1. Begins(raw, raw)
      BY <1>1, <2>1 DEF Begins
    <3>2. /\ Begins(ScaleToGross(raw, gross), ScaleToGross(raw, gross))
          /\ Len(ScaleToGross(raw, gross)) = Len(raw)
      BY <3>1, ScalingBegins
    <3>. QED
      BY <2>1, <3>2 DEF Begins
  <2>2. IsSheet(Canary(panel)) /\ Len(Canary(panel)) = Len(panel)
    <3> DEFINE f == Canary(panel)
    <3>1. f = [t \in 1 .. Len(panel) |-> f[t]]
      BY DEF Canary
    <3> HIDE DEF f
    <3>2. IsSheet(f) /\ Len(f) = Len(panel)
      BY <1>1, <3>1, RowsAreASheet
    <3>. QED
      BY <3>2 DEF f
  <2>3. IsSheet(Standardised(panel)) /\ Len(Standardised(panel)) = Len(panel)
    <3> DEFINE f == Standardised(panel)
    <3>1. f = [t \in 1 .. Len(panel) |-> f[t]]
      BY DEF Standardised
    <3> HIDE DEF f
    <3>2. IsSheet(f) /\ Len(f) = Len(panel)
      BY <1>1, <3>1, RowsAreASheet
    <3>. QED
      BY <3>2 DEF f
  <2>4. IsSheet(WarmUp(panel)) /\ Len(WarmUp(panel)) = Len(panel)
    <3> DEFINE f == WarmUp(panel)
    <3>1. f = [t \in 1 .. Len(panel) |-> f[t]]
      BY DEF WarmUp
    <3> HIDE DEF f
    <3>2. IsSheet(f) /\ Len(f) = Len(panel)
      BY <1>1, <3>1, RowsAreASheet
    <3>. QED
      BY <3>2 DEF f
  <2>5. \/ Weights(panel, Chosen) = ScaleToGross(Canary(panel), Chosen.gross)
        \/ Weights(panel, Chosen) = ScaleToGross(Standardised(panel), Chosen.gross)
        \/ Weights(panel, Chosen) = ScaleToGross(WarmUp(panel), Chosen.gross)
    BY <1>3 DEF Weights, Signal
  <2>. QED
    BY <2>1, <2>2, <2>3, <2>4, <2>5
<1>. QED
  BY <1>2, <1>3

(* A bar of the engine: the row before last is the one that was held.      *)
Preceding(w, t) == IF t = 1 THEN Flat ELSE w[t - 1]

BarOf(panel, w, t) == Bar(w[t], Preceding(w, t), panel[t], panel[t + 1])

Paid(panel, w) == [t \in 1 .. Len(w) - 1 |-> BarOf(panel, w, t)]

LEMMA SimulateIsPaid ==
  ASSUME NEW panel, NEW w, IsSheet(w), Len(w) >= 1
  PROVE  Simulate(panel, w) = Paid(panel, w)
<1> DEFINE n == Len(w) - 1
           paid == SubSeq(w, 1, n)
           rest == SubSeq(paid, 1, n - 1)
           previous == <<Flat>> \o rest
           f == [t \in 1 .. n |-> Bar(paid[t], previous[t], panel[t], panel[t + 1])]
<1>1. Len(w) \in Nat /\ n \in Nat
  BY DEF IsSheet
<1>2. /\ IsSheet(paid) /\ Len(paid) = n
      /\ \A t \in 1 .. n : paid[t] = w[t]
  <2> HIDE DEF n
  <2>1. /\ IsSheet(paid) /\ Len(paid) = IF 1 <= n THEN n - 1 + 1 ELSE 0
        /\ \A t \in 1 .. n - 1 + 1 : paid[t] = w[1 + t - 1]
    BY <1>1, SlicesAreSheets
  <2>. QED
    BY <1>1, <2>1
<1>3. Simulate(panel, w) = f
  <2> HIDE DEF paid
  <2>1. Simulate(panel, w) = [t \in 1 .. Len(paid) |->
           Bar(paid[t], (<<Flat>> \o SubSeq(paid, 1, Len(paid) - 1))[t], panel[t], panel[t + 1])]
    BY DEF Simulate, paid
  <2>. QED
    BY <1>2, <2>1
<1> HIDE DEF paid
<1>4. ASSUME NEW t \in 1 .. n
      PROVE  previous[t] = Preceding(w, t)
  <2> DEFINE S == {paid[i] : i \in 1 .. n} \cup {Flat}
  <2>1. \A i \in 1 .. n - 1 : paid[i] \in S
    BY <1>1
  <2> HIDE DEF S
  <2>2. /\ rest \in Seq(S) /\ Len(rest) = IF 1 <= n - 1 THEN n - 1 - 1 + 1 ELSE 0
        /\ \A i \in 1 .. n - 1 - 1 + 1 : rest[i] = paid[1 + i - 1]
    BY <1>1, <2>1, SubSeqProperties
  <2> HIDE DEF rest
  <2>3. <<Flat>> \in Seq(S) /\ Len(<<Flat>>) = 1 /\ <<Flat>>[1] = Flat
    BY DEF S
  <2>4. CASE t = 1
    BY <2>2, <2>3, <2>4, ConcatProperties DEF Preceding
  <2>5. CASE t # 1
    <3>1. t - 1 \in 1 .. n - 1 /\ t \in 2 .. 1 + Len(rest)
      BY <1>1, <2>2, <2>5
    <3>2. previous[t] = rest[t - 1]
      BY <2>2, <2>3, <2>5, <3>1, ConcatProperties
    <3>3. rest[t - 1] = paid[t - 1] /\ paid[t - 1] = w[t - 1]
      BY <1>1, <1>2, <2>2, <3>1
    <3>. QED
      BY <2>5, <3>2, <3>3 DEF Preceding
  <2>. QED
    BY <2>4, <2>5
<1>5. \A t \in 1 .. n : f[t] = BarOf(panel, w, t)
  <2> HIDE DEF previous
  <2>. QED
    BY <1>2, <1>4 DEF BarOf
<1>6. f = [t \in 1 .. n |-> f[t]]
  OBVIOUS
<1> HIDE DEF f
<1>7. f = Paid(panel, w)
  BY <1>5, <1>6 DEF Paid
<1>. QED
  BY <1>3, <1>7

LEMMA PaidIsASheet ==
  ASSUME NEW panel, NEW w, Len(w) \in Nat, Len(w) >= 1
  PROVE  IsSheet(Paid(panel, w)) /\ Len(Paid(panel, w)) = Len(w) - 1
<1> DEFINE f == Paid(panel, w)
<1>1. f = [t \in 1 .. Len(w) - 1 |-> f[t]]
  BY DEF Paid
<1> HIDE DEF f
<1>2. IsSheet(f) /\ Len(f) = Len(w) - 1
  BY <1>1, RowsAreASheet
<1>. QED
  BY <1>2 DEF f

IsRun(f, n) == f = [t \in 1 .. n |-> f[t]]

LEMMA RunIsASequence ==
  ASSUME NEW n \in Nat, NEW S, NEW f, IsRun(f, n), \A t \in 1 .. n : f[t] \in S
  PROVE  f \in Seq(S) /\ Len(f) = n
<1>1. f \in [1 .. n -> S]
  BY DEF IsRun
<1>. QED
  BY <1>1

(* One more bar, at the end of what was booked.                            *)
LEMMA RunGrows ==
  ASSUME NEW n \in Nat, NEW m, m = n + 1, NEW b, NEW g, NEW bar,
         IsRun(b, n), IsRun(g, m),
         \A t \in 1 .. n : g[t] = b[t],
         g[m] = bar
  PROVE  Append(b, bar) = g
<1> DEFINE S == {g[t] : t \in 1 .. m}
<1>1. \A t \in 1 .. m : g[t] \in S
  OBVIOUS
<1> HIDE DEF S
<1>2. /\ m \in Nat /\ m \in 1 .. m
      /\ \A t \in 1 .. n : t \in 1 .. m
      /\ \A t \in 1 .. m : t \in 1 .. n \/ t = m
  OBVIOUS
<1>3. bar \in S /\ \A t \in 1 .. n : b[t] \in S
  <2>1. bar \in S
    BY <1>1, <1>2
  <2>2. ASSUME NEW t \in 1 .. n
        PROVE  b[t] \in S
    BY <1>1, <1>2
  <2>. QED
    BY <2>1, <2>2
<1>4. b \in Seq(S) /\ Len(b) = n
  BY <1>3, RunIsASequence
<1>5. g \in Seq(S) /\ Len(g) = m
  BY <1>1, <1>2, RunIsASequence
<1>6. /\ Append(b, bar) \in Seq(S) /\ Len(Append(b, bar)) = m
      /\ \A t \in 1 .. n : Append(b, bar)[t] = b[t]
      /\ Append(b, bar)[m] = bar
  BY <1>3, <1>4, AppendProperties
<1>7. ASSUME NEW t \in 1 .. m
      PROVE  Append(b, bar)[t] = g[t]
  BY <1>2, <1>6
<1>. QED
  BY <1>5, <1>6, <1>7, SeqEqual

(* What the desk decided on every close: the last row of the panel it had. *)
Decided(panel) == [t \in 1 .. Len(panel) |-> Last(Weights(SubSeq(panel, 1, t), Chosen))]

(* The desk booked those rows, and holds the last of them.                 *)
DeskBooked ==
    /\ book = Paid(close, Decided(close))
    /\ held = Decided(close)[Len(close)]
    /\ before = Preceding(Decided(close), Len(close))

(* What the engine says of the panel it was given.                         *)
Booked ==
    /\ Len(close) >= 3
    /\ submission.bars = Simulate(close, Weights(close, Chosen))
    /\ submission.net = Net(submission.bars, Cost)
    /\ submission.doubled = Net(submission.bars, 2 * Cost)
    /\ submission.folds = PurgedKfold(Len(submission.bars), Splits, Horizon, Embargo)
    /\ submission.measured = plan.volume
    /\ submission.participation = IF plan.volume THEN AdvParticipation(submission.bars) ELSE 0
    /\ submission.probes \in ProbeSets(Len(close))
    /\ submission.leaks = LookaheadScan(close, Chosen, submission.probes)

(* What the gates said is what they say of the submission.                 *)
Judged == verdict = None \/ (Submitted /\ \E lucky : verdict = FailedGates(submission, lucky))

Live ==
    /\ plan \in Plans
    /\ close \in Seq(Rows) /\ Len(close) >= 1
    /\ DeskBooked
    /\ Submitted => Booked
    /\ Judged

LEMMA SequenceIsASheet ==
  ASSUME NEW S, NEW m \in Seq(S)
  PROVE  IsSheet(m)
BY DEF IsSheet

LEMMA DecidedIsASheet ==
  ASSUME NEW panel, Len(panel) \in Nat
  PROVE  /\ IsSheet(Decided(panel)) /\ Len(Decided(panel)) = Len(panel)
         /\ \A t \in 1 .. Len(panel) :
              Decided(panel)[t] = Last(Weights(SubSeq(panel, 1, t), Chosen))
<1> DEFINE f == Decided(panel)
<1>1. /\ f = [t \in 1 .. Len(panel) |-> f[t]]
      /\ \A t \in 1 .. Len(panel) : f[t] = Last(Weights(SubSeq(panel, 1, t), Chosen))
  BY DEF Decided
<1> HIDE DEF f
<1>2. IsSheet(f) /\ Len(f) = Len(panel)
  BY <1>1, RowsAreASheet
<1>. QED
  BY <1>1, <1>2 DEF f

(* A longer panel begins with the shorter one's prefixes.                  *)
LEMMA SamePrefix ==
  ASSUME NEW S, NEW c \in Seq(S), NEW row \in S, NEW t \in 1 .. Len(c)
  PROVE  SubSeq(Append(c, row), 1, t) = SubSeq(c, 1, t)
<1> DEFINE longer == Append(c, row)
<1>1. /\ longer \in Seq(S) /\ Len(longer) = Len(c) + 1
      /\ \A i \in 1 .. Len(c) : longer[i] = c[i]
  BY AppendProperties
<1> HIDE DEF longer
<1>2. t \in Nat /\ 1 \in Int /\ t \in Int /\ \A i \in 1 .. t : i \in 1 .. Len(c)
  OBVIOUS
<1>3. \A i \in 1 .. t : c[i] \in S /\ longer[i] = c[i] /\ longer[i] \in S
  BY <1>1, <1>2
<1>4. /\ SubSeq(c, 1, t) \in Seq(S) /\ Len(SubSeq(c, 1, t)) = t
      /\ \A i \in 1 .. t : SubSeq(c, 1, t)[i] = c[i]
  <2>1. /\ SubSeq(c, 1, t) \in Seq(S)
        /\ Len(SubSeq(c, 1, t)) = IF 1 <= t THEN t - 1 + 1 ELSE 0
        /\ \A i \in 1 .. t - 1 + 1 : SubSeq(c, 1, t)[i] = c[1 + i - 1]
    BY <1>2, <1>3, SubSeqProperties
  <2>. QED
    BY <1>2, <2>1
<1>5. /\ SubSeq(longer, 1, t) \in Seq(S) /\ Len(SubSeq(longer, 1, t)) = t
      /\ \A i \in 1 .. t : SubSeq(longer, 1, t)[i] = longer[i]
  <2>1. /\ SubSeq(longer, 1, t) \in Seq(S)
        /\ Len(SubSeq(longer, 1, t)) = IF 1 <= t THEN t - 1 + 1 ELSE 0
        /\ \A i \in 1 .. t - 1 + 1 : SubSeq(longer, 1, t)[i] = longer[1 + i - 1]
    BY <1>2, <1>3, SubSeqProperties
  <2>. QED
    BY <1>2, <2>1
<1>6. SubSeq(longer, 1, t) = SubSeq(c, 1, t)
  BY <1>3, <1>4, <1>5, SeqEqual
<1>. QED
  BY <1>6 DEF longer

(* A close adds a bar, and changes none that was booked.                   *)
LEMMA CloseBooks ==
  ASSUME Live, NEW row \in Rows, Close(row)
  PROVE  DeskBooked'
<1> DEFINE n == Len(close)
           w == Decided(close)
           v == Decided(close')
           bar == Bar(held, before, Last(close), row)
<1>1. /\ close \in Seq(Rows) /\ n \in Nat /\ n >= 1 /\ close' = Append(close, row)
      /\ plan' = plan /\ book' = Append(book, bar) /\ before' = held
      /\ held' = Last(Weights(close', Chosen))
  BY DEF Live, Close
<1>2. /\ close' \in Seq(Rows) /\ Len(close') = n + 1 /\ close'[n + 1] = row
      /\ \A t \in 1 .. n : close'[t] = close[t]
  BY <1>1, AppendProperties
<1>3. /\ IsSheet(w) /\ Len(w) = n
      /\ \A t \in 1 .. n : w[t] = Last(Weights(SubSeq(close, 1, t), Chosen))
  <2> HIDE DEF n
  <2>. QED
    BY <1>1, DecidedIsASheet DEF n
<1>4. /\ IsSheet(v) /\ Len(v) = n + 1
      /\ \A t \in 1 .. n + 1 : v[t] = Last(Weights(SubSeq(close', 1, t), Chosen))
  <2>1. Len(close') = n + 1 /\ n + 1 \in Nat
    BY <1>1, <1>2
  <2> HIDE DEF n
  <2>. QED
    BY <2>1, DecidedIsASheet
<1>a. \A t \in 1 .. n : v[t] = w[t]
  <2>1. \A t \in 1 .. n : SubSeq(close', 1, t) = SubSeq(close, 1, t) /\ t \in 1 .. n + 1
    BY <1>1, SamePrefix
  <2> HIDE DEF v, w, n
  <2>. QED
    BY <1>3, <1>4, <2>1
<1>b. held' = v[n + 1]
  <2>1. SubSeq(close', 1, n + 1) = close'
    BY <1>2, SubSeqFull
  <2>2. n + 1 \in 1 .. n + 1
    BY <1>1
  <2> HIDE DEF v, n
  <2>. QED
    BY <1>1, <1>4, <2>1, <2>2
<1>5. Decided(close)' = v
  BY <1>1 DEF Decided, Weights, Chosen
<1>6. book = Paid(close, w) /\ held = w[n] /\ before = Preceding(w, n)
  BY DEF Live, DeskBooked
<1> HIDE DEF w, v
<1>7. \A t \in 1 .. n : v[t] = w[t] /\ Preceding(v, t) = Preceding(w, t)
  <2>1. ASSUME NEW t \in 1 .. n, t # 1
        PROVE  v[t - 1] = w[t - 1]
    <3>1. t - 1 \in 1 .. n
      BY <1>1, <2>1
    <3>. QED
      BY <1>a, <3>1
  <2>. QED
    BY <1>a, <2>1 DEF Preceding
<1>8. bar = BarOf(close', v, n)
  <2>1. Last(close) = close[n] /\ n \in 1 .. n
    BY <1>1 DEF Last
  <2>. QED
    BY <1>2, <1>6, <1>7, <2>1 DEF BarOf
<1> HIDE DEF bar
<1>9. book' = Paid(close', v)
  <2> DEFINE g == Paid(close', v)
  <2>1. book = [t \in 1 .. n - 1 |-> BarOf(close, w, t)]
    BY <1>3, <1>6 DEF Paid
  <2>2. g = [t \in 1 .. n - 1 + 1 |-> BarOf(close', v, t)]
    BY <1>1, <1>4 DEF Paid
  <2>3. ASSUME NEW t \in 1 .. n - 1
        PROVE  BarOf(close', v, t) = BarOf(close, w, t)
    <3>1. t \in 1 .. n /\ t + 1 \in 1 .. n
      BY <1>1
    <3>. QED
      BY <1>2, <1>7, <3>1 DEF BarOf
  <2> HIDE DEF g
  <2>4. /\ IsRun(book, n - 1) /\ IsRun(g, n - 1 + 1)
        /\ g[n - 1 + 1] = bar
    <3>1. n - 1 + 1 \in 1 .. n - 1 + 1 /\ n - 1 + 1 = n
      BY <1>1
    <3>. QED
      BY <1>8, <2>1, <2>2, <3>1 DEF IsRun
  <2>5. \A t \in 1 .. n - 1 : g[t] = book[t]
    <3>1. \A t \in 1 .. n - 1 : t \in 1 .. n - 1 + 1
      BY <1>1
    <3>. QED
      BY <2>1, <2>2, <2>3, <3>1
  <2>6. n - 1 \in Nat
    BY <1>1
  <2> HIDE DEF n
  <2>7. Append(book, bar) = g
    BY <2>4, <2>5, <2>6, RunGrows
  <2>. QED
    BY <1>1, <2>7 DEF g
<1>10. before' = Preceding(v, n + 1)
  <2>1. Preceding(v, n + 1) = v[n]
    BY <1>1 DEF Preceding
  <2>2. n \in 1 .. n
    BY <1>1
  <2>. QED
    BY <1>1, <1>6, <1>7, <2>1, <2>2
<1>11. DeskBooked' = (/\ book' = Paid(close', Decided(close)')
                  /\ held' = Decided(close)'[Len(close')]
                  /\ before' = Preceding(Decided(close)', Len(close')))
  BY DEF DeskBooked, Paid, BarOf, Preceding
<1>. QED
  BY <1>2, <1>5, <1>9, <1>b, <1>10, <1>11

LEMMA PanelIsASheet ==
  ASSUME Live
  PROVE  IsSheet(close) /\ Len(close) \in Nat
<1>1. close \in Seq(Rows)
  BY DEF Live
<1>. QED
  BY <1>1, SequenceIsASheet

LEMMA DeskStartsLive == Init => Live
<1> SUFFICES ASSUME Init
             PROVE  Live
  OBVIOUS
<1>1. PICK row \in Opening : close = <<row>> /\ held = Weights(<<row>>, Chosen)[1]
  BY DEF Init
<1>2. row \in Rows
  BY BacktestAssumption DEF Rows
<1>3. /\ plan \in Plans /\ before = Flat /\ book = <<>> /\ submission = None /\ verdict = None
  BY DEF Init
<1>4. close \in Seq(Rows) /\ Len(close) = 1 /\ SubSeq(close, 1, 1) = close
  <2>1. close \in Seq(Rows) /\ Len(close) = 1
    BY <1>1, <1>2
  <2>. QED
    BY <2>1, SubSeqFull
<1>5. IsSheet(close)
  BY <1>4, SequenceIsASheet
<1> DEFINE w == Decided(close)
<1>6. Len(w) = 1 /\ w[1] = Last(Weights(close, Chosen))
  <2>1. Len(close) \in Nat /\ 1 \in 1 .. Len(close)
    BY <1>4
  <2>2. Len(w) = Len(close) /\ w[1] = Last(Weights(SubSeq(close, 1, 1), Chosen))
    BY <2>1, DecidedIsASheet
  <2> HIDE DEF w
  <2>. QED
    BY <1>4, <2>2
<1>7. held = w[1]
  <2>1. Len(Weights(close, Chosen)) = 1
    BY <1>3, <1>4, <1>5, WeightsAreASheet
  <2>. QED
    BY <1>1, <1>6, <2>1 DEF Last
<1> HIDE DEF w
<1>8. book = Paid(close, w)
  BY <1>3, <1>6 DEF Paid
<1>9. before = Preceding(w, 1)
  BY <1>3 DEF Preceding
<1>10. DeskBooked
  BY <1>4, <1>7, <1>8, <1>9 DEF DeskBooked, w
<1>. QED
  BY <1>3, <1>4, <1>10 DEF Live, Submitted, Judged

(* A step that leaves plan, panel and books alone leaves them in step.     *)
LEMMA DeskBookedStays ==
  ASSUME DeskBooked, UNCHANGED <<plan, close, held, before, book>>
  PROVE  DeskBooked'
<1>1. Decided(close)' = Decided(close)
  BY DEF Decided, Weights, Chosen
<1> DEFINE w == Decided(close)
<1>2. book = Paid(close, w) /\ held = w[Len(close)] /\ before = Preceding(w, Len(close))
  BY DEF DeskBooked
<1> HIDE DEF w
<1>3. DeskBooked' = (/\ book' = Paid(close', Decided(close)')
                 /\ held' = Decided(close)'[Len(close')]
                 /\ before' = Preceding(Decided(close)', Len(close')))
  BY DEF DeskBooked, Paid, BarOf, Preceding
<1>4. Decided(close)' = w
  BY <1>1 DEF w
<1>. QED
  BY <1>2, <1>3, <1>4

LEMMA BookedStays ==
  ASSUME Booked, UNCHANGED <<plan, close, submission>>
  PROVE  Booked'
<1>1. Weights(close, Chosen)' = Weights(close, Chosen)
  BY DEF Weights, Chosen
<1>2. LookaheadScan(close, Chosen, submission.probes)'
        = LookaheadScan(close, Chosen, submission.probes)
  BY DEF LookaheadScan, Weights, Chosen
<1>3. Simulate(close, Weights(close, Chosen))' = Simulate(close, Weights(close, Chosen))
  BY <1>1
<1>4. submission' = submission /\ plan' = plan /\ close' = close
  OBVIOUS
<1>. QED
  BY <1>2, <1>3, <1>4 DEF Booked

LEMMA RunBooks ==
  ASSUME NEW probes \in ProbeSets(Len(close)), Run(probes), ~RaisesOn(close)
  PROVE  Booked'
<1> DEFINE r == SubmissionOf(close, probes)
<1>1. /\ r.bars = Simulate(close, Weights(close, Chosen))
      /\ r.net = Net(r.bars, Cost)
      /\ r.doubled = Net(r.bars, 2 * Cost)
      /\ r.folds = PurgedKfold(Len(r.bars), Splits, Horizon, Embargo)
      /\ r.measured = plan.volume
      /\ r.participation = IF plan.volume THEN AdvParticipation(r.bars) ELSE 0
      /\ r.probes = probes
      /\ r.leaks = LookaheadScan(close, Chosen, probes)
  BY DEF SubmissionOf
<1> HIDE DEF r
<1>2. submission' = r /\ close' = close /\ plan' = plan /\ Len(close) >= 3
  BY DEF Run, r
<1>3. Weights(close, Chosen)' = Weights(close, Chosen)
  BY <1>2 DEF Weights, Chosen
<1>4. LookaheadScan(close, Chosen, probes)' = LookaheadScan(close, Chosen, probes)
  BY <1>2 DEF LookaheadScan, Weights, Chosen
<1>5. Simulate(close, Weights(close, Chosen))' = Simulate(close, Weights(close, Chosen))
  BY <1>2, <1>3
<1>6. LookaheadScan(close, Chosen, submission.probes)' = LookaheadScan(close, Chosen, probes)
  BY <1>1, <1>2 DEF LookaheadScan, Weights, Chosen
<1>. QED
  BY <1>1, <1>2, <1>5, <1>6 DEF Booked

LEMMA DeskStaysLive == Live /\ [Next]_vars => Live'
<1> SUFFICES ASSUME Live, [Next]_vars
             PROVE  Live'
  OBVIOUS
<1>1. /\ plan \in Plans /\ close \in Seq(Rows) /\ Len(close) >= 1
      /\ DeskBooked
      /\ Submitted => Booked
      /\ Judged
  BY DEF Live
<1>2. ASSUME NEW row \in Rows, Close(row)
      PROVE  Live'
  <2>1. /\ plan' = plan /\ close' = Append(close, row) /\ submission' = None /\ verdict' = None
    <3>1. submission = None /\ verdict = None
      BY <1>1, <1>2 DEF Close, Judged, Submitted
    <3>. QED
      BY <1>2, <3>1 DEF Close
  <2>2. close' \in Seq(Rows) /\ Len(close') >= 1
    BY <1>1, <1>2, <2>1
  <2>3. DeskBooked'
    BY <1>2, CloseBooks
  <2>. QED
    BY <1>1, <2>1, <2>2, <2>3 DEF Live, Submitted, Judged
<1>3. ASSUME NEW probes \in ProbeSets(Len(close)), Run(probes)
      PROVE  Live'
  <2>1. /\ UNCHANGED <<plan, close, held, before, book>>
        /\ submission' = IF RaisesOn(close) THEN Raised ELSE SubmissionOf(close, probes)
        /\ verdict' = None
    BY <1>1, <1>3 DEF Run, Judged, Submitted
  <2>2. DeskBooked'
    BY <1>1, <2>1, DeskBookedStays
  <2>3. Submitted' => ~RaisesOn(close)
    BY <2>1 DEF Submitted
  <2>4. Submitted' => Booked'
    BY <1>3, <2>3, RunBooks
  <2>. QED
    BY <1>1, <2>1, <2>2, <2>4 DEF Live, Judged
<1>4. ASSUME NEW lucky, Evaluate(lucky)
      PROVE  Live'
  <2>1. /\ UNCHANGED <<plan, close, held, before, book, submission>>
        /\ Submitted /\ verdict' = FailedGates(submission, lucky)
    BY <1>4 DEF Evaluate, Submitted
  <2>2. DeskBooked'
    BY <1>1, <2>1, DeskBookedStays
  <2>3. Booked'
    BY <1>1, <2>1, BookedStays
  <2>4. Judged'
    BY <2>1 DEF Judged, Submitted
  <2>. QED
    BY <1>1, <2>1, <2>2, <2>3, <2>4 DEF Live
<1>5. CASE UNCHANGED vars
  <2>1. UNCHANGED <<plan, close, held, before, book, submission, verdict>>
    BY <1>5 DEF vars
  <2>2. DeskBooked'
    BY <1>1, <2>1, DeskBookedStays
  <2>3. Submitted' => Booked'
    BY <1>1, <2>1, BookedStays DEF Submitted
  <2>. QED
    BY <1>1, <2>1, <2>2, <2>3 DEF Live, Submitted, Judged
<1>. QED
  BY <1>2, <1>3, <1>4, <1>5 DEF Next

(* The engine's bars, and the desk's.                                      *)
LEMMA BarsOfRows ==
  ASSUME Live, Submitted
  PROVE  LET w == Weights(close, Chosen)
             d == Decided(close)
         IN /\ Len(close) \in Nat /\ Len(close) >= 3
            /\ IsSheet(w) /\ Len(w) = Len(close)
            /\ IsSheet(d) /\ Len(d) = Len(close)
            /\ submission.bars = Paid(close, w)
            /\ book = Paid(close, d) /\ held = d[Len(close)]
<1> DEFINE w == Weights(close, Chosen)
           d == Decided(close)
<1>1. plan \in Plans /\ Booked /\ DeskBooked
  BY DEF Live
<1>2. IsSheet(close) /\ Len(close) \in Nat /\ Len(close) >= 3
  BY <1>1, PanelIsASheet DEF Booked
<1>3. IsSheet(w) /\ Len(w) = Len(close)
  BY <1>1, <1>2, WeightsAreASheet
<1>4. IsSheet(d) /\ Len(d) = Len(close)
  BY <1>2, DecidedIsASheet
<1>5. submission.bars = Simulate(close, w) /\ book = Paid(close, d) /\ held = d[Len(close)]
  BY <1>1 DEF Booked, DeskBooked
<1> HIDE DEF w, d
<1>6. Simulate(close, w) = Paid(close, w)
  BY <1>2, <1>3, SimulateIsPaid
<1>. QED
  BY <1>2, <1>3, <1>4, <1>5, <1>6 DEF w, d

(* A registered strategy decides on each close what it decides afterwards. *)
LEMMA DecidesTheSame ==
  ASSUME Live, plan.strategy \in Registry, NEW t \in 1 .. Len(close)
  PROVE  Decided(close)[t] = Weights(close, Chosen)[t]
<1>1. close \in Seq(Rows) /\ IsSheet(close) /\ Len(close) \in Nat /\ plan \in Plans
  BY PanelIsASheet DEF Live
<1> DEFINE cut == SubSeq(close, 1, t)
<1>2. t \in Nat /\ t \in 1 .. t /\ 1 <= t /\ t <= Len(close)
  BY <1>1
<1>3. IsSheet(cut) /\ Len(cut) = t /\ \A i \in 1 .. t : cut[i] = close[i]
  <2>1. /\ IsSheet(cut) /\ Len(cut) = IF 1 <= t THEN t - 1 + 1 ELSE 0
        /\ \A i \in 1 .. t - 1 + 1 : cut[i] = close[1 + i - 1]
    BY <1>2, SlicesAreSheets
  <2>. QED
    BY <1>2, <2>1
<1> HIDE DEF cut
<1>4. Begins(close, cut)
  BY <1>1, <1>2, <1>3 DEF Begins
<1>5. LooksBack(plan.strategy, Chosen)
  BY <1>1, PlansAssumption DEF LooksBack, Chosen
<1>6. Begins(Weights(close, Chosen), Weights(cut, Chosen)) /\ Len(Weights(cut, Chosen)) = t
  BY <1>3, <1>4, <1>5, NoStrategyLooksAhead DEF Weights, Signal
<1>7. Last(Weights(cut, Chosen)) = Weights(close, Chosen)[t]
  BY <1>2, <1>6 DEF Begins, Last
<1>8. Decided(close)[t] = Last(Weights(cut, Chosen))
  BY <1>1, DecidedIsASheet DEF cut
<1>. QED
  BY <1>7, <1>8

LEMMA LiveBacktest == Live => BacktestIsLive
<1> SUFFICES ASSUME Live, Submitted, plan.strategy \in Registry
             PROVE  submission.bars = book
  BY DEF BacktestIsLive
<1> DEFINE w == Weights(close, Chosen)
           d == Decided(close)
           n == Len(close)
<1>1. /\ n \in Nat /\ Len(w) = n /\ Len(d) = n
      /\ submission.bars = Paid(close, w) /\ book = Paid(close, d)
  BY BarsOfRows
<1>2. \A t \in 1 .. n : d[t] = w[t]
  BY DecidesTheSame
<1> HIDE DEF w, d, n
<1>3. ASSUME NEW t \in 1 .. n - 1
      PROVE  BarOf(close, w, t) = BarOf(close, d, t)
  <2>1. t \in 1 .. n /\ (t # 1 => t - 1 \in 1 .. n)
    BY <1>1
  <2>. QED
    BY <1>2, <2>1 DEF BarOf, Preceding
<1>. QED
  BY <1>1, <1>3 DEF Paid

(* A submission's bars are the bars the desk booked, for every panel, grid *)
(* and cost (engine.py:202-231, library.py's promise that a signal reads   *)
(* no later row).                                                          *)
THEOREM BacktestsAreLive == Spec => []BacktestIsLive
<1>1. Init => Live
  BY DeskStartsLive
<1>2. Live /\ [Next]_vars => Live'
  BY DeskStaysLive
<1>3. Live => BacktestIsLive
  BY LiveBacktest
<1>. QED
  BY <1>1, <1>2, <1>3, PTL DEF Spec

-----------------------------------------------------------------------------
(* The folds                                                               *)

LEMMA Division ==
  ASSUME NEW n \in Nat, NEW k \in Nat \ {0}
  PROVE  /\ n \div k \in Nat /\ n % k \in 0 .. k - 1
         /\ n = k * (n \div k) + (n % k)
  OBVIOUS

LEMMA RoundIsNatural ==
  ASSUME NEW a \in Nat
  PROVE  Round(a, 100) \in Nat
<1> DEFINE q == (2 * a + 100) \div 200
<1>1. q \in Nat
  OBVIOUS
<1> HIDE DEF q
<1>2. q % 2 = 1 => q - 1 \in Nat
  BY <1>1
<1>3. Round(a, 100) = q \/ (Round(a, 100) = q - 1 /\ q % 2 = 1)
  <2>1. 2 * 100 = 200
    OBVIOUS
  <2>. QED
    BY <2>1 DEF Round, q
<1>. QED
  BY <1>1, <1>2, <1>3

LEMMA Lesser ==
  ASSUME NEW i \in Nat, NEW r \in Nat
  PROVE  Min({i, r}) = IF i <= r THEN i ELSE r
<1>1. \E x \in {i, r} : \A y \in {i, r} : x <= y
  OBVIOUS
<1>. QED
  BY <1>1 DEF Min

(* The blocks end where the next begins, and the last where the panel does. *)
LEMMA BlocksMeet ==
  ASSUME NEW n \in Nat, NEW k \in Nat \ {0}
  PROVE  /\ \A i \in Nat : BlockEnd(n, k, i) \in Nat
         /\ \A i, j \in Nat : i <= j => BlockEnd(n, k, i) <= BlockEnd(n, k, j)
         /\ BlockEnd(n, k, 0) = 0
         /\ BlockEnd(n, k, k) = n
<1> DEFINE q == n \div k
           r == n % k
           Least(i) == IF i <= r THEN i ELSE r
<1>1. q \in Nat /\ r \in 0 .. k - 1 /\ n = k * q + r
  BY Division
<1> HIDE DEF q, r
<1>2. \A i \in Nat : BlockEnd(n, k, i) = i * q + Least(i)
  BY <1>1, Lesser DEF BlockEnd, q, r
<1>3. \A i \in Nat : i * q \in Nat /\ Least(i) \in Nat
  BY <1>1
<1>4. ASSUME NEW i \in Nat, NEW j \in Nat, i <= j
      PROVE  BlockEnd(n, k, i) <= BlockEnd(n, k, j)
  <2>1. PICK d \in Nat : j = i + d
    <3>1. j - i \in Nat /\ j = i + (j - i)
      BY <1>4
    <3>. QED
      BY <3>1
  <2>2. j * q = i * q + d * q /\ d * q \in Nat
    BY <1>1, <2>1
  <2>3. Least(i) <= Least(j)
    BY <1>1, <1>4
  <2> HIDE DEF Least
  <2>. QED
    BY <1>2, <1>3, <2>2, <2>3
<1>5. BlockEnd(n, k, 0) = 0
  BY <1>1, <1>2
<1>6. BlockEnd(n, k, k) = n
  BY <1>1, <1>2
<1>. QED
  BY <1>2, <1>3, <1>4, <1>5, <1>6

(* Every bar is in one block.                                              *)
LEMMA OneBlock ==
  ASSUME NEW n \in Nat, NEW k \in Nat \ {0}, NEW i \in 1 .. n
  PROVE  \E b \in 1 .. k : \A c \in 1 .. k :
           (i \in BlockStart(n, k, c) .. BlockEnd(n, k, c)) <=> (c = b)
<1> DEFINE End(c) == BlockEnd(n, k, c)
           S == {c \in Nat : i <= End(c)}
<1>1. /\ \A c \in Nat : End(c) \in Nat
      /\ \A c, d \in Nat : c <= d => End(c) <= End(d)
      /\ End(0) = 0 /\ End(k) = n
  BY BlocksMeet
<1> HIDE DEF End
<1>2. k \in S
  BY <1>1
<1>3. PICK b \in S : \A c \in S : b <= c
  BY <1>2, LeastNatural
<1>4. b \in 1 .. k
  BY <1>1, <1>2, <1>3
<1>5. End(b - 1) < i
  <2>1. b - 1 \in Nat /\ b - 1 \notin S
    BY <1>3, <1>4
  <2>. QED
    BY <1>1, <2>1
<1>6. ASSUME NEW c \in 1 .. k
      PROVE  (i \in End(c - 1) + 1 .. End(c)) <=> (c = b)
  <2>1. CASE c = b
    BY <1>1, <1>3, <1>4, <1>5, <2>1
  <2>2. CASE c < b
    <3>1. c \in Nat /\ c \notin S
      BY <1>3, <1>4, <2>2
    <3>. QED
      BY <1>1, <2>2, <3>1
  <2>3. CASE b < c
    <3>1. b \in Nat /\ c - 1 \in Nat /\ b <= c - 1 /\ i <= End(b)
      BY <1>3, <1>4, <2>3
    <3>2. i <= End(c - 1)
      BY <1>1, <3>1
    <3>. QED
      BY <1>1, <2>3, <3>1, <3>2
  <2>. QED
    BY <1>4, <2>1, <2>2, <2>3
<1>. QED
  BY <1>4, <1>6 DEF BlockStart, End

LEMMA TestedOnce ==
  ASSUME NEW n \in Nat, NEW i \in 1 .. n
  PROVE  LET folds == PurgedKfold(n, Splits, Horizon, Embargo)
         IN Cardinality({b \in DOMAIN folds : i \in folds[b].test}) = 1
<1> DEFINE folds == PurgedKfold(n, Splits, Horizon, Embargo)
<1>1. /\ DOMAIN folds = 1 .. Splits
      /\ \A b \in 1 .. Splits :
           folds[b].test = BlockStart(n, Splits, b) .. BlockEnd(n, Splits, b)
  BY DEF PurgedKfold
<1> HIDE DEF folds
<1>2. Splits \in Nat \ {0}
  BY BacktestAssumption
<1>3. PICK b \in 1 .. Splits : \A c \in 1 .. Splits :
           (i \in BlockStart(n, Splits, c) .. BlockEnd(n, Splits, c)) <=> (c = b)
  BY <1>2, OneBlock
<1>4. {c \in DOMAIN folds : i \in folds[c].test} = {b}
  BY <1>1, <1>3
<1>5. Cardinality({b}) = 1
  BY FS_Singleton
<1>. QED
  BY <1>4, <1>5 DEF folds

(* A trained bar's label ends before the block's first bar, or begins      *)
(* after the last label of the block.                                      *)
LEMMA LabelsApart ==
  ASSUME NEW n \in Nat, NEW b \in 1 .. Splits,
         NEW i \in PurgedKfold(n, Splits, Horizon, Embargo)[b].train,
         NEW j \in PurgedKfold(n, Splits, Horizon, Embargo)[b].test
  PROVE  (i .. (i + Horizon)) \cap (j .. (j + Horizon)) = {}
<1> DEFINE first == BlockStart(n, Splits, b)
           last == BlockEnd(n, Splits, b)
           e == Round(n * Embargo, 100)
<1>1. /\ PurgedKfold(n, Splits, Horizon, Embargo)[b].train = Train(n, first, last, Horizon, e)
      /\ PurgedKfold(n, Splits, Horizon, Embargo)[b].test = first .. last
  BY DEF PurgedKfold
<1>2. Horizon \in Nat /\ Splits \in Nat \ {0} /\ Embargo \in Nat
  BY BacktestAssumption
<1>3. e \in Nat
  <2>1. n * Embargo \in Nat
    BY <1>2
  <2>. QED
    BY <2>1, RoundIsNatural
<1>4. b \in Nat /\ b - 1 \in Nat
  BY <1>2
<1>5. BlockEnd(n, Splits, b - 1) \in Nat /\ BlockEnd(n, Splits, b) \in Nat
  BY <1>2, <1>4, BlocksMeet
<1>6. first \in Nat /\ last \in Nat
  BY <1>5 DEF BlockStart
<1> HIDE DEF first, last, e
<1>7. /\ i \in 1 .. n /\ (i < first - Horizon \/ i > last + Horizon + e)
      /\ j \in first .. last
  BY <1>1 DEF Train
<1>. QED
  BY <1>2, <1>3, <1>6, <1>7

LEMMA LiveFolds == Live => TrainNeverSeesTest
<1> SUFFICES ASSUME Live, Submitted
             PROVE  TrainNeverSeesTest
  BY DEF TrainNeverSeesTest
<1> DEFINE n == Len(submission.net)
           w == Weights(close, Chosen)
<1>1. Booked
  BY DEF Live
<1>2. /\ Len(w) = Len(close) /\ Len(close) \in Nat /\ Len(close) >= 3
      /\ submission.bars = Paid(close, w)
  BY BarsOfRows
<1>3. submission.net = Net(submission.bars, Cost)
  BY <1>1 DEF Booked
<1> HIDE DEF w
<1>4. IsSheet(submission.bars) /\ Len(submission.bars) \in Nat
  BY <1>2, PaidIsASheet DEF IsSheet
<1>5. n = Len(submission.bars)
  <2> DEFINE f == Net(submission.bars, Cost)
  <2>1. f = [t \in 1 .. Len(submission.bars) |-> f[t]]
    BY <1>4 DEF Net, IsSheet
  <2> HIDE DEF f
  <2>2. Len(f) = Len(submission.bars)
    BY <1>4, <2>1, RowsAreASheet
  <2>. QED
    BY <1>3, <2>2 DEF f
<1>6. n \in Nat /\ submission.folds = PurgedKfold(n, Splits, Horizon, Embargo)
  BY <1>1, <1>4, <1>5 DEF Booked
<1> HIDE DEF n
<1>7. DOMAIN submission.folds = 1 .. Splits
  BY <1>6 DEF PurgedKfold
<1>8. \A b \in DOMAIN submission.folds :
        \A i \in submission.folds[b].train, j \in submission.folds[b].test :
          (i .. (i + Horizon)) \cap (j .. (j + Horizon)) = {}
  BY <1>6, <1>7, LabelsApart
<1>9. \A i \in 1 .. n : Cardinality({b \in DOMAIN submission.folds :
                                       i \in submission.folds[b].test}) = 1
  BY <1>6, TestedOnce
<1>. QED
  BY <1>8, <1>9 DEF TrainNeverSeesTest, n

(* For every panel, number of folds, label horizon and embargo: no fold    *)
(* trains on a bar whose label overlaps a tested one's, and every bar is   *)
(* tested once (cv.py:16-46).                                              *)
THEOREM TrainsOnNothingTested == Spec => []TrainNeverSeesTest
<1>1. Init => Live
  BY DeskStartsLive
<1>2. Live /\ [Next]_vars => Live'
  BY DeskStaysLive
<1>3. Live => TrainNeverSeesTest
  BY LiveFolds
<1>. QED
  BY <1>1, <1>2, <1>3, PTL DEF Spec

-----------------------------------------------------------------------------
(* Weights are whole numbers of parts                                      *)

(* What holds of 0 and of each next number holds up to n.                  *)
LEMMA CountingUp ==
  ASSUME NEW n \in Nat, NEW Good, 0 \in Good,
         \A i \in 1 .. n : i - 1 \in Good => i \in Good
  PROVE  \A i \in 0 .. n : i \in Good
<1> DEFINE bad == {i \in 0 .. n : i \notin Good}
<1>1. SUFFICES ASSUME bad # {}
               PROVE  FALSE
  OBVIOUS
<1>2. PICK i \in bad : \A j \in bad : i <= j
  <2>1. bad \in SUBSET Nat
    OBVIOUS
  <2> HIDE DEF bad
  <2>. QED
    BY <1>1, <2>1, LeastNatural
<1>3. i \in 1 .. n /\ i - 1 \in 0 .. n
  BY <1>2
<1>4. i - 1 \notin bad
  <2> HIDE DEF bad
  <2>1. i - 1 \in bad => i <= i - 1
    BY <1>2
  <2>. QED
    BY <1>3, <2>1
<1>5. i - 1 \in Good
  BY <1>3, <1>4
<1>. QED
  BY <1>2, <1>3, <1>5

AddsUp(u, row, n) == u = [i \in 0 .. n |-> IF i = 0 THEN 0 ELSE u[i - 1] + row[i]]

LEMMA PartialSums ==
  ASSUME NEW row, NEW n \in Nat
  PROVE  \E u : AddsUp(u, row, n)
<1> DEFINE Good == {k \in Nat : \E u : AddsUp(u, row, k)}
<1>1. 0 \in Good
  <2> DEFINE u == [i \in 0 .. 0 |-> 0]
  <2>1. u = [i \in 0 .. 0 |-> IF i = 0 THEN 0 ELSE u[i - 1] + row[i]]
    OBVIOUS
  <2>2. AddsUp(u, row, 0)
    BY <2>1 DEF AddsUp
  <2>. QED
    BY <2>2
<1>2. ASSUME NEW k \in 1 .. n, k - 1 \in Good
      PROVE  k \in Good
  <2>1. PICK u : AddsUp(u, row, k - 1)
    BY <1>2
  <2> DEFINE v == [i \in 0 .. k |-> IF i = k THEN u[k - 1] + row[k] ELSE u[i]]
             value(r, i) == IF i = 0 THEN 0 ELSE r[i - 1] + row[i]
  <2>2. u = [i \in 0 .. k - 1 |-> value(u, i)]
    BY <2>1, Zenon DEF AddsUp
  <2>3. k \in Nat /\ k >= 1
    OBVIOUS
  <2>4. \A i \in 0 .. k - 1 : u[i] = value(u, i) /\ v[i] = u[i] /\ i \in 0 .. k
    <3>1. \A i \in 0 .. k - 1 : u[i] = value(u, i)
      <4> HIDE DEF value
      <4>. QED
        BY <2>2
    <3>2. \A i \in 0 .. k - 1 : v[i] = u[i] /\ i \in 0 .. k
      <4>1. \A i \in 0 .. k - 1 : i # k /\ i \in 0 .. k
        BY <2>3
      <4>. QED
        BY <4>1
    <3>. QED
      BY <3>1, <3>2
  <2>5. v[k] = u[k - 1] + row[k]
    BY <2>3
  <2> HIDE DEF v
  <2>6. ASSUME NEW i \in 0 .. k
        PROVE  v[i] = value(v, i)
    <3>1. CASE i = k
      <4>1. k - 1 \in 0 .. k - 1
        BY <2>3
      <4>2. v[k - 1] = u[k - 1]
        BY <2>4, <4>1
      <4>. QED
        BY <2>3, <2>5, <3>1, <4>2
    <3>2. CASE i = 0
      <4>1. 0 \in 0 .. k - 1
        BY <2>3
      <4>. QED
        BY <2>4, <3>2, <4>1
    <3>3. CASE i # k /\ i # 0
      <4>1. i \in 0 .. k - 1 /\ i - 1 \in 0 .. k - 1
        BY <2>3, <3>3
      <4>2. v[i] = u[i] /\ u[i] = value(u, i) /\ v[i - 1] = u[i - 1]
        BY <2>4, <4>1
      <4>. QED
        BY <3>3, <4>2
    <3>. QED
      BY <3>1, <3>2, <3>3
  <2>7. v = [i \in 0 .. k |-> v[i]]
    BY DEF v
  <2>8. [i \in 0 .. k |-> v[i]] = [i \in 0 .. k |-> value(v, i)]
    <3> HIDE DEF value
    <3>. QED
      BY <2>6
  <2>9. AddsUp(v, row, k)
    BY <2>7, <2>8, Zenon DEF AddsUp
  <2>. QED
    BY <2>3, <2>9
<1>3. \A k \in 0 .. n : k \in Good
  <2> HIDE DEF Good
  <2>. QED
    BY <1>1, <1>2, CountingUp
<1>. QED
  BY <1>3

LEMMA SumOfRow ==
  ASSUME NEW f, Len(f) \in Nat
  PROVE  LET row == SubSeq(f, 1, Len(f))
         IN Sum(f) = (CHOOSE u : AddsUp(u, row, Len(row)))[Len(row)]
BY DEF Sum, AddsUp

(* A sum of numbers of a kind that is closed under addition is of it.      *)
LEMMA SumIsOfKind ==
  ASSUME NEW S \in {Int, Nat}, NEW f, Len(f) \in Nat, \A i \in 1 .. Len(f) : f[i] \in S
  PROVE  Sum(f) \in S
<1> DEFINE row == SubSeq(f, 1, Len(f))
           n == Len(f)
<1>1. Len(row) = n /\ \A i \in 1 .. n : row[i] \in S
  <2> HIDE DEF n
  <2>1. /\ Len(row) = IF 1 <= n THEN n - 1 + 1 ELSE 0
        /\ \A i \in 1 .. n - 1 + 1 : row[i] = f[1 + i - 1]
    BY SlicesAreSheets DEF n
  <2>2. n \in Nat
    BY DEF n
  <2>3. \A i \in 1 .. n : 1 + i - 1 = i /\ i \in 1 .. n - 1 + 1
    BY <2>2
  <2>. QED
    BY <2>1, <2>2, <2>3 DEF n
<1> DEFINE u == CHOOSE r : AddsUp(r, row, n)
<1>2. Sum(f) = u[n]
  BY <1>1, SumOfRow
<1>3. AddsUp(u, row, n)
  BY PartialSums
<1> HIDE DEF row, u
<1>4. /\ u[0] = 0 /\ \A i \in 1 .. n : u[i] = u[i - 1] + row[i]
  <2> DEFINE value(i) == IF i = 0 THEN 0 ELSE u[i - 1] + row[i]
  <2>1. u = [i \in 0 .. n |-> value(i)]
    BY <1>3, Zenon DEF AddsUp
  <2>2. \A i \in 0 .. n : u[i] = value(i)
    <3> HIDE DEF value
    <3>. QED
      BY <2>1
  <2>. QED
    BY <2>2
<1>5. \A i \in 0 .. n : i \in {j \in 0 .. n : u[j] \in S}
  <2> DEFINE Good == {j \in 0 .. n : u[j] \in S}
  <2>1. 0 \in Good
    BY <1>4
  <2>2. ASSUME NEW i \in 1 .. n, i - 1 \in Good
        PROVE  i \in Good
    <3>1. u[i - 1] \in S /\ row[i] \in S /\ u[i] = u[i - 1] + row[i] /\ i \in 0 .. n
      BY <1>1, <1>4, <2>2
    <3>2. u[i] \in S
      BY <3>1
    <3>. QED
      BY <3>1, <3>2
  <2> HIDE DEF Good
  <2>3. \A i \in 0 .. n : i \in Good
    BY <2>1, <2>2, CountingUp
  <2>. QED
    BY <2>3 DEF Good
<1>6. n \in 0 .. n
  OBVIOUS
<1>. QED
  BY <1>2, <1>5, <1>6

LEMMA RowLength ==
  ASSUME NEW row \in [Symbols -> Int]
  PROVE  /\ Len(row) = Width /\ Width \in Nat /\ row \in Seq(Int)
         /\ SubSeq(row, 1, Len(row)) = row
         /\ Sum(row) \in Int /\ Gross(row) \in Nat
<1>1. Width \in Nat
  BY StrategiesAssumption
<1>2. row \in Seq(Int) /\ Len(row) = Width
  BY <1>1 DEF Symbols
<1>3. SubSeq(row, 1, Len(row)) = row
  BY <1>2, SubSeqFull
<1>4. Sum(row) \in Int
  <2>1. \A i \in 1 .. Len(row) : row[i] \in Int
    BY <1>2
  <2>. QED
    BY <1>1, <1>2, <2>1, SumIsOfKind
<1>5. Gross(row) \in Nat
  <2> DEFINE sizes == [s \in Symbols |-> Magnitude(row[s])]
  <2>1. sizes \in [1 .. Width -> Nat]
    BY DEF Magnitude, Symbols
  <2> HIDE DEF sizes
  <2>2. sizes \in Seq(Nat) /\ Len(sizes) = Width
    BY <1>1, <2>1
  <2>3. Sum(sizes) \in Nat
    <3>1. \A i \in 1 .. Len(sizes) : sizes[i] \in Nat
      BY <2>1, <2>2
    <3>. QED
      BY <1>1, <2>2, <3>1, SumIsOfKind
  <2>. QED
    BY <2>3 DEF Gross, sizes
<1>. QED
  BY <1>1, <1>2, <1>3, <1>4, <1>5

(* A sheet of rows of whole numbers.                                       *)
IsBook(m) == IsSheet(m) /\ \A t \in 1 .. Len(m) : m[t] \in [Symbols -> Int]

LEMMA RowsAreABook ==
  ASSUME NEW n \in Nat, NEW f, f = [t \in 1 .. n |-> f[t]],
         \A t \in 1 .. n : f[t] \in [Symbols -> Int]
  PROVE  IsBook(f) /\ Len(f) = n
BY RowsAreASheet DEF IsBook

LEMMA TableOfBook ==
  ASSUME NEW m, IsBook(m)
  PROVE  IsBook(Table(m)) /\ Len(Table(m)) = Len(m) /\ \A t \in 1 .. Len(m) : Table(m)[t] = m[t]
<1>1. Len(m) \in Nat
  BY DEF IsBook, IsSheet
<1>2. /\ IsSheet(Table(m)) /\ Len(Table(m)) = Len(m)
      /\ \A t \in 1 .. Len(m) : Table(m)[t] = SubSeq(m[t], 1, Len(m[t]))
  BY <1>1, TableOfRows
<1>3. \A t \in 1 .. Len(m) : SubSeq(m[t], 1, Len(m[t])) = m[t]
  BY RowLength DEF IsBook
<1>. QED
  BY <1>2, <1>3 DEF IsBook

LEMMA ScaledIsABook ==
  ASSUME NEW raw, IsBook(raw), NEW gross \in Int
  PROVE  IsBook(ScaleToGross(raw, gross)) /\ Len(ScaleToGross(raw, gross)) = Len(raw)
<1> DEFINE rows == Table(raw)
           f == [t \in 1 .. Len(rows) |->
                   IF Gross(rows[t]) = 0 THEN rows[t]
                   ELSE [s \in Symbols |-> (rows[t][s] * gross) \div Gross(rows[t])]]
<1>1. IsBook(rows) /\ Len(rows) = Len(raw)
  BY TableOfBook
<1>2. ScaleToGross(raw, gross) = Table(f)
  BY DEF ScaleToGross
<1> HIDE DEF rows
<1>3. \A t \in 1 .. Len(rows) : f[t] \in [Symbols -> Int]
  <2>1. ASSUME NEW t \in 1 .. Len(rows)
        PROVE  f[t] \in [Symbols -> Int]
    <3>1. rows[t] \in [Symbols -> Int] /\ Gross(rows[t]) \in Nat
      BY <1>1, RowLength DEF IsBook
    <3>2. CASE Gross(rows[t]) = 0
      BY <3>1, <3>2
    <3>3. CASE Gross(rows[t]) # 0
      <4> DEFINE g == Gross(rows[t])
      <4>1. g \in Nat \ {0}
        BY <3>1, <3>3
      <4>2. \A s \in Symbols : rows[t][s] * gross \in Int
        BY <3>1
      <4>3. \A x \in Int : x \div g \in Int
        <5> HIDE DEF g
        <5>. QED
          BY <4>1
      <4>4. f[t] = [s \in Symbols |-> (rows[t][s] * gross) \div g]
        BY <3>3
      <4> HIDE DEF g, f
      <4>. QED
        BY <4>2, <4>3, <4>4
    <3>. QED
      BY <3>2, <3>3
  <2>. QED
    BY <2>1
<1>4. Len(rows) \in Nat
  BY <1>1 DEF IsBook, IsSheet
<1>5. f = [t \in 1 .. Len(rows) |-> f[t]]
  OBVIOUS
<1> HIDE DEF f
<1>6. IsBook(f) /\ Len(f) = Len(rows)
  BY <1>3, <1>4, <1>5, RowsAreABook
<1>. QED
  BY <1>1, <1>2, <1>6, TableOfBook

LEMMA NeutralIsABook ==
  ASSUME NEW scores, IsBook(scores), NEW gross \in Int
  PROVE  IsBook(DollarNeutral(scores, gross)) /\ Len(DollarNeutral(scores, gross)) = Len(scores)
<1> DEFINE f == [t \in DOMAIN scores |->
                   [s \in Symbols |-> Width * scores[t][s] - Sum(scores[t])]]
<1>1. DOMAIN scores = 1 .. Len(scores) /\ Len(scores) \in Nat /\ Width \in Nat
  BY StrategiesAssumption DEF IsBook, IsSheet
<1>2. \A t \in 1 .. Len(scores) : f[t] \in [Symbols -> Int]
  <2>1. ASSUME NEW t \in 1 .. Len(scores)
        PROVE  f[t] \in [Symbols -> Int]
    <3>1. scores[t] \in [Symbols -> Int] /\ Sum(scores[t]) \in Int
      BY RowLength DEF IsBook
    <3>2. f[t] = [s \in Symbols |-> Width * scores[t][s] - Sum(scores[t])]
      BY <1>1
    <3>3. \A s \in Symbols : Width * scores[t][s] - Sum(scores[t]) \in Int
      BY <1>1, <3>1
    <3> HIDE DEF f
    <3>. QED
      BY <3>2, <3>3
  <2>. QED
    BY <2>1
<1>3. f = [t \in 1 .. Len(scores) |-> f[t]]
  BY <1>1
<1>4. DollarNeutral(scores, gross) = ScaleToGross(f, gross)
  BY DEF DollarNeutral
<1> HIDE DEF f
<1>5. IsBook(f) /\ Len(f) = Len(scores)
  BY <1>1, <1>2, <1>3, RowsAreABook
<1>. QED
  BY <1>4, <1>5, ScaledIsABook

LEMMA RanksAreABook ==
  ASSUME NEW scores, Len(scores) \in Nat
  PROVE  IsBook(CrossSectionalRank(scores)) /\ Len(CrossSectionalRank(scores)) = Len(scores)
<1> DEFINE rows == Table(scores)
           f == [t \in 1 .. Len(rows) |->
                   IF Width < 2 \/ rows[t] = NoRow THEN Flat
                   ELSE [s \in Symbols |-> 2 * RankIn(rows[t], s) - (Width - 1)]]
<1>1. Len(rows) = Len(scores)
  BY TableOfRows
<1>2. CrossSectionalRank(scores) = Table(f)
  BY DEF CrossSectionalRank
<1> HIDE DEF rows
<1>3. ASSUME NEW row, NEW s \in Symbols
      PROVE  RankIn(row, s) \in Nat
  <2> DEFINE lower == {u \in Symbols : row[u] < row[s] \/ (row[u] = row[s] /\ u < s)}
  <2>1. IsFiniteSet(Symbols)
    BY StrategiesAssumption, FS_Interval DEF Symbols
  <2>2. lower \subseteq Symbols
    OBVIOUS
  <2>3. RankIn(row, s) = Cardinality(lower)
    BY DEF RankIn
  <2> HIDE DEF lower
  <2>. QED
    BY <2>1, <2>2, <2>3, FS_Subset, FS_CardinalityType
<1>4. Width \in Nat
  BY StrategiesAssumption
<1>5. \A t \in 1 .. Len(rows) : f[t] \in [Symbols -> Int]
  <2>1. ASSUME NEW t \in 1 .. Len(rows)
        PROVE  f[t] \in [Symbols -> Int]
    <3>1. \A s \in Symbols : 2 * RankIn(rows[t], s) - (Width - 1) \in Int
      BY <1>3, <1>4
    <3>2. f[t] = Flat \/ f[t] = [s \in Symbols |-> 2 * RankIn(rows[t], s) - (Width - 1)]
      OBVIOUS
    <3>3. Flat \in [Symbols -> Int]
      BY DEF Flat
    <3> HIDE DEF f
    <3>. QED
      BY <3>1, <3>2, <3>3
  <2>. QED
    BY <2>1
<1>6. f = [t \in 1 .. Len(rows) |-> f[t]]
  OBVIOUS
<1> HIDE DEF f
<1>7. IsBook(f) /\ Len(f) = Len(rows)
  BY <1>1, <1>5, <1>6, RowsAreABook
<1>. QED
  BY <1>1, <1>2, <1>7, TableOfBook

(* What the rows of a strategy are, whatever the panel holds.              *)
LEMMA RankedIsABook ==
  ASSUME NEW scores, Len(scores) \in Nat, NEW gross \in Int
  PROVE  /\ IsBook(DollarNeutral(CrossSectionalRank(scores), gross))
         /\ Len(DollarNeutral(CrossSectionalRank(scores), gross)) = Len(scores)
<1> DEFINE ranks == CrossSectionalRank(scores)
<1>1. IsBook(ranks) /\ Len(ranks) = Len(scores)
  BY RanksAreABook
<1> HIDE DEF ranks
<1>2. IsBook(DollarNeutral(ranks, gross)) /\ Len(DollarNeutral(ranks, gross)) = Len(scores)
  BY <1>1, NeutralIsABook
<1>. QED
  BY <1>2 DEF ranks

LEMMA TsMomentumIsABook ==
  ASSUME NEW c, Len(c) \in Nat, NEW p, p.gross \in Int
  PROVE  IsBook(TsMomentum(c, p)) /\ Len(TsMomentum(c, p)) = Len(c)
<1> DEFINE past == TrailingReturn(c, p.lookback)
           f == [t \in 1 .. Len(c) |-> IF past[t] = NoRow THEN Flat
                                       ELSE [s \in Symbols |-> Direction(past[t][s])]]
<1>1. f = [t \in 1 .. Len(c) |-> f[t]]
  OBVIOUS
<1>2. ASSUME NEW t \in 1 .. Len(c)
      PROVE  f[t] \in [Symbols -> Int]
  <2>1. Flat \in [Symbols -> Int]
    BY DEF Flat
  <2>2. [s \in Symbols |-> Direction(past[t][s])] \in [Symbols -> Int]
    BY DEF Direction
  <2>3. f[t] = Flat \/ f[t] = [s \in Symbols |-> Direction(past[t][s])]
    OBVIOUS
  <2> HIDE DEF f, past
  <2>. QED
    BY <2>1, <2>2, <2>3
<1>3. TsMomentum(c, p) = ScaleToGross(f, p.gross)
  BY DEF TsMomentum
<1> HIDE DEF f
<1>4. IsBook(f) /\ Len(f) = Len(c)
  BY <1>1, <1>2, RowsAreABook
<1>. QED
  BY <1>3, <1>4, ScaledIsABook

LEMMA XsMomentumIsABook ==
  ASSUME NEW c, Len(c) \in Nat, NEW p, p.gross \in Int
  PROVE  IsBook(XsMomentum(c, p)) /\ Len(XsMomentum(c, p)) = Len(c)
<1> DEFINE f == Scores(c, p.lookback, p.skip)
<1>1. XsMomentum(c, p) = DollarNeutral(CrossSectionalRank(f), p.gross)
  BY DEF XsMomentum, Scores
<1>2. f = [t \in 1 .. Len(c) |-> f[t]]
  BY DEF Scores
<1> HIDE DEF f
<1>3. Len(f) = Len(c)
  BY <1>2, RowsAreASheet
<1>. QED
  BY <1>1, <1>3, RankedIsABook

LEMMA NegatedLength ==
  ASSUME NEW m, NEW n \in Nat, m = [t \in 1 .. n |-> m[t]]
  PROVE  Len(Negated(m)) = n
<1> DEFINE f == Negated(m)
<1>1. DOMAIN m = 1 .. n
  OBVIOUS
<1>2. f = [t \in 1 .. n |-> f[t]]
  BY <1>1 DEF Negated
<1> HIDE DEF f
<1>3. Len(f) = n
  BY <1>2, RowsAreASheet
<1>. QED
  BY <1>3 DEF f

LEMMA ReversalIsABook ==
  ASSUME NEW c, Len(c) \in Nat, NEW p, p.gross \in Int
  PROVE  IsBook(ShortTermReversal(c, p)) /\ Len(ShortTermReversal(c, p)) = Len(c)
<1> DEFINE a == TrailingReturn(c, p.lookback)
           b == Negated(a)
<1>1. a = [t \in 1 .. Len(c) |-> a[t]]
  BY DEF TrailingReturn
<1>2. ShortTermReversal(c, p) = DollarNeutral(CrossSectionalRank(b), p.gross)
  BY DEF ShortTermReversal
<1> HIDE DEF a
<1>3. Len(b) = Len(c)
  BY <1>1, NegatedLength
<1> HIDE DEF b
<1>. QED
  BY <1>2, <1>3, RankedIsABook

LEMMA BetaIsABook ==
  ASSUME NEW c, Len(c) \in Nat, NEW p, p.gross \in Int
  PROVE  IsBook(BettingAgainstBeta(c, p)) /\ Len(BettingAgainstBeta(c, p)) = Len(c)
<1> DEFINE a == RollingBeta(c, p.lookback)
           b == Negated(a)
           r == Table(BarReturns(c))
<1>0. a = [t \in 1 .. Len(c) |-> BetaRow(r, MarketOf(c), p.lookback, t)]
  BY DEF RollingBeta, BetaRow, MarketOf
<1>2. BettingAgainstBeta(c, p) = DollarNeutral(CrossSectionalRank(b), p.gross)
  BY DEF BettingAgainstBeta
<1> HIDE DEF a
<1>1. a = [t \in 1 .. Len(c) |-> a[t]]
  BY <1>0
<1>3. Len(b) = Len(c)
  BY <1>1, NegatedLength
<1> HIDE DEF b
<1>. QED
  BY <1>2, <1>3, RankedIsABook

LEMMA BreakoutIsABook ==
  ASSUME NEW c, Len(c) \in Nat, NEW p, p.gross \in Int
  PROVE  IsBook(TrendBreakout(c, p)) /\ Len(TrendBreakout(c, p)) = Len(c)
<1> DEFINE f == [t \in 1 .. Len(c) |-> BreakoutRow(c, p.lookback, t)]
<1>1. f = [t \in 1 .. Len(c) |-> f[t]]
  OBVIOUS
<1>2. ASSUME NEW t \in 1 .. Len(c)
      PROVE  f[t] \in [Symbols -> Int]
  <2>1. Flat \in [Symbols -> Int]
    BY DEF Flat
  <2>2. [s \in Symbols |-> StateOf(c, p.lookback, t, s)] \in [Symbols -> Int]
    <3>1. \A s \in Symbols : StateOf(c, p.lookback, t, s) \in Int
      BY DEF StateOf
    <3>. QED
      BY <3>1
  <2>3. BreakoutRow(c, p.lookback, t) \in [Symbols -> Int]
    BY <2>1, <2>2, Zenon DEF BreakoutRow
  <2>. QED
    BY <2>3
<1>3. TrendBreakout(c, p) = ScaleToGross(f, p.gross)
  BY DEF TrendBreakout, BreakoutRow, StateOf, BreakoutsOf, LowAt, HighAt
<1> HIDE DEF f
<1>4. IsBook(f) /\ Len(f) = Len(c)
  BY <1>1, <1>2, RowsAreABook
<1>. QED
  BY <1>3, <1>4, ScaledIsABook

(* Books side by side, of as many rows each.                               *)
AreBooks(a, k, n) ==
    /\ k \in Nat \ {0} /\ n \in Nat /\ DOMAIN a = 1 .. k
    /\ \A q \in 1 .. k : IsBook(a[q]) /\ Len(a[q]) = n

LEMMA BlendIsABook ==
  ASSUME NEW a, NEW n, NEW k, AreBooks(a, k, n), NEW gross \in Int
  PROVE  IsBook(Blend(a, gross)) /\ Len(Blend(a, gross)) = n
<1> DEFINE Mixed(t) == [s \in Symbols |-> Sum([q \in 1 .. k |-> a[q][t][s]])]
           f == [t \in 1 .. n |-> Mixed(t)]
<1>0. /\ k \in Nat /\ 1 \in 1 .. k /\ n \in Nat /\ DOMAIN a = 1 .. k
      /\ \A q \in 1 .. k : IsBook(a[q]) /\ Len(a[q]) = n
  BY DEF AreBooks
<1>1. DOMAIN a[1] = 1 .. n
  BY <1>0 DEF IsBook, IsSheet
<1>2. Blend(a, gross) = ScaleToGross(f, gross)
  BY <1>0, <1>1 DEF Blend
<1>3. ASSUME NEW t \in 1 .. n
      PROVE  Mixed(t) \in [Symbols -> Int]
  <2>1. ASSUME NEW s \in Symbols
        PROVE  Sum([q \in 1 .. k |-> a[q][t][s]]) \in Int
    <3> DEFINE g == [q \in 1 .. k |-> a[q][t][s]]
    <3>1. \A q \in 1 .. k : a[q][t] \in [Symbols -> Int]
      BY <1>0 DEF IsBook
    <3>2. \A q \in 1 .. k : g[q] \in Int
      BY <3>1
    <3>3. g = [q \in 1 .. k |-> g[q]]
      OBVIOUS
    <3> HIDE DEF g
    <3>4. Len(g) = k
      BY <1>0, <3>3, RowsAreASheet
    <3>5. Sum(g) \in Int
      BY <1>0, <3>2, <3>4, SumIsOfKind
    <3>. QED
      BY <3>5 DEF g
  <2>. QED
    BY <2>1
<1>4. f = [t \in 1 .. n |-> f[t]]
  OBVIOUS
<1>5. \A t \in 1 .. n : f[t] \in [Symbols -> Int]
  <2> HIDE DEF Mixed
  <2>. QED
    BY <1>3
<1> HIDE DEF f
<1>6. IsBook(f) /\ Len(f) = n
  BY <1>0, <1>4, <1>5, RowsAreABook
<1>. QED
  BY <1>2, <1>6, ScaledIsABook

LEMMA MultiIsABook ==
  ASSUME NEW c, Len(c) \in Nat, NEW p, p.gross \in Int
  PROVE  IsBook(MultiSignal(c, p)) /\ Len(MultiSignal(c, p)) = Len(c)
<1> DEFINE pt == [lookback |-> p.trend_lookback, gross |-> Unit]
           px == [lookback |-> p.xs_lookback, skip |-> p.xs_skip, gross |-> Unit]
           pr == [lookback |-> p.reversal_lookback, gross |-> Unit]
           pb == [lookback |-> p.beta_lookback, gross |-> Unit]
           a == <<TsMomentum(c, pt), XsMomentum(c, px), ShortTermReversal(c, pr),
                  BettingAgainstBeta(c, pb)>>
<1>1. /\ pt.gross \in Int /\ px.gross \in Int /\ pr.gross \in Int /\ pb.gross \in Int
  BY StrategiesAssumption
<1>2. MultiSignal(c, p) = Blend(a, p.gross)
  BY DEF MultiSignal
<1>3. /\ DOMAIN a = 1 .. 4 /\ a[1] = TsMomentum(c, pt) /\ a[2] = XsMomentum(c, px)
      /\ a[3] = ShortTermReversal(c, pr) /\ a[4] = BettingAgainstBeta(c, pb)
  OBVIOUS
<1> HIDE DEF a, pt, px, pr, pb
<1>4. IsBook(a[1]) /\ Len(a[1]) = Len(c)
  BY <1>1, <1>3, TsMomentumIsABook
<1>5. IsBook(a[2]) /\ Len(a[2]) = Len(c)
  BY <1>1, <1>3, XsMomentumIsABook
<1>6. IsBook(a[3]) /\ Len(a[3]) = Len(c)
  BY <1>1, <1>3, ReversalIsABook
<1>7. IsBook(a[4]) /\ Len(a[4]) = Len(c)
  BY <1>1, <1>3, BetaIsABook
<1>8. \A q \in 1 .. 4 : q = 1 \/ q = 2 \/ q = 3 \/ q = 4
  OBVIOUS
<1>9. \A q \in 1 .. 4 : IsBook(a[q]) /\ Len(a[q]) = Len(c)
  BY <1>4, <1>5, <1>6, <1>7, <1>8
<1>10. AreBooks(a, 4, Len(c))
  BY <1>3, <1>9 DEF AreBooks
<1>11. \A gross \in Int : IsBook(Blend(a, gross)) /\ Len(Blend(a, gross)) = Len(c)
  BY <1>10, BlendIsABook
<1> DEFINE gross == p.gross
<1>12. gross \in Int
  OBVIOUS
<1> HIDE DEF gross
<1>13. IsBook(Blend(a, gross)) /\ Len(Blend(a, gross)) = Len(c)
  BY <1>11, <1>12
<1>. QED
  BY <1>2, <1>13 DEF gross

LEMMA RegisteredIsABook ==
  ASSUME NEW c, Len(c) \in Nat, NEW p, p.gross \in Int, NEW name \in Registry
  PROVE  IsBook(Registered(name, c, p)) /\ Len(Registered(name, c, p)) = Len(c)
<1>1. CASE name = "ts_momentum"
  BY <1>1, TsMomentumIsABook DEF Registered
<1>2. CASE name = "xs_momentum"
  BY <1>2, XsMomentumIsABook DEF Registered
<1>3. CASE name = "short_term_reversal"
  BY <1>3, ReversalIsABook DEF Registered
<1>4. CASE name = "betting_against_beta"
  BY <1>4, BetaIsABook DEF Registered
<1>5. CASE name = "trend_breakout"
  BY <1>5, BreakoutIsABook DEF Registered
<1>6. CASE name = "multi_signal"
  BY <1>6, MultiIsABook DEF Registered
<1>. QED
  BY <1>1, <1>2, <1>3, <1>4, <1>5, <1>6 DEF Registry

-----------------------------------------------------------------------------
(* The verdict                                                             *)

(* A finite set of numbers has a greatest one.                             *)
LEMMA FiniteMax ==
  ASSUME NEW S, IsFiniteSet(S), S \subseteq Int, S # {}
  PROVE  Max(S) \in S /\ \A x \in S : x <= Max(S)
<1>1. PICK n \in Nat : ExistsSurjection(1 .. n, S)
  BY FS_NatSurjection
<1>2. PICK f \in [1 .. n -> S] : \A x \in S : \E i \in 1 .. n : f[i] = x
  BY <1>1 DEF ExistsSurjection, Surjection
<1> DEFINE Good == {k \in 0 .. n : k = 0 \/ \E m \in 1 .. k : \A j \in 1 .. k : f[j] <= f[m]}
<1>3. 0 \in Good
  OBVIOUS
<1>4. ASSUME NEW i \in 1 .. n, i - 1 \in Good
      PROVE  i \in Good
  <2>0. \A j \in 1 .. n : f[j] \in Int
    OBVIOUS
  <2>1. CASE i = 1
    <3>1. \A j \in 1 .. i : f[j] <= f[1]
      BY <2>0, <2>1
    <3>. QED
      BY <2>1, <3>1
  <2>2. CASE i # 1
    <3>1. PICK m \in 1 .. i - 1 : \A j \in 1 .. i - 1 : f[j] <= f[m]
      BY <1>4, <2>2
    <3>2. m \in 1 .. i /\ i \in 1 .. i /\ m \in 1 .. n
      OBVIOUS
    <3>3. \A j \in 1 .. i : j \in 1 .. i - 1 \/ j = i
      OBVIOUS
    <3>4. CASE f[m] >= f[i]
      <4>1. \A j \in 1 .. i : f[j] <= f[m]
        BY <2>0, <3>1, <3>3, <3>4
      <4>. QED
        BY <3>2, <4>1
    <3>5. CASE ~(f[m] >= f[i])
      <4>1. \A j \in 1 .. i : f[j] <= f[i]
        BY <2>0, <3>1, <3>2, <3>3, <3>5
      <4>. QED
        BY <3>2, <4>1
    <3>. QED
      BY <3>4, <3>5
  <2>. QED
    BY <2>1, <2>2
<1>5. n \in Good
  <2> HIDE DEF Good
  <2>1. \A i \in 0 .. n : i \in Good
    BY <1>3, <1>4, CountingUp
  <2>. QED
    BY <2>1
<1>6. n # 0
  <2>1. PICK i \in 1 .. n : TRUE
    BY <1>2
  <2>. QED
    BY <2>1
<1>7. \E z \in S : \A y \in S : z >= y
  <2>1. PICK m \in 1 .. n : \A j \in 1 .. n : f[j] <= f[m]
    BY <1>5, <1>6
  <2>2. \A y \in S : f[m] >= y
    <3>1. ASSUME NEW y \in S
          PROVE  f[m] >= y
      <4>1. PICK j \in 1 .. n : f[j] = y
        BY <1>2
      <4>2. f[m] \in Int /\ f[j] \in Int
        OBVIOUS
      <4>. QED
        BY <2>1, <4>1, <4>2
    <3>. QED
      BY <3>1
  <2>. QED
    BY <2>2
<1>8. Max(S) \in S /\ \A y \in S : Max(S) >= y
  BY <1>7 DEF Max
<1>. QED
  BY <1>8

(* And a least one.                                                        *)
LEMMA FiniteMin ==
  ASSUME NEW S, IsFiniteSet(S), S \subseteq Int, S # {}
  PROVE  Min(S) \in S /\ \A x \in S : Min(S) <= x
<1> DEFINE T == {-x : x \in S}
           f == [x \in S |-> -x]
<1>1. f \in Surjection(S, T)
  BY DEF Surjection
<1>2. T \subseteq Int /\ T # {}
  <2> HIDE DEF f
  <2>1. PICK x : x \in S
    OBVIOUS
  <2>2. -x \in T
    BY <2>1
  <2>3. \A y \in S : -y \in Int
    OBVIOUS
  <2>. QED
    BY <2>2, <2>3
<1>3. IsFiniteSet(T)
  <2> HIDE DEF f, T
  <2>. QED
    BY <1>1, FS_Surjection
<1>4. \E z \in T : \A y \in T : y <= z
  <2> HIDE DEF T
  <2>. QED
    BY <1>2, <1>3, FiniteMax
<1>5. \E z \in S : \A y \in S : z <= y
  <2>1. PICK x \in S : \A y \in T : y <= -x
    BY <1>4
  <2>2. \A y \in S : -y <= -x /\ x \in Int /\ y \in Int
    BY <2>1
  <2>. QED
    BY <2>2
<1>. QED
  BY <1>5 DEF Min

(* How many of the trades took no more than v.                             *)
Within(bars, v) == {c \in TradesOf(bars) : ShareOf(bars, c) <= v}

Numbered(bars) ==
    /\ IsFiniteSet(TradesOf(bars))
    /\ \A c \in TradesOf(bars) : ShareOf(bars, c) \in Int

(* The k-th smallest share is a number that k of the trades do not exceed, *)
(* and a later one is no smaller.                                          *)
LEMMA RanksAscend ==
  ASSUME NEW bars, Numbered(bars), NEW k \in 1 .. Cardinality(TradesOf(bars)),
         NEW j \in k .. Cardinality(TradesOf(bars))
  PROVE  /\ ShareAtRank(bars, k) \in Int
         /\ Cardinality(Within(bars, ShareAtRank(bars, k))) >= k
         /\ ShareAtRank(bars, k) <= ShareAtRank(bars, j)
<1> DEFINE n == Cardinality(TradesOf(bars))
           shares == {ShareOf(bars, c) : c \in TradesOf(bars)}
           Covering(i) == {v \in shares : Cardinality(Within(bars, v)) >= i}
           f == [c \in TradesOf(bars) |-> ShareOf(bars, c)]
<1>1. n \in Nat
  BY FS_CardinalityType DEF Numbered
<1>2. f \in Surjection(TradesOf(bars), shares)
  BY DEF Surjection
<1>3. shares \subseteq Int
  BY DEF Numbered
<1>4. \A i : ShareAtRank(bars, i) = Min(Covering(i))
  BY DEF ShareAtRank, Within
<1>5. TradesOf(bars) # {}
  BY FS_EmptySet
<1>6. shares # {}
  BY <1>5
<1>7. \A v : Within(bars, v) \subseteq TradesOf(bars)
  BY DEF Within
<1>8. \A c \in TradesOf(bars) : ShareOf(bars, c) \in shares
  OBVIOUS
<1>9. \A i : Covering(i) \subseteq shares
  OBVIOUS
<1>10. \A v \in shares : v \in Covering(Cardinality(Within(bars, v)))
  BY <1>3, <1>7, FS_Subset, FS_CardinalityType DEF Numbered
<1>11. \A v \in shares : \A i : v \in Covering(i) <=> Cardinality(Within(bars, v)) >= i
  OBVIOUS
<1> HIDE DEF f, shares, Covering
<1>12. IsFiniteSet(shares)
  BY <1>2, FS_Surjection DEF Numbered
<1>13. Max(shares) \in shares /\ \A v \in shares : v <= Max(shares)
  BY <1>3, <1>6, <1>12, FiniteMax
<1>14. Within(bars, Max(shares)) = TradesOf(bars)
  BY <1>8, <1>13 DEF Within
<1>15. ASSUME NEW i \in 1 .. n
       PROVE  /\ ShareAtRank(bars, i) \in Covering(i)
              /\ \A v \in Covering(i) : ShareAtRank(bars, i) <= v
  <2>1. n >= i
    BY <1>1
  <2>2. Max(shares) \in Covering(i)
    BY <1>11, <1>13, <1>14, <2>1
  <2>3. IsFiniteSet(Covering(i)) /\ Covering(i) \subseteq Int
    BY <1>3, <1>9, <1>12, FS_Subset
  <2>. QED
    BY <1>4, <2>2, <2>3, FiniteMin
<1>16. k \in 1 .. n /\ j \in 1 .. n /\ k <= j
  BY <1>1
<1>17. ShareAtRank(bars, k) \in shares /\ ShareAtRank(bars, j) \in shares
  BY <1>9, <1>15, <1>16
<1>18. Cardinality(Within(bars, ShareAtRank(bars, j))) >= j
  BY <1>11, <1>15, <1>16, <1>17
<1>19. Cardinality(Within(bars, ShareAtRank(bars, j))) \in Nat
  BY <1>7, FS_Subset, FS_CardinalityType DEF Numbered
<1>20. ShareAtRank(bars, j) \in Covering(k)
  BY <1>11, <1>16, <1>17, <1>18, <1>19
<1>. QED
  BY <1>3, <1>11, <1>15, <1>16, <1>17, <1>20

(* A percentile inside the cap leaves no more of the trades over it than   *)
(* lie above its lower rank.                                               *)
LEMMA FewAreOver ==
  ASSUME NEW bars, Numbered(bars), NEW cap \in Nat,
         AdvParticipation(bars) <= 100 * cap
  PROVE  100 * Cardinality({c \in TradesOf(bars) : ShareOf(bars, c) > cap})
           < 100 * Cardinality(TradesOf(bars))
             - Percentile * (Cardinality(TradesOf(bars)) - 1)
<1> DEFINE n == Cardinality(TradesOf(bars))
           over == {c \in TradesOf(bars) : ShareOf(bars, c) > cap}
<1>1. n \in Nat /\ Percentile \in 1 .. 100
  BY FS_CardinalityType, BacktestAssumption DEF Numbered
<1>2. over = TradesOf(bars) \ Within(bars, cap)
  BY DEF Within, Numbered
<1>3. Within(bars, cap) \subseteq TradesOf(bars)
  BY DEF Within
<1>4. /\ Cardinality(over) = n - Cardinality(Within(bars, cap))
      /\ Cardinality(Within(bars, cap)) \in Nat /\ Cardinality(over) \in Nat
  <2>1. TradesOf(bars) \cap Within(bars, cap) = Within(bars, cap)
    BY <1>3
  <2>2. IsFiniteSet(over) /\ IsFiniteSet(Within(bars, cap))
    BY <1>2, <1>3, FS_Subset DEF Numbered
  <2> HIDE DEF over
  <2>. QED
    BY <1>2, <2>1, <2>2, FS_Difference, FS_CardinalityType DEF Numbered
<1> HIDE DEF over
<1>5. CASE TradesOf(bars) = {}
  <2>1. n = 0
    BY <1>5, FS_EmptySet
  <2>2. Cardinality(over) = 0
    BY <1>4, <2>1
  <2>3. Percentile * (n - 1) = -Percentile
    BY <1>1, <2>1
  <2>. QED
    BY <1>1, <2>1, <2>2, <2>3 DEF over
<1>6. CASE TradesOf(bars) # {}
  <2> DEFINE at == Percentile * (n - 1)
             low == at \div 100 + 1
             rest == at % 100
             high == Min({low + 1, n})
             below == ShareAtRank(bars, low)
             above == ShareAtRank(bars, high)
  <2>1. n \in Nat \ {0}
    BY <1>1, <1>6, FS_EmptySet DEF Numbered
  <2>2. at \in Nat /\ at <= 100 * (n - 1)
    <3> DEFINE m == n - 1
    <3>1. m \in Nat
      BY <2>1
    <3> HIDE DEF m
    <3>2. Percentile * m \in Nat /\ (100 - Percentile) * m \in Nat
      BY <1>1, <3>1
    <3>3. Percentile * m = 100 * m - (100 - Percentile) * m
      BY <1>1, <3>1
    <3>4. Percentile * m <= 100 * m
      BY <3>1, <3>2, <3>3
    <3>. QED
      BY <3>2, <3>4 DEF m
  <2>3. AdvParticipation(bars) = (100 - rest) * below + rest * above
    BY <1>6 DEF AdvParticipation, ShareAt
  <2> HIDE DEF at
  <2>4. low \in 1 .. n /\ rest \in 0 .. 99 /\ 100 * low > at
    BY <2>1, <2>2
  <2>5. high \in low .. n
    <3>1. high = IF low + 1 <= n THEN low + 1 ELSE n
      BY <2>1, <2>4, Lesser
    <3>. QED
      BY <2>1, <2>4, <3>1
  <2> HIDE DEF low, rest, high
  <2>6. below \in Int /\ above \in Int /\ below <= above /\ Cardinality(Within(bars, below)) >= low
    <3>1. high \in 1 .. n /\ high \in high .. n
      BY <2>1, <2>4, <2>5
    <3>. QED
      BY <2>4, <2>5, <3>1, RanksAscend
  <2> HIDE DEF below, above
  <2>7. below <= cap
    <3>1. rest * (above - below) \in Nat
      BY <2>4, <2>6
    <3>2. (100 - rest) * below + rest * above = 100 * below + rest * (above - below)
      BY <2>4, <2>6
    <3>3. 100 * below <= 100 * cap
      BY <2>3, <2>6, <3>1, <3>2
    <3>. QED
      BY <2>6, <3>3
  <2>8. Cardinality(Within(bars, cap)) >= low
    <3>1. Within(bars, below) \subseteq Within(bars, cap)
      BY <2>6, <2>7 DEF Within, Numbered
    <3>2. IsFiniteSet(Within(bars, cap))
      BY <1>3, FS_Subset DEF Numbered
    <3>3. /\ Cardinality(Within(bars, below)) <= Cardinality(Within(bars, cap))
          /\ Cardinality(Within(bars, below)) \in Nat
      BY <3>1, <3>2, FS_Subset, FS_CardinalityType
    <3>. QED
      BY <1>4, <2>4, <2>6, <3>3
  <2>9. 100 * Cardinality(over) < 100 * n - at
    BY <1>1, <1>4, <2>2, <2>4, <2>8
  <2>. QED
    BY <2>9 DEF at, over
<1>. QED
  BY <1>5, <1>6

(* The shares of volume a registered strategy takes are numbers.           *)
LEMMA SharesAreNumbers ==
  ASSUME NEW n \in Nat, NEW w, IsBook(w), Len(w) = n + 1,
         NEW panel, \A t \in 1 .. n : panel[t] \in Rows,
         NEW t \in 1 .. n, NEW s \in Symbols
  PROVE  Paid(panel, w)[t].shares[s] \in Int
<1>1. Paid(panel, w)[t] = BarOf(panel, w, t)
  BY DEF Paid
<1> DEFINE row == w[t]
           previous == Preceding(w, t)
<1>2. row \in [Symbols -> Int]
  BY DEF IsBook
<1>3. previous \in [Symbols -> Int]
  <2>1. CASE t = 1
    BY <2>1 DEF Preceding, Flat
  <2>2. CASE t # 1
    <3>1. t - 1 \in 1 .. Len(w)
      BY <2>2
    <3>. QED
      BY <2>2, <3>1 DEF IsBook, Preceding
  <2>. QED
    BY <2>1, <2>2
<1> DEFINE traded == Traded(row, previous)[s]
           volume == panel[t][s]
<1>4. Paid(panel, w)[t].shares[s] = (traded * Scale) \div volume
  BY <1>1 DEF BarOf, Bar, Shares
<1>5. traded \in Int
  <2>1. row[s] - previous[s] \in Int
    BY <1>2, <1>3
  <2>2. traded = Magnitude(row[s] - previous[s])
    BY DEF Traded
  <2> HIDE DEF row, previous, traded
  <2>. QED
    BY <2>1, <2>2 DEF Magnitude
<1>6. volume \in Nat \ {0}
  BY BacktestAssumption DEF Rows
<1>7. traded * Scale \in Int
  BY <1>5, StrategiesAssumption
<1> HIDE DEF traded, volume
<1>. QED
  BY <1>4, <1>6, <1>7

LEMMA LiveApproval == Live => ApprovedEarned
<1> SUFFICES ASSUME Live, Approved, plan.strategy \in Registry
             PROVE  /\ plan.volume
                    /\ Sum(Net(book, 2 * Cost)) > 0
                    /\ 100 * Cardinality(OverTheCap)
                         < 100 * Cardinality(TradesOf(book))
                           - Percentile * (Cardinality(TradesOf(book)) - 1)
  BY DEF ApprovedEarned
<1>1. verdict = {} /\ None # {} /\ Judged
  BY BacktestAssumption, Zenon DEF Approved, Live
<1>2. Submitted /\ \E lucky : FailedGates(submission, lucky) = {}
  BY <1>1, Zenon DEF Judged
<1>3. PICK lucky : FailedGates(submission, lucky) = {}
  BY <1>2
<1>4. G5Robustness(submission, "G5_robustness" \in lucky)
  BY <1>3 DEF FailedGates
<1>5. G6Capacity(submission)
  BY <1>3 DEF FailedGates
<1>6. submission.bars = book
  BY <1>2, LiveBacktest DEF BacktestIsLive
<1>7. /\ submission.doubled = Net(book, 2 * Cost) /\ submission.measured = plan.volume
      /\ submission.participation = IF plan.volume THEN AdvParticipation(book) ELSE 0
  BY <1>2, <1>6 DEF Live, Booked
<1>8. plan.volume /\ AdvParticipation(book) <= 100 * AdvMax
  BY <1>5, <1>7 DEF G6Capacity
<1>9. Sum(Net(book, 2 * Cost)) > 0
  BY <1>4, <1>7 DEF G5Robustness
<1>10. Numbered(book)
  <2> DEFINE w == Weights(close, Chosen)
             n == Len(close) - 1
  <2>1. /\ n \in Nat /\ Len(w) = n + 1 /\ book = Paid(close, w)
        /\ IsSheet(w) /\ Len(close) \in Nat
    <3>1. /\ Len(close) \in Nat /\ Len(close) >= 3
          /\ IsSheet(w) /\ Len(w) = Len(close) /\ submission.bars = Paid(close, w)
      BY <1>2, BarsOfRows
    <3> HIDE DEF w
    <3>. QED
      BY <1>6, <3>1
  <2>2. IsBook(w)
    <3> DEFINE p == Chosen
    <3>1. p.gross \in Int
      BY PlansAssumption DEF Live, Chosen
    <3>2. w = Registered(plan.strategy, close, p)
      BY DEF Weights, Signal
    <3> HIDE DEF p
    <3>. QED
      BY <2>1, <3>1, <3>2, RegisteredIsABook
  <2>3. \A i \in 1 .. n : close[i] \in Rows
    <3>1. close \in Seq(Rows)
      BY DEF Live
    <3>. QED
      BY <3>1
  <2> HIDE DEF w, n
  <2>4. DOMAIN book = 1 .. n
    <3>1. n = Len(w) - 1
      BY <2>1
    <3>. QED
      BY <2>1, <3>1 DEF Paid
  <2>5. \A i \in 1 .. n : \A u \in Symbols : book[i].shares[u] \in Int
    BY <2>1, <2>2, <2>3, SharesAreNumbers
  <2>6. TradesOf(book) \subseteq (1 .. n) \X Symbols
    BY <2>4 DEF TradesOf
  <2>7. IsFiniteSet(TradesOf(book))
    <3>1. n \in Int /\ 1 \in Int /\ IsFiniteSet(Symbols)
      BY <2>1, FS_Interval, StrategiesAssumption DEF Symbols
    <3>2. IsFiniteSet(1 .. n)
      BY <3>1, FS_Interval
    <3>3. IsFiniteSet((1 .. n) \X Symbols)
      BY <3>1, <3>2, FS_Product
    <3>. QED
      BY <2>6, <3>3, FS_Subset
  <2>8. \A c \in (1 .. n) \X Symbols : ShareOf(book, c) \in Int
    BY <2>5 DEF ShareOf
  <2>. QED
    BY <2>6, <2>7, <2>8 DEF Numbered
<1>11. AdvMax \in Nat
  BY BacktestAssumption
<1>12. 100 * Cardinality(OverTheCap)
         < 100 * Cardinality(TradesOf(book))
           - Percentile * (Cardinality(TradesOf(book)) - 1)
  BY <1>8, <1>10, <1>11, FewAreOver DEF OverTheCap
<1>. QED
  BY <1>8, <1>9, <1>10, <1>11, FewAreOver DEF OverTheCap

(* A registered strategy that passes the gates would have earned on the    *)
(* desk at twice the cost, and no more of its trades were over the cap on  *)
(* their day's volume than the percentile leaves above it, for every       *)
(* panel, grid, cost, percentile and cap (engine.py:162-164, 234-259;      *)
(* gates.py:180-223, 496-542).                                             *)
THEOREM ApprovalsEarned == Spec => []ApprovedEarned
<1>1. Init => Live
  BY DeskStartsLive
<1>2. Live /\ [Next]_vars => Live'
  BY DeskStaysLive
<1>3. Live => ApprovedEarned
  BY LiveApproval
<1>. QED
  BY <1>1, <1>2, <1>3, PTL DEF Spec

-----------------------------------------------------------------------------
(* The scan                                                                *)

LEMMA ProbesOnThePanel ==
  ASSUME NEW n \in Nat, n >= 3, NEW probes \in ProbeSets(n)
  PROVE  FirstProbe(n) \in Nat /\ FirstProbe(n) >= 3 /\ probes \subseteq FirstProbe(n) .. n
<1> DEFINE q == n \div 10
<1>1. q \in Nat /\ q <= n - 2
  OBVIOUS
<1> HIDE DEF q
<1>2. Max({2, q}) = IF q <= 2 THEN 2 ELSE q
  <2>1. \E x \in {2, q} : \A y \in {2, q} : x >= y
    BY <1>1
  <2>. QED
    BY <1>1, <2>1 DEF Max
<1>3. FirstProbe(n) = 1 + Max({2, q})
  BY DEF FirstProbe, q
<1> DEFINE first == FirstProbe(n)
<1>4. first \in Nat /\ first >= 3 /\ first <= n
  BY <1>1, <1>2, <1>3
<1>5. probes = first .. n \/ probes = {first}
  BY DEF ProbeSets
<1> HIDE DEF first
<1>6. probes \subseteq first .. n
  BY <1>4, <1>5
<1>. QED
  BY <1>4, <1>6 DEF first

(* The bars, and behind them the row that is not paid yet.                 *)
ThenDecision(panel, m, n) ==
    /\ Append(Paid(panel, m), m[n])[n] = m[n]
    /\ \A i \in 1 .. n - 1 : Append(Paid(panel, m), m[n])[i] = BarOf(panel, m, i)

LEMMA BarsThenDecision ==
  ASSUME NEW n \in Nat, n >= 1, NEW panel, NEW m, Len(m) = n
  PROVE  ThenDecision(panel, m, n)
<1> DEFINE f == Paid(panel, m)
           S == {BarOf(panel, m, i) : i \in 1 .. n - 1} \cup {m[n]}
<1>1. f = [i \in 1 .. n - 1 |-> BarOf(panel, m, i)]
  BY DEF Paid
<1> HIDE DEF f
<1>2. \A i \in 1 .. n - 1 : f[i] \in S
  BY <1>1
<1>3. m[n] \in S
  OBVIOUS
<1> HIDE DEF S
<1>4. IsRun(f, n - 1) /\ n - 1 \in Nat
  BY <1>1 DEF IsRun
<1>5. f \in Seq(S) /\ Len(f) = n - 1
  BY <1>2, <1>4, RunIsASequence
<1>6. /\ \A i \in 1 .. n - 1 : Append(f, m[n])[i] = f[i]
      /\ Append(f, m[n])[n - 1 + 1] = m[n]
  BY <1>3, <1>5, AppendProperties
<1>7. n - 1 + 1 = n
  OBVIOUS
<1>. QED
  BY <1>1, <1>6, <1>7 DEF f, ThenDecision

LEMMA LiveScan == Live => ScanIsHonest
<1> SUFFICES ASSUME Live, Submitted
             PROVE  ScanIsHonest
  BY DEF ScanIsHonest
<1> DEFINE w == Weights(close, Chosen)
           d == Decided(close)
           n == Len(close)
           first == FirstProbe(n)
<1>1. /\ n \in Nat /\ n >= 3 /\ Len(w) = n /\ Len(d) = n
      /\ submission.bars = Paid(close, w) /\ book = Paid(close, d) /\ held = d[n]
  BY BarsOfRows
<1>2. submission.probes \in ProbeSets(n)
  BY DEF Live, Booked
<1>3. first \in Nat /\ first >= 3 /\ submission.probes \subseteq first .. n
  BY <1>1, <1>2, ProbesOnThePanel
<1>4. submission.leaks = {t \in submission.probes : d[t] # w[t]}
  <2>1. submission.leaks = {t \in submission.probes :
                              Last(Weights(SubSeq(close, 1, t), Chosen)) # w[t]}
    BY DEF Live, Booked, LookaheadScan
  <2>2. \A t \in 1 .. n : d[t] = Last(Weights(SubSeq(close, 1, t), Chosen))
    BY <1>1, DecidedIsASheet
  <2>3. \A t \in submission.probes : t \in 1 .. n
    BY <1>1, <1>3
  <2> HIDE DEF d, w, n
  <2>. QED
    BY <2>1, <2>2, <2>3
<1> HIDE DEF w, d, first
<1>6. ASSUME NEW t \in submission.leaks
      PROVE  Append(submission.bars, w[n]) # Append(book, held)
  <2>1. t \in 1 .. n /\ d[t] # w[t]
    BY <1>1, <1>3, <1>4
  <2>2. ThenDecision(close, w, n) /\ ThenDecision(close, d, n)
    <3> HIDE DEF n
    <3>. QED
      BY <1>1, BarsThenDecision
  <2>3. CASE t = n
    <3>1. Append(submission.bars, w[n])[n] = w[n] /\ Append(book, held)[n] = d[n]
      BY <1>1, <2>2 DEF ThenDecision
    <3>. QED
      BY <2>1, <2>3, <3>1
  <2>4. CASE t # n
    <3>1. t \in 1 .. n - 1
      BY <1>1, <2>1, <2>4
    <3>2. /\ Append(submission.bars, w[n])[t] = BarOf(close, w, t)
          /\ Append(book, held)[t] = BarOf(close, d, t)
      BY <1>1, <2>2, <3>1 DEF ThenDecision
    <3>3. BarOf(close, w, t).row = w[t] /\ BarOf(close, d, t).row = d[t]
      BY DEF BarOf, Bar
    <3>. QED
      BY <2>1, <3>2, <3>3
  <2>. QED
    BY <2>3, <2>4
<1>7. ASSUME submission.leaks = {}, submission.probes = first .. n,
             NEW t \in (first + 1) .. Len(book)
      PROVE  submission.bars[t] = book[t]
  <2>1. Len(book) = n - 1
    BY <1>1, PaidIsASheet
  <2>2. t \in 1 .. n - 1 /\ t # 1 /\ t \in first .. n /\ t - 1 \in first .. n
    BY <1>1, <1>3, <1>7, <2>1
  <2>3. d[t] = w[t] /\ d[t - 1] = w[t - 1]
    BY <1>4, <1>7, <2>2
  <2>4. BarOf(close, w, t) = BarOf(close, d, t)
    BY <2>2, <2>3 DEF BarOf, Preceding
  <2>. QED
    BY <1>1, <2>2, <2>4 DEF Paid
<1>. QED
  BY <1>6, <1>7 DEF ScanIsHonest, w, first

(* For every panel and every signal, one that peeks too: the scan accuses  *)
(* only a signal whose backtest the desk could not have traded, and one it *)
(* clears wherever it may probe was traded from there on                   *)
(* (leakage.py:43-85).                                                     *)
THEOREM ScansAreHonest == Spec => []ScanIsHonest
<1>1. Init => Live
  BY DeskStartsLive
<1>2. Live /\ [Next]_vars => Live'
  BY DeskStaysLive
<1>3. Live => ScanIsHonest
  BY LiveScan
<1>. QED
  BY <1>1, <1>2, <1>3, PTL DEF Spec
=============================================================================
