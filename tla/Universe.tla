------------------------------- MODULE Universe -------------------------------
(***************************************************************************)
(* Who is in the universe on a day, who can be traded, and how much of a   *)
(* window has left the market (core/data/universe.py).  No state: every    *)
(* operator takes the universe a listings file and its sidecar describe.   *)
(*                                                                         *)
(* A date is a number of days.  A universe is                              *)
(*   [listings, as_of, point_in_time], listings a function from symbols;   *)
(* a listing is [listed_on, delisted_on, halts, sector], a halt            *)
(* [start, end].  Ranges are half-open.                                    *)
(***************************************************************************)
EXTENDS Integers, SequencesExt

CONSTANTS
    None,             \* no date: not known, or not yet
    Refused,          \* the question raises
    StaleRun,         \* DEFAULT_STALE_RUN: sessions without a move
    LiquidityWindow,  \* DEFAULT_LIQUIDITY_WINDOW
    Floor             \* the dollar volume of floor_from_limits

ASSUME UniverseAssumption ==
    /\ None \notin Int /\ Refused \notin Int /\ None # Refused
    /\ StaleRun \in Nat /\ StaleRun >= 2
    /\ LiquidityWindow \in Nat \ {0} /\ Floor \in Nat \ {0}

-----------------------------------------------------------------------------
(* One listing                                                             *)

Covers(h, day) == h.start <= day /\ (h.end = None \/ day < h.end)

Dated(x) == x.listed_on # None

\* A listing without a date has no past to ask about.
StatusOn(x, when) ==
    IF ~Dated(x) THEN Refused
    ELSE IF when < x.listed_on THEN "pre_listing"
    ELSE IF x.delisted_on # None /\ x.delisted_on <= when THEN "delisted"
    ELSE IF \E h \in x.halts : Covers(h, when) THEN "halted"
    ELSE "listed"

\* What Listing and Halt refuse to be built from.
WellFormed(x) ==
    /\ (Dated(x) /\ x.delisted_on # None) => x.listed_on <= x.delisted_on
    /\ \A h \in x.halts :
         /\ h.end # None => h.start <= h.end
         /\ Dated(x) => x.listed_on <= h.start
         /\ x.delisted_on # None => h.start < x.delisted_on

-----------------------------------------------------------------------------
(* The universe on a day                                                   *)

SymbolsOf(u) == DOMAIN u.listings

\* The listings a universe may carry: a point-in-time one has all their dates.
Loads(u) ==
    /\ \A s \in SymbolsOf(u) : WellFormed(u.listings[s])
    /\ u.point_in_time => \A s \in SymbolsOf(u) : Dated(u.listings[s])

\* Mutant: a roster answers for days before it was read.
EffectiveDateUnasked(u, on, bias) ==
    IF u.point_in_time THEN (IF on = None THEN u.as_of ELSE on) ELSE None
\* The date to answer for; None is the roster as it was read.
EffectiveDate(u, on, bias) ==
    IF u.point_in_time THEN (IF on = None THEN u.as_of ELSE on)
    ELSE IF on = None \/ bias THEN None
    ELSE IF on >= u.as_of THEN None ELSE Refused

WithStatus(u, on, bias, wanted) ==
    LET when == EffectiveDate(u, on, bias)
    IN  IF when = Refused THEN Refused
        ELSE IF when = None THEN SymbolsOf(u)
        ELSE {s \in SymbolsOf(u) : StatusOn(u.listings[s], when) \in wanted}

Members(u, on, bias) == WithStatus(u, on, bias, {"listed", "halted"})
Tradable(u, on, bias) == WithStatus(u, on, bias, {"listed"})

\* Mutant: a name that leaves on the window's last day is not counted.
DelistedBeforeEnd(u, first, last) ==
    {s \in SymbolsOf(u) : u.listings[s].delisted_on \in first .. last - 1}
DelistedBetween(u, first, last) ==
    {s \in SymbolsOf(u) : u.listings[s].delisted_on \in first .. last}

\* Survivors and leavers of a window; the leavers of a roster are unknown.
SurvivorshipGap(u, first, last) ==
    IF u.point_in_time
    THEN [survivors |-> Cardinality(Tradable(u, last, FALSE)),
          delisted |-> Cardinality(DelistedBetween(u, first, last))]
    ELSE [survivors |-> Cardinality(SymbolsOf(u)), delisted |-> None]

-----------------------------------------------------------------------------
(* Screens over a panel: panel[s] is [close, traded], one entry a session  *)

LastOf(q, n) == SubSeq(q, IF Len(q) > n THEN Len(q) - n + 1 ELSE 1, Len(q))

\* The sum of the two middle values: twice the median.
TwiceMedian(q) ==
    LET sorted == SortSeq(q, <)
    IN  sorted[(Len(q) + 1) \div 2] + sorted[Len(q) \div 2 + 1]

\* Why a name cannot absorb a position; without volume no name can.
Liquidity(panel, volume, s) ==
    IF ~volume THEN "unmeasured"
    ELSE IF s \notin DOMAIN panel THEN "no price history"
    ELSE IF TwiceMedian(LastOf(panel[s].traded, LiquidityWindow)) < 2 * Floor THEN "thin"
    ELSE "kept"

\* The closes at the end of the series that are the same.
StaleRunOf(q) ==
    Cardinality({i \in DOMAIN q : \A j \in i .. Len(q) : q[j] = q[Len(q)]})

StalePriceRuns(panel) == {s \in DOMAIN panel : StaleRunOf(panel[s].close) >= StaleRun}

\* Mutant: only a missing volume is asked about, never the last prices.
VerdictUnscreened(u, panel, volume, on, bias, s) ==
    IF s \notin Tradable(u, on, bias) THEN "not tradable"
    ELSE IF ~u.listings[s].sector THEN "no sector"
    ELSE IF s \notin DOMAIN panel THEN "no price history"
    ELSE Liquidity(panel, volume, s)
\* Whether a name may be ordered, or the first reason it may not.
Verdict(u, panel, volume, on, bias, s) ==
    IF s \notin Tradable(u, on, bias) THEN "not tradable"
    ELSE IF ~u.listings[s].sector THEN "no sector"
    ELSE IF s \notin DOMAIN panel THEN "no price history"
    ELSE IF Liquidity(panel, volume, s) # "kept" THEN Liquidity(panel, volume, s)
    ELSE IF s \in StalePriceRuns(panel) THEN "stale"
    ELSE "kept"

TradableSet(u, panel, volume, on, bias) ==
    {s \in SymbolsOf(u) : Verdict(u, panel, volume, on, bias, s) = "kept"}
=============================================================================
