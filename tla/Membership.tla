------------------------------ MODULE Membership ------------------------------
(***************************************************************************)
(* How a listings file comes to say who was in the market: the market      *)
(* itself day by day, and the reader that turns what a source shows of it  *)
(* into kr.csv and its sidecar (scripts/fetch_krx.py, scripts/fetch_kind.py*)
(* core/data/krx.py, core/data/kind.py, core/data/universe.py).            *)
(*                                                                         *)
(* "krx"     daily bars of every name in a window of days                  *)
(* "kind"    today's list of companies                                     *)
(* "history" a dated list with halts, kept by hand                         *)
(*                                                                         *)
(* The market is external: a name is "pre", "in", "halted" or "gone" on    *)
(* each day, and moves on sessions only.  A list and a sidecar carry the   *)
(* number of the run that wrote them and a list whether it is whole; no    *)
(* code reads these two fields, only the properties do.                    *)
(***************************************************************************)
EXTENDS Universe, FiniteSetsExt

CONSTANTS
    Names, VenueOf,   \* the names and the venue of each
    Movers,           \* the names that may list, halt, resume and leave
    Weekend,          \* days no exchange opens on
    Days,             \* --days: how far back a krx run asks
    MinRows,          \* readable rows below which an answer is not believed
    Horizon, MaxMoves, MaxHolidays, MaxMute, MaxRuns   \* bounds

ASSUME MembershipAssumption ==
    /\ IsFiniteSet(Names) /\ Movers \subseteq Names /\ Weekend \subseteq Nat \ {0}
    /\ Days \in Nat \ {0} /\ MinRows \in Nat
    /\ {Horizon, MaxMoves, MaxHolidays, MaxMute} \subseteq Nat
    /\ MaxRuns \in [{"krx", "kind", "history"} -> Nat]

Venues == {VenueOf[n] : n \in Names}

VARIABLES
    source,   \* which reader the desk runs
    today,
    open,     \* the days that were sessions
    market,   \* what each name was on each day up to today
    list,     \* the csv
    sidecar,  \* the json beside it
    run       \* the reader: what it is about to write

vars == <<source, today, open, market, list, sidecar, run>>

Idle == [pc |-> "idle"]

-----------------------------------------------------------------------------
(* The market                                                              *)

Moves(from) ==
    IF from = "pre" THEN {"pre", "in"}
    ELSE IF from \in {"in", "halted"} THEN {"in", "halted", "gone"}
    ELSE {"gone"}

MovesMade == {md \in Movers \X (1 .. today) : market[md[1]][md[2]] # market[md[1]][md[2] - 1]}

Holidays == (0 .. today) \ (open \cup Weekend)

NewDay ==
    /\ today < Horizon /\ run = Idle
    /\ today' = today + 1
    /\ \E session \in BOOLEAN, next \in [Names -> {"pre", "in", "halted", "gone"}] :
         LET moved == {n \in Names : next[n] # market[n][today]}
         IN  /\ session => today' \notin Weekend
             /\ (~session /\ today' \notin Weekend) => Cardinality(Holidays) < MaxHolidays
             /\ moved \subseteq (IF session THEN Movers ELSE {})
             /\ Cardinality(moved) + Cardinality(MovesMade) <= MaxMoves
             /\ \A n \in Names : next[n] \in Moves(market[n][today])
             /\ open' = IF session THEN open \cup {today'} ELSE open
             /\ market' = [n \in Names |-> [d \in 0 .. today' |->
                             IF d = today' THEN next[n] ELSE market[n][d]]]
    /\ UNCHANGED <<source, list, sidecar, run>>

DaysAs(n, states) == {d \in 0 .. today : market[n][d] \in states}

-----------------------------------------------------------------------------
(* KRX: one answer per venue and weekday of the window                     *)

WindowStart == today - Days
Weekdays == (WindowStart .. today) \ Weekend

\* The names with a row, and those whose row has a price: a halted one has none.
Rows(v, d) == {n \in Names : VenueOf[n] = v /\ d \in open /\ market[n][d] \in {"in", "halted"}}
Bars(v, d) == {n \in Rows(v, d) : market[n][d] = "in"}

\* An empty answer is a day without a session; a thin one is not believed.
Believed(mute) ==
    \A d \in Weekdays, v \in Venues :
      Rows(v, d) = {} \/ <<v, d>> \in mute \/ Cardinality(Bars(v, d)) >= MinRows

BarDays(n, mute) ==
    {d \in Weekdays : n \in Bars(VenueOf[n], d) /\ <<VenueOf[n], d>> \notin mute}

\* Mutant: a name first seen on the window's first day is dated by it.
KrxListingFromStart(n, mute) ==
    LET first == Min(BarDays(n, mute)) last == Max(BarDays(n, mute))
    IN  [listed_on |-> first, sector |-> FALSE, halts |-> {},
         delisted_on |-> IF last < today THEN last + 1 ELSE None]
\* membership(): dated by the first and the last bar of the window.
KrxListing(n, mute) ==
    LET first == Min(BarDays(n, mute)) last == Max(BarDays(n, mute))
    IN  [listed_on |-> IF first > WindowStart THEN first ELSE None,
         delisted_on |-> IF last < today THEN last + 1 ELSE None,
         halts |-> {}, sector |-> FALSE]

ReadKrx(mute) ==
    LET seen == {n \in Names : BarDays(n, mute) # {}}
        rows == [n \in seen |-> KrxListing(n, mute)]
    IN  /\ source = "krx" /\ WindowStart >= 0
        /\ Believed(mute) /\ seen # {}
        /\ run' = [pc |-> "list", rows |-> rows, mute |-> mute,
                   pit |-> \A n \in seen : Dated(rows[n])]

-----------------------------------------------------------------------------
(* The other two                                                           *)

\* KIND serves the companies listed today; a date it does not parse is blank.
ReadKind(undated) ==
    LET live == {n \in Names : market[n][today] \in {"in", "halted"}}
    IN  /\ source = "kind" /\ Cardinality(live) >= Max({MinRows, 1})
        /\ run' = [pc |-> "list", pit |-> FALSE, mute |-> {},
                   rows |-> [n \in live |->
                     [listed_on |-> IF n \in undated THEN None
                                    ELSE Min(DaysAs(n, {"in", "halted"})),
                      delisted_on |-> None, halts |-> {}, sector |-> TRUE]]]

\* A halt starts on the first halted day and ends on the first that is not.
HaltsOf(n) ==
    LET starts == {d \in DaysAs(n, {"halted"}) : market[n][d - 1] # "halted"}
        resumed(d) == {e \in d .. today : market[n][e] # "halted"}
    IN  {[start |-> d, end |-> IF resumed(d) = {} THEN None ELSE Min(resumed(d))] : d \in starts}

ReadHistory ==
    LET known == {n \in Names : DaysAs(n, {"in"}) # {}}
    IN  /\ source = "history"
        /\ run' = [pc |-> "list", pit |-> TRUE, mute |-> {},
                   rows |-> [n \in known |->
                     [listed_on |-> Min(DaysAs(n, {"in"})),
                      delisted_on |-> IF DaysAs(n, {"gone"}) = {} THEN None
                                      ELSE Min(DaysAs(n, {"gone"})),
                      halts |-> HaltsOf(n), sector |-> TRUE]]]

-----------------------------------------------------------------------------
(* Reading, writing, dying                                                 *)

Read ==
    /\ run = Idle /\ list.by < MaxRuns[source]
    /\ \/ \E mute \in SUBSET (Venues \X Weekdays) :
            Cardinality(mute) <= MaxMute /\ ReadKrx(mute)
       \/ \E undated \in SUBSET Movers : Cardinality(undated) <= 1 /\ ReadKind(undated)
       \/ ReadHistory
    /\ UNCHANGED <<source, today, open, market, list, sidecar>>

\* write_universe, write_rows: the list in one go, the sidecar after it.
WriteList ==
    /\ run.pc = "list"
    /\ list' = [rows |-> run.rows, whole |-> TRUE, by |-> list.by + 1]
    /\ run' = [run EXCEPT !.pc = "sidecar"]
    /\ UNCHANGED <<source, today, open, market, sidecar>>

WriteSidecar ==
    /\ run.pc = "sidecar"
    /\ sidecar' = [as_of |-> today, pit |-> run.pit, by |-> list.by, mute |-> run.mute]
    /\ run' = Idle
    /\ UNCHANGED <<source, today, open, market, list>>

\* The process dies: in the list, or before or in the sidecar.  How much of a torn
\* list is left makes no difference to anything asserted here, so nothing is.
Die ==
    /\ \/ /\ run.pc = "list"
          /\ list' = [rows |-> <<>>, whole |-> FALSE, by |-> list.by + 1]
          /\ UNCHANGED sidecar
       \/ /\ run.pc = "sidecar"
          /\ sidecar' \in {sidecar, Refused}
          /\ UNCHANGED list
    /\ run' = Idle
    /\ UNCHANGED <<source, today, open, market>>

Init ==
    /\ source \in {"krx", "kind", "history"}
    /\ today = 0 /\ open = {0}
    /\ market \in [Names -> [{0} -> {"pre", "in"}]]
    /\ \A n \in Names \ Movers : market[n][0] = "in"
    /\ list = [rows |-> <<>>, whole |-> FALSE, by |-> 0]
    /\ sidecar = Refused
    /\ run = Idle

Next == NewDay \/ Read \/ WriteList \/ WriteSidecar \/ Die

Spec == Init /\ [][Next]_vars

-----------------------------------------------------------------------------
(* What load_universe makes of the two files                               *)

\* A missing or torn sidecar and a list the universe refuses both raise.
LoadUniverse ==
    LET u == [listings |-> list.rows, as_of |-> sidecar.as_of, point_in_time |-> sidecar.pit]
    IN  IF sidecar = Refused \/ ~Loads(u) THEN Refused ELSE u

Loaded == sidecar # Refused /\ LoadUniverse # Refused
Paired == sidecar # Refused /\ list.whole /\ list.by = sidecar.by

InMarket(d) == {n \in Names : market[n][d] \in {"in", "halted"}}
Trading(d) == {n \in Names : market[n][d] = "in"}

\* A dated list (whole, whichever sidecar stands beside it) and a roster (whole,
\* beside its own sidecar) say of every day who was in the market and who could
\* be traded, or refuse; of the days since they were read they say, beside their
\* own sidecar, what was so on that day.
AnsweredRightOrRefused ==
    (source # "krx" /\ Loaded /\ list.whole /\ (source = "kind" => Paired)) =>
      LET u == LoadUniverse
      IN  \A d \in 0 .. (IF Paired THEN today ELSE u.as_of) :
            /\ Members(u, d, FALSE) \in {Refused, InMarket(Min({d, u.as_of}))}
            /\ (source = "history" /\ d <= u.as_of) => Tradable(u, d, FALSE) = Trading(d)

\* A window that starts and ends on a session, in which every venue answered and
\* no name was halted, dates the names as the market did: a listing date is the
\* day the name began to trade, and exactly the names gone carry a delisting date.
WindowProvesItsDates ==
    (/\ source = "krx" /\ Loaded /\ Paired
     /\ sidecar.as_of = today /\ sidecar.mute = {} /\ {WindowStart, today} \subseteq open
     /\ \A n \in Names, d \in Weekdays : market[n][d] # "halted") =>
      \A n \in DOMAIN list.rows :
        LET x == list.rows[n]
        IN  /\ Dated(x) <=> market[n][WindowStart] = "pre"
            /\ Dated(x) => x.listed_on = Min(DaysAs(n, {"in"}))
            /\ x.delisted_on # None <=> market[n][today] = "gone"

\* The intention of fetch_krx.py:225, "A name that stopped appearing before the
\* window ended is gone": a name with a delisting date behind it is not trading.
GoneNamesAreGone ==
    (source = "krx" /\ Loaded /\ Paired) =>
      \A n \in DOMAIN list.rows :
        (list.rows[n].delisted_on # None /\ sidecar.as_of = today) =>
          market[n][today] # "in"

\* The days of a set, the earliest first.
InOrder(S) ==
    [i \in 1 .. Cardinality(S) |-> CHOOSE d \in S : Cardinality({e \in S : e <= d}) = i]

\* The prices of the sessions so far, of the names in the market on all of the
\* last StaleRun: a halted name repeats its close and trades nothing.
Panel ==
    LET recent == ToSet(LastOf(InOrder(open), StaleRun))
        named == {n \in Names : \A d \in recent : market[n][d] \in {"in", "halted"}}
        since(n) == {d \in open : market[n][d] \in {"in", "halted"}}
    IN  [n \in named |->
          LET days == InOrder(since(n))
          IN  [close |-> [i \in DOMAIN days |->
                            Cardinality({d \in since(n) : d <= days[i] /\ market[n][d] = "in"})],
               traded |-> [i \in DOMAIN days |-> IF market[n][days[i]] = "in" THEN 1 ELSE 0]]]

\* A name that may be ordered today was in the market the day the list was read,
\* traded within the last StaleRun - 1 sessions whatever the list knows of halts,
\* and is not halted today when a list that knows them was read today.
NoHaltIsOrdered ==
    (Loaded /\ list.whole /\ (source = "kind" => Paired)) =>
      LET u == LoadUniverse panel == Panel
      IN  \A n \in TradableSet(u, panel, TRUE, today, FALSE) :
        /\ Paired => market[n][sidecar.as_of] \in {"in", "halted"}
        /\ \E d \in ToSet(LastOf(InOrder(open), StaleRun - 1)) : market[n][d] = "in"
        /\ (source = "history" /\ Paired /\ sidecar.as_of = today) => market[n][today] = "in"

\* The share of a window's names that left is never reported smaller than it was:
\* a dated list, beside whichever sidecar, counts every name that left and no
\* survivor that is not there.
GapIsNeverUnderstated ==
    (source = "history" /\ Loaded /\ list.whole) =>
      LET u == LoadUniverse
      IN \A last \in 0 .. sidecar.as_of : \A first \in 0 .. last :
        LET left == {n \in Names : /\ \E d \in first .. last : n \in InMarket(d)
                                   /\ n \notin InMarket(last)}
            gap == SurvivorshipGap(u, first, last)
        IN  Cardinality(left) * (gap.survivors + gap.delisted)
              <= gap.delisted * (Cardinality(left) + Cardinality(InMarket(last)))
=============================================================================
