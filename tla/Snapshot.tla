------------------------------- MODULE Snapshot -------------------------------
(***************************************************************************)
(* From a vendor's bars to a manifest nobody may change: the fetch of one  *)
(* file per symbol, vendor after vendor (scripts/fetch_prices.py), the     *)
(* choice of symbols and window per market and the panels                  *)
(* (scripts/data_snapshot.py, core/data/sources.py, core/data/markets.py), *)
(* the factor rows a panel's bars are priced with (core/data/factors.py)   *)
(* and the manifests a submission writes into the same directory           *)
(* (scripts/submit_alpha.py).                                              *)
(*                                                                         *)
(* A file's bytes are [days, by]: the days it has rows for and the vendor  *)
(* they are from; the bytes stand for their digest.  On the runner data/   *)
(* is empty when a run starts and the snapshot follows a fetch that was    *)
(* ok; at a desk data/ stays and both are run at will.                     *)
(***************************************************************************)
EXTENDS Integers, SequencesExt, FiniteSetsExt

CONSTANTS
    None,         \* no file, no window, no factors
    Torn,         \* a file that does not parse
    Asked,        \* the symbols of --symbols, in order
    MarketOf,     \* markets.UNIVERSE
    Vendors,      \* AUTO_ORDER
    Shapes,       \* the days a vendor may serve for each symbol
    MinRows,      \* MIN_ROWS
    MinCoverage,  \* min_coverage, per cent
    Years,        \* the values of --history-years, in days
    FactorFiles,  \* the factor files there may be: the days of their usable rows
    Universes,    \* the sets of symbols alphas declare
    MaxRuns       \* bounds the fetches, the snapshots and the submissions

Symbols == ToSet(Asked)

ASSUME SnapshotAssumption ==
    /\ Asked \in Seq(DOMAIN MarketOf) /\ Len(Asked) > 0 /\ Len(Vendors) > 0
    /\ IsInjective(Asked) /\ IsInjective(Vendors)
    /\ Symbols = DOMAIN Shapes
    /\ \A s \in Symbols : \A days \in Shapes[s] : days \subseteq Nat /\ IsFiniteSet(days)
    /\ MinRows \in Nat \ {0, 1} /\ MinCoverage \in 1 .. 100 /\ Years \subseteq Nat
    /\ \A u \in Universes : u # {} /\ u \subseteq Symbols
    /\ MaxRuns \in [{"fetch", "snapshot", "submit"} -> Nat]

VARIABLES
    place,      \* "runner" or "desk"
    data,       \* the csv of each symbol
    source,     \* the sidecar of each: the vendor it names
    factors,    \* the factor file
    ok,         \* the vendor of the last fetch's report, None when it was not ok
    manifests,  \* registry/snapshots: what is written under each id
    indexes,    \* the .markets.json files
    smoke,      \* the .smoke.json files: what each run recorded, by id
    refused,    \* the ids whose manifest was refused although the file is whole
    run,        \* the process that is running
    runs        \* how often each was started

files == <<manifests, indexes, smoke, refused>>
vars == <<place, data, source, factors, ok, files, run, runs>>

Idle == [pc |-> "idle"]

\* A directory of files after one more is written.
With(dir, id, content) ==
    [x \in DOMAIN dir \cup {id} |-> IF x = id THEN content ELSE dir[x]]

-----------------------------------------------------------------------------
(* fetch_prices                                                            *)

StartFetch ==
    /\ run = Idle /\ runs["fetch"] < MaxRuns["fetch"]
    /\ run' = [pc |-> "fetch", vendor |-> 1, next |-> 1, written |-> {}]
    /\ runs' = [runs EXCEPT !["fetch"] = @ + 1]
    /\ ok' = None
    /\ IF place = "runner"
       THEN data' = [s \in Symbols |-> None] /\ source' = [s \in Symbols |-> None]
       ELSE UNCHANGED <<data, source>>
    /\ UNCHANGED <<place, factors, files>>

Fetching == run.pc = "fetch" /\ run.next <= Len(Asked)
Vendor == Vendors[run.vendor]

\* Rows enough: the csv, then the sidecar beside it.
WriteBars ==
    /\ Fetching
    /\ \E days \in Shapes[Asked[run.next]] :
         /\ Cardinality(days) >= MinRows
         /\ data' = [data EXCEPT ![Asked[run.next]] = [days |-> days, by |-> Vendor]]
         /\ source' = [source EXCEPT ![Asked[run.next]] = Vendor]
    /\ run' = [run EXCEPT !.next = @ + 1, !.written = @ \cup {Asked[run.next]}]
    /\ UNCHANGED <<place, factors, ok, files, runs>>

\* No answer, not the expected one, or too few rows: a failure with a name.
SymbolFails ==
    /\ Fetching
    /\ run' = [run EXCEPT !.next = @ + 1]
    /\ UNCHANGED <<place, data, source, factors, ok, files, runs>>

\* Mutant: what the vendors before wrote counts for the next one.
VendorDoneTogether ==
    /\ run.pc = "fetch" /\ run.next > Len(Asked)
    /\ IF run.written = Symbols
       THEN ok' = Vendor /\ run' = Idle
       ELSE /\ run' = IF run.vendor < Len(Vendors)
                      THEN [run EXCEPT !.vendor = @ + 1, !.next = 1]
                      ELSE Idle
            /\ UNCHANGED ok
    /\ UNCHANGED <<place, data, source, factors, files, runs>>
\* A vendor that wrote every symbol ends the fetch; otherwise the next one writes
\* over what this one left.
VendorDone ==
    /\ run.pc = "fetch" /\ run.next > Len(Asked)
    /\ IF run.written = Symbols
       THEN ok' = Vendor /\ run' = Idle
       ELSE /\ run' = IF run.vendor < Len(Vendors)
                      THEN [run EXCEPT !.vendor = @ + 1, !.next = 1, !.written = {}]
                      ELSE Idle
            /\ UNCHANGED ok
    /\ UNCHANGED <<place, data, source, factors, files, runs>>

\* An answer that raises something else than FetchError, or the process dies:
\* before a file, in the csv, or between the csv and its sidecar.  A csv that is cut
\* ends in half a row and does not parse, or ends with one of its rows.
FetchDies ==
    /\ Fetching
    /\ \/ UNCHANGED data
       \/ \E days \in Shapes[Asked[run.next]] :
            /\ Cardinality(days) >= MinRows
            /\ \E left \in {Torn}
                         \cup {[days |-> {d \in days : d <= e}, by |-> Vendor] : e \in days} :
                  data' = [data EXCEPT ![Asked[run.next]] = left]
    /\ run' = Idle
    /\ UNCHANGED <<place, source, factors, ok, files, runs>>

-----------------------------------------------------------------------------
(* Panels                                                                  *)

FirstDay(bytes) == Min(bytes.days)
LastDay(bytes) == Max(bytes.days)

SnapshotId(digests, window) == [digests |-> digests, window |-> window]

Within(chosen, start) ==
    [s \in DOMAIN chosen |-> {d \in chosen[s].days : start = None \/ d >= start}]

AllDates(within) == UNION {within[s] : s \in DOMAIN within}
CommonDates(within) == {d \in AllDates(within) : \A s \in DOMAIN within : d \in within[s]}

\* The part of a manifest that is a claim about bytes.
ClaimOf(chosen, start) ==
    LET within == Within(chosen, start)
    IN  [digests |-> chosen, window |-> start, dates |-> CommonDates(within),
         dropped |-> Cardinality(AllDates(within)) - Cardinality(CommonDates(within))]

\* One panel: the days common to all symbols from the window's start on, refused
\* when a symbol has none there or too few days are common.
LoadPanel(chosen, start) ==
    LET within == Within(chosen, start)
    IN  IF \/ \E s \in DOMAIN chosen : within[s] = {}
           \/ 100 * Cardinality(CommonDates(within)) < MinCoverage * Cardinality(AllDates(within))
        THEN None
        ELSE [id |-> SnapshotId(chosen, start), claim |-> ClaimOf(chosen, start)]

\* Mutant: every symbol of the market, however late it starts.
HistoryScreenOfAll(group, start) == group
\* The symbols whose history reaches back to the window's start.
HistoryScreen(group, start) == {s \in group : FirstDay(data[s]) <= start}

Discovered == {s \in Symbols : data[s] # None}
\* The symbols with a span: a file that does not parse is set aside.
Spanned == {s \in Discovered : data[s] # Torn}
Markets == {MarketOf[s] : s \in Spanned}
GroupOf(code) == {s \in Spanned : MarketOf[s] = code}

\* The required window, or the one every symbol of the market shares.
WindowOf(code, years) ==
    LET group == GroupOf(code)
        required == Max({LastDay(data[s]) : s \in group}) - years
    IN  IF HistoryScreen(group, required) # {} THEN required
        ELSE Max({FirstDay(data[s]) : s \in group})

PanelOf(code, years) ==
    LET window == WindowOf(code, years)
        kept == HistoryScreen(GroupOf(code), window)
    IN  LoadPanel([s \in kept |-> data[s]], window)

-----------------------------------------------------------------------------
(* Factors                                                                 *)

\* The days a panel's bars close on: all but the first.
BarDays(dates) == dates \ {Min(dates)}

FRENCH_MARKET == "US"

\* Mutant: the file prices the bars of any market.
FactorMatrixOfAnyMarket(dates, code) ==
    LET covered == dates \cap factors
        trimmed == {d \in dates : Min(covered) <= d /\ d <= Max(covered)}
        prices == /\ factors # None /\ Cardinality(covered) >= 3
                  /\ trimmed = covered /\ BarDays(trimmed) \subseteq factors
    IN  IF prices THEN [dates |-> trimmed, rows |-> BarDays(trimmed)]
        ELSE [dates |-> dates, rows |-> None]
\* The part of a panel the file can price; another market, a hole inside it, or
\* too little of it, and the panel is kept without factors.
FactorMatrix(dates, code) ==
    LET covered == dates \cap factors
        trimmed == {d \in dates : Min(covered) <= d /\ d <= Max(covered)}
        prices == /\ factors # None /\ code = FRENCH_MARKET /\ Cardinality(covered) >= 3
                  /\ trimmed = covered /\ BarDays(trimmed) \subseteq factors
    IN  IF prices THEN [dates |-> trimmed, rows |-> BarDays(trimmed)]
        ELSE [dates |-> dates, rows |-> None]

\* The fetch of both factor files; on failure the step is passed over.
FetchFactors ==
    /\ run = Idle /\ runs["snapshot"] = 0 /\ factors = None
    /\ factors' \in FactorFiles
    /\ UNCHANGED <<place, data, source, ok, files, run, runs>>

-----------------------------------------------------------------------------
(* data_snapshot                                                           *)

\* Mutant: what is read back is without the window.
ReadBackWindowless(claim) == [claim EXCEPT !.window = None]
\* _manifest_from: the claim a manifest on disk is read back as.
ReadBack(claim) == claim

\* Half a row is one that float() refuses, and its symbol goes, or one without a
\* close, and that is a TypeError which nothing catches.
StartSnapshot ==
    /\ run = Idle /\ runs["snapshot"] < MaxRuns["snapshot"]
    /\ place = "runner" => ok # None
    /\ Discovered # {}
    /\ \E years \in Years :
         LET panels == [code \in Markets |-> PanelOf(code, years)]
         IN  run' \in
               IF Markets = {} \/ \E code \in Markets : panels[code] = None THEN {Idle}
               ELSE {[pc |-> IF Cardinality(Markets) > 1 THEN "index" ELSE "manifest",
                      panels |-> panels, todo |-> Markets]}
                    \cup (IF Spanned # Discovered THEN {Idle} ELSE {})
    /\ runs' = [runs EXCEPT !["snapshot"] = @ + 1]
    /\ UNCHANGED <<place, data, source, factors, ok, files>>

\* The index of several markets' ids, compared with the one on disk.
IndexId == [code \in DOMAIN run.panels |-> run.panels[code].id]
WriteIndex ==
    /\ run.pc = "index"
    /\ LET mine == [code \in DOMAIN run.panels |-> run.panels[code].claim]
           known == IndexId \in DOMAIN indexes
       IN  IF known /\ (indexes[IndexId] = Torn \/ indexes[IndexId] # mine)
           THEN /\ run' = Idle
                /\ refused' = refused \cup (IF indexes[IndexId] = Torn THEN {} ELSE {IndexId})
                /\ UNCHANGED indexes
           ELSE /\ indexes' = With(indexes, IndexId, mine)
                /\ run' = [run EXCEPT !.pc = "manifest"]
                /\ UNCHANGED refused
    /\ UNCHANGED <<place, data, source, factors, ok, manifests, smoke, runs>>

\* Whether a manifest may be written over what is under its id.
Accepts(p) ==
    p.id \in DOMAIN manifests =>
      /\ manifests[p.id] # Torn
      /\ ReadBack(manifests[p.id]) = p.claim

Put(p) == manifests' = With(manifests, p.id, p.claim)
Refuse(p) == refused' = refused \cup (IF manifests[p.id] = Torn THEN {} ELSE {p.id})

\* Markets in their order: the manifest, then the run over the panel, which may
\* raise, and its record with the vendors the sidecars name.
WriteManifest ==
    /\ run.pc = "manifest"
    /\ LET code == CHOOSE c \in run.todo : TRUE
           p == run.panels[code]
       IN  IF ~Accepts(p)
           THEN Refuse(p) /\ run' = Idle /\ UNCHANGED manifests
           ELSE Put(p) /\ run' = [run EXCEPT !.pc = "smoke"] /\ UNCHANGED refused
    /\ UNCHANGED <<place, data, source, factors, ok, indexes, smoke, runs>>

WriteSmoke ==
    /\ run.pc = "smoke"
    /\ LET code == CHOOSE c \in run.todo : TRUE
           p == run.panels[code]
           record == [dates |-> p.claim.dates, matrix |-> FactorMatrix(p.claim.dates, code),
                      sources |-> {source[s] : s \in DOMAIN p.claim.digests} \ {None},
                      reported |-> ok]
       IN  /\ smoke' = With(smoke, p.id, record)
           /\ run' = IF run.todo = {code} THEN Idle
                     ELSE [run EXCEPT !.pc = "manifest", !.todo = @ \ {code}]
    /\ UNCHANGED <<place, data, source, factors, ok, manifests, indexes, refused, runs>>

\* The run over a panel raises, or the process dies: a file it was writing is torn.
SnapshotDies ==
    /\ run.pc \in {"index", "manifest", "smoke"}
    /\ \/ UNCHANGED <<manifests, indexes>>
       \/ /\ run.pc = "index" /\ indexes' = With(indexes, IndexId, Torn)
          /\ UNCHANGED manifests
       \/ /\ run.pc = "manifest"
          /\ LET p == run.panels[CHOOSE c \in run.todo : TRUE]
             IN  Accepts(p) /\ manifests' = With(manifests, p.id, Torn)
          /\ UNCHANGED indexes
    /\ run' = Idle
    /\ UNCHANGED <<place, data, source, factors, ok, smoke, refused, runs>>

\* submit_alpha: the panel of a declared universe, without a window, under the
\* same rule; a universe with a file missing, or refused, is left out.
Submit ==
    /\ run = Idle /\ runs["submit"] < MaxRuns["submit"]
    /\ \E u \in Universes :
         /\ u \subseteq Spanned /\ Cardinality({MarketOf[s] : s \in u}) = 1
         /\ LET p == LoadPanel([s \in u |-> data[s]], None)
            IN  /\ p # None
                /\ IF Accepts(p) THEN Put(p) /\ UNCHANGED refused
                   ELSE Refuse(p) /\ UNCHANGED manifests
    /\ runs' = [runs EXCEPT !["submit"] = @ + 1]
    /\ UNCHANGED <<place, data, source, factors, ok, indexes, smoke, run>>

-----------------------------------------------------------------------------
Init ==
    /\ place \in {"runner", "desk"}
    /\ data = [s \in Symbols |-> None] /\ source = [s \in Symbols |-> None]
    /\ factors = None /\ ok = None
    /\ manifests = <<>> /\ indexes = <<>> /\ smoke = <<>> /\ refused = {}
    /\ run = Idle /\ runs = [k \in {"fetch", "snapshot", "submit"} |-> 0]

Next ==
    \/ StartFetch \/ WriteBars \/ SymbolFails \/ VendorDone \/ FetchDies \/ FetchFactors
    \/ StartSnapshot \/ WriteIndex \/ WriteManifest \/ WriteSmoke \/ SnapshotDies \/ Submit

Spec == Init /\ [][Next]_vars

-----------------------------------------------------------------------------
Whole == {id \in DOMAIN manifests : manifests[id] # Torn}

\* An id names one claim: whatever windows the same bytes are read over, by a
\* snapshot or a submission, and however often, no manifest that is whole is ever
\* found to say something else (_snapshot_id, _manifest_from, write_manifest).
SameReadSameClaim == refused = {}

\* The runner's panels are one vendor's: every file of a panel with a record is of
\* the vendor the fetch reported, and the record names that vendor alone.
OnePanelOneVendor ==
    place = "runner" =>
      \A id \in DOMAIN smoke :
        /\ smoke[id].sources = {smoke[id].reported}
        /\ \A s \in DOMAIN id.digests : id.digests[s].by = smoke[id].reported

\* No symbol that starts late shortens a windowed panel or reads as a hole in it:
\* each one's history reaches back to the first date any of them has there.
NobodyStartsLate ==
    \A id \in Whole :
      LET claim == manifests[id]
          days(s) == claim.digests[s].days
      IN  claim.window # None =>
            \A s, t \in DOMAIN claim.digests :
              \A d \in days(t) : d >= claim.window => FirstDay(claim.digests[s]) <= d

\* A verdict with factors regresses every bar it has on the row of the day that
\* bar closed, the bars it gave up lie before or after the file's rows, and the
\* book is of the market the file describes (core/data/factors.py:36-39, "a US
\* factor model does not price a Korean book").
FactorsPriceEveryBar ==
    \A id \in DOMAIN smoke :
      LET used == smoke[id].matrix
      IN  used.rows # None =>
            /\ used.rows = {d \in used.dates : \E e \in used.dates : e < d}
            /\ used.rows \subseteq factors
            /\ used.dates \subseteq smoke[id].dates
            /\ (smoke[id].dates \ used.dates) \cap factors = {}
            /\ \A s \in DOMAIN id.digests : MarketOf[s] = FRENCH_MARKET
=============================================================================
