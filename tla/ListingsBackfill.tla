--------------------------- MODULE ListingsBackfill ---------------------------
(***************************************************************************)
(* The weekly US listings and the backfill of their sectors                *)
(* (scripts/fetch_listings.py, scripts/yahoo_profiles.py, listings.yml).   *)
(* Membership has no fallback; a sector comes from the SEC, or, when the   *)
(* SEC is out, from Yahoo, asked symbol by symbol within a budget, or from *)
(* the file of the week before.  The published file and its sidecar are    *)
(* all that one run leaves to the next: the sectors found so far, and the  *)
(* pool of symbols Yahoo answered for and has no sector for.               *)
(*                                                                         *)
(* A sector is told apart by who gave it.  Symbols are numbers, in the     *)
(* order of their names.                                                   *)
(***************************************************************************)
EXTENDS Naturals, SequencesExt

CONSTANTS
    Symbols,
    Etfs,         \* the directory's ETF flag
    Declared,     \* ETFs with a bucket in classification.SECTORS
    Budget,       \* VENDOR_BUDGET
    GiveUpAfter,  \* GIVE_UP_AFTER
    MaxStuck,     \* bound: symbols Yahoo never gives a usable answer for
    MaxChanges    \* bound: changes of the listings and of Yahoo's profiles

ASSUME BackfillAssumption ==
    /\ Symbols \subseteq Nat /\ Etfs \subseteq Symbols /\ Declared \subseteq Etfs
    /\ Budget \in Nat \ {0} /\ GiveUpAfter \in Nat \ {0}
    /\ MaxStuck \in Nat /\ MaxChanges \in Nat

VARIABLES
    listed,   \* the symbols the Nasdaq Trader directories hold
    profile,  \* what Yahoo says of a symbol
    moves,
    sector,   \* us.csv on main: the sector column, "unlisted" for no row
    pool,     \* us.source.json on main: vendor_no_sector
    phase,    \* where this week's run is
    rows,     \* the membership it fetched
    filed,    \* the symbols its SIC join found a bucket for
    queue,    \* the symbols it asks Yahoo about
    asked,    \* how many of them it has asked
    streak,   \* failures in a row
    found,    \* symbols with a bucket
    empty,    \* symbols answered with no sector, in order
    alive,    \* whether a session is there and serves
    served,   \* ghost: whether the last run's session served it to its end
    told      \* ghost: symbols Yahoo has ever answered for with no sector

world == <<listed, profile, moves>>
published == <<sector, pool>>
backfillRun == <<phase, rows, filed, queue, asked, streak, found, empty, alive>>
backfillVars == <<world, published, backfillRun, served, told>>

Operating == Symbols \ Etfs
Buckets == {"sec", "yahoo", "declared"}

\* A sector with a bucket, a label no bucket covers, no sector, no answer.
Profiles == {"sector", "unmapped", "none", "refused"}
Stuck(p) == {s \in Operating : p[s] \in {"unmapped", "refused"}}

BackfillInit ==
    /\ listed = Symbols /\ moves = 0
    /\ profile \in [Operating -> Profiles] /\ Cardinality(Stuck(profile)) <= MaxStuck
    /\ sector = [s \in Symbols |-> "unlisted"] /\ pool = <<>>
    /\ phase = "idle" /\ rows = {} /\ filed = {} /\ queue = <<>>
    /\ asked = 0 /\ streak = 0 /\ found = {} /\ empty = <<>> /\ alive = FALSE
    /\ served = FALSE /\ told = {}

-----------------------------------------------------------------------------
(* The world: a listing comes or goes, a profile appears or is withdrawn.  *)
(* A run reads the directories once and asks about a symbol once, so that  *)
(* a change during it is one before it or one after it.                    *)

Move == phase = "idle" /\ moves < MaxChanges /\ moves' = moves + 1

ListingMoves(s) ==
    /\ Move
    /\ listed' = IF s \in listed THEN listed \ {s} ELSE listed \cup {s}
    /\ UNCHANGED <<profile, published, backfillRun, served, told>>

ProfileMoves(s, p) ==
    /\ Move
    /\ profile' = [profile EXCEPT ![s] = p]
    /\ Cardinality(Stuck(profile')) <= MaxStuck
    /\ UNCHANGED <<listed, published, backfillRun, served, told>>

-----------------------------------------------------------------------------
(* Whom to ask                                                             *)

FirstOf(s, n) == SubSeq(s, 1, IF n < Len(s) THEN n ELSE Len(s))

\* Mutant: symbols found to have no sector are asked again every week.
NeedingAgain == {s \in rows \ Etfs : sector[s] \notin Buckets}
\* Operating companies with no bucket yet and not in the pool.
Needing == {s \in rows \ Etfs : sector[s] \notin Buckets} \ ToSet(pool)

\* New symbols first, in the order of their names, then the pool's oldest.
VendorQueue ==
    LET new == FirstOf(SetToSortSeq(Needing, <), Budget)
    IN  new \o FirstOf(pool, Budget - Len(new))

\* The symbols of a sequence that a set holds, in their order.  SelectSeq does
\* the same; there is nothing to reason about it with.
Keeping(q, S) ==
    LET upTo[n \in 0 .. Len(q)] ==
            IF n = 0 THEN <<>>
            ELSE IF q[n] \in S THEN Append(upTo[n - 1], q[n]) ELSE upTo[n - 1]
    IN  upTo[Len(q)]

\* The pool and whatever is new, no duplicates.
Merged(known, more) == known \o Keeping(more, Symbols \ ToSet(known))

\* Mutant: the pool keeps its order.
Unrotated(known, touched) == known
\* The symbols just asked go to the back.
Rotated(known, touched) ==
    Keeping(known, Symbols \ touched) \o Keeping(known, touched)

AskedOf(q) == ToSet(SubSeq(q, 1, asked))

\* Mutant: what was queued and has no bucket is taken for answered.
NextPoolOfQueue ==
    Rotated(Merged(pool, Keeping(queue, Symbols \ found)), AskedOf(queue))
\* Only symbols answered join, only symbols asked go to the back.
NextEmptyPool == Rotated(Merged(pool, empty), AskedOf(queue))

-----------------------------------------------------------------------------
(* One run                                                                 *)

\* The directories answered.  The job's group holds back a second run.
StartRun ==
    /\ phase = "idle"
    /\ rows' = listed /\ listed # {} /\ phase' = "sectors"
    /\ UNCHANGED <<world, published, filed, queue, asked, streak, found, empty,
                   alive, served, told>>

\* The SEC answered: the SIC join covers some of the companies, nobody asks Yahoo.
SecAnswers ==
    /\ phase = "sectors"
    /\ filed' \in SUBSET (rows \ Etfs)
    /\ phase' = "write"
    /\ UNCHANGED <<world, published, rows, queue, asked, streak, found, empty,
                   alive, served, told>>

\* The SEC is out, or its contact address is not set.  With nobody left
\* to ask no session is opened, and nobody goes unserved.
SecRefuses ==
    /\ phase = "sectors"
    /\ queue' = VendorQueue
    /\ IF queue' = <<>> THEN phase' = "write" /\ alive' = TRUE
                        ELSE phase' = "session" /\ UNCHANGED alive
    /\ UNCHANGED <<world, published, rows, filed, asked, streak, found, empty,
                   served, told>>

\* The cookie and the crumb, or neither after three tries (ProfileError).
OpenSession ==
    /\ phase = "session"
    /\ \/ alive' = TRUE /\ phase' = "asking"
       \/ alive' = FALSE /\ phase' = "write"
    /\ UNCHANGED <<world, published, rows, filed, queue, asked, streak, found,
                   empty, served, told>>

\* From here on every request of this session is refused.
SessionDies ==
    /\ phase = "asking" /\ alive
    /\ alive' = FALSE
    /\ UNCHANGED <<world, published, phase, rows, filed, queue, asked, streak,
                   found, empty, served, told>>

Asking(s) ==
    /\ phase = "asking"
    /\ asked < Len(queue) /\ streak < GiveUpAfter
    /\ s = queue[asked + 1]
    /\ asked' = asked + 1
    /\ UNCHANGED <<world, published, phase, rows, filed, queue, alive, served>>

Answered(s) == Asking(s) /\ alive /\ streak' = 0

AnsweredWithSector(s) ==
    /\ Answered(s) /\ profile[s] = "sector"
    /\ found' = found \cup {s}
    /\ UNCHANGED <<empty, told>>

AnsweredWithoutSector(s) ==
    /\ Answered(s) /\ profile[s] = "none"
    /\ empty' = Append(empty, s) /\ told' = told \cup {s}
    /\ UNCHANGED found

\* A label no bucket covers is reported and otherwise forgotten.
AnsweredUnmapped(s) ==
    /\ Answered(s) /\ profile[s] = "unmapped"
    /\ UNCHANGED <<found, empty, told>>

RequestFails(s) ==
    /\ Asking(s) /\ (~alive \/ profile[s] = "refused")
    /\ streak' = streak + 1
    /\ UNCHANGED <<found, empty, told>>

HarvestEnds ==
    /\ phase = "asking"
    /\ asked = Len(queue) \/ streak >= GiveUpAfter
    /\ phase' = "write"
    /\ UNCHANGED <<world, published, rows, filed, queue, asked, streak, found,
                   empty, alive, served, told>>

-----------------------------------------------------------------------------
(* The file                                                                *)

\* An ETF takes a declared bucket only; a company its SIC, then the vendor.
ThisWeek(s) ==
    IF s \in Etfs THEN (IF s \in Declared THEN "declared" ELSE "none")
    ELSE IF s \in filed THEN "sec"
    ELSE IF s \in found THEN "yahoo" ELSE "none"

Carried(s) == IF sector[s] \in Buckets THEN sector[s] ELSE "none"

\* Mutant: the previous file is read only when both sources are out.
BuiltOnOutage(s) ==
    IF s \notin rows THEN "unlisted"
    ELSE IF filed = {} /\ found = {} THEN Carried(s) ELSE ThisWeek(s)
\* This week's sources, then the previous file, then nowhere.
Built(s) ==
    IF s \notin rows THEN "unlisted"
    ELSE IF ThisWeek(s) # "none" THEN ThisWeek(s) ELSE Carried(s)

EndRun ==
    /\ phase' = "idle" /\ rows' = {} /\ filed' = {} /\ queue' = <<>>
    /\ asked' = 0 /\ streak' = 0 /\ found' = {} /\ empty' = <<>> /\ alive' = FALSE
    /\ UNCHANGED <<world, told>>

\* The list and its sidecar are written and the commit step publishes both,
\* whatever the coverage: a share under the floor only turns the job red.
Publish ==
    /\ phase = "write"
    /\ sector' = [s \in Symbols |-> Built(s)]
    /\ pool' = NextEmptyPool
    /\ served' = alive
    /\ EndRun

\* A directory or the runner fails, or the push is rejected for good.
LoseRun ==
    /\ phase # "idle"
    /\ served' = FALSE
    /\ UNCHANGED published
    /\ EndRun

Step ==
    \/ StartRun \/ SecAnswers \/ SecRefuses \/ OpenSession
    \/ \E s \in Operating : \/ AnsweredWithSector(s) \/ AnsweredWithoutSector(s)
                            \/ AnsweredUnmapped(s) \/ RequestFails(s)
    \/ HarvestEnds \/ Publish

BackfillNext ==
    \/ Step \/ SessionDies \/ LoseRun
    \/ \E s \in Symbols : ListingMoves(s)
    \/ \E s \in Operating, p \in Profiles : ProfileMoves(s, p)

\* The cron starts a run every week and the runner carries it on.
BackfillSpec == BackfillInit /\ [][BackfillNext]_backfillVars /\ WF_backfillVars(Step)

-----------------------------------------------------------------------------
\* "Only symbols Yahoo actually answered about may join the pool"
\* (next_empty_pool): a symbol nobody asked, or whose session died, is never
\* recorded as one without a sector, whatever runs died or were lost before.
PoolWasAnswered == ToSet(pool) \subseteq told

\* A sector once found is carried from file to file as long as the symbol is
\* listed, through weeks in which any of the sources covers only a part.
SectorsOutliveOutages ==
    [][\A s \in Symbols :
         sector[s] \in Buckets /\ sector'[s] # "unlisted"
             => sector'[s] \in Buckets]_backfillVars

\* "Each run only asks about the symbols that still have none and coverage
\* climbs": while Yahoo serves now and then, every listed company it has an
\* answer for gets its sector or is known to have none, provided that the
\* companies it never answers for are fewer than the budget and than the
\* failures that end a run.
EverybodyGetsAnAnswer ==
    \A s \in Operating :
        []<>served /\ <>[](s \in listed /\ profile[s] \in {"sector", "none"})
            => <>[](sector[s] \in Buckets \/ s \in ToSet(pool))

\* "Never re-asking about a symbol would make a permanent blind spot"
\* (vendor_queue): every symbol of the pool is asked again and again.
PoolIsAskedAgain ==
    \A s \in Operating :
        []<>served /\ <>(s \in ToSet(pool)) => []<>(s \in AskedOf(queue))
=============================================================================
