------------------------------ MODULE PaperStore ------------------------------
(***************************************************************************)
(* The literature store (scripts/fetch_papers.py, literature.yml): one     *)
(* file per announcement day, merged by a daily sweep of a feed that can   *)
(* only be asked for today, and a weekly list rebuilt from the stored days *)
(* on every run.  An absent day was not asked; an empty one was asked and  *)
(* held nothing.  Sweeps are serialised by the workflow's concurrency      *)
(* group; publishing is PublishGenerated's, seen here as landing or not.   *)
(***************************************************************************)
EXTENDS PaperAnswer, FiniteSets, FiniteSetsExt

CONSTANTS
    Papers,
    ArchiveOf,  \* which archive announces a paper
    Wanted,     \* papers in DEFAULT_CATEGORIES
    Clears,     \* papers whose score reaches min_score
    Days,       \* --days
    WeekLen,    \* days of an ISO week
    Alarm,      \* EMPTY_DAY_ALARM
    MaxDay,     \* bound: days modelled
    MaxSweeps,  \* bound: sweeps modelled
    Freezes,    \* whether a feed may still carry an earlier day's answer
    Cuts        \* whether a process may die in the middle of write_text

ASSUME StoreAssumption ==
    /\ ArchiveOf \in [Papers -> 1..Len(Archives)]
    /\ Wanted \subseteq Papers /\ Clears \subseteq Papers
    /\ Days \in Nat /\ WeekLen \in Nat \ {0} /\ Days + 1 >= WeekLen
    /\ Alarm \in Nat \ {0} /\ MaxDay \in Nat \ {0} /\ MaxSweeps \in Nat
    /\ Freezes \in BOOLEAN /\ Cuts \in BOOLEAN

VARIABLES
    day,        \* today, in UTC
    announced,  \* what arXiv announced of each paper on each day
    created,    \* the submission day the harvest and the search report
    branch,     \* registry/literature on main
    tree,       \* the same directory in the running sweep's checkout
    phase,      \* where the running sweep is
    rday,       \* its run date
    sweeps,     \* sweeps started so far
    pending,    \* the day files write_days has still to write
    alarm,      \* whether main returned 1 for the run of empty days
    progress,   \* ghost: how far its store and its report got
    asked,      \* ghost: run dates of the sweeps that got a complete answer
    filed,      \* ghost: those of them whose sweep stored it all and published
    received,   \* ghost: days some answer dated a paper on
    kept,       \* ghost: papers of sweeps that stored and published them all
    spoilt      \* ghost: days whose half-written file was published

runVars == <<phase, rday, sweeps, pending, alarm, progress>>
ghosts == <<asked, filed, received, kept, spoilt>>
arXiv == <<day, announced, created>>
vars == <<arXiv, branch, tree, runVars, ghosts, answerVars>>

AllDays == 1..MaxDay
Week(d) == (d - 1) \div WeekLen
Weeks == {Week(d) : d \in AllDays}

\* announce_type: RSS keeps the first announcement and the cross-lists.
Kinds == {"no", "new", "cross", "replace"}
AnnounceKeep == {"new", "cross"}

Entry == [id : Papers, day : AllDays]
DayFile == [state : {"absent", "unreadable", "read"}, ids : SUBSET Papers]
NoFile == [state |-> "absent", ids |-> {}]
HalfFile == [state |-> "unreadable", ids |-> {}]
WeekFile == [state : {"absent", "unreadable", "read"}, present : SUBSET AllDays,
             missing : SUBSET AllDays, listed : SUBSET Entry]
Directory == [files : [AllDays -> DayFile], weeks : [Weeks -> WeekFile]]
NoWeek == [state |-> "absent", present |-> {}, missing |-> {}, listed |-> {}]

Init ==
    /\ day = 0
    /\ announced = [d \in AllDays |-> [p \in Papers |-> "no"]]
    /\ created = [p \in Papers |-> 1]
    /\ branch = [files |-> [d \in AllDays |-> NoFile], weeks |-> [w \in Weeks |-> NoWeek]]
    /\ tree = branch
    /\ phase = "idle" /\ rday = 1 /\ sweeps = 0 /\ pending = {}
    /\ alarm = FALSE /\ progress = "none"
    /\ asked = {} /\ filed = {} /\ received = {} /\ kept = {} /\ spoilt = {}
    /\ AnswerInit

-----------------------------------------------------------------------------
(* arXiv: a day begins with its announcements.                             *)

Known(p) == \E d \in AllDays : announced[d][p] # "no"

\* (Once the answer is there, today's date is not looked at again.)
NextDay ==
    /\ day < MaxDay /\ phase \in {"idle", "fetching"}
    /\ day' = day + 1
    /\ \E kinds \in [Papers -> Kinds] :
         /\ \A p \in Papers : (kinds[p] = "new" => ~Known(p))
                              /\ (kinds[p] \in {"cross", "replace"} => Known(p))
         /\ announced' = [announced EXCEPT ![day + 1] = kinds]
         /\ \E since \in {day, day + 1} \cap AllDays :
              created' = [p \in Papers |-> IF kinds[p] = "new" THEN since ELSE created[p]]
    /\ UNCHANGED <<branch, tree, runVars, ghosts, answerVars>>

Of(u) == {p \in Papers : ArchiveOf[p] = u}

\* parse_rss: the kept items of the day the feed shows, under the feed's own
\* date or, when that cannot be read, under the run date; or no item at all.
RssBatches(u) ==
    LET Items(d) == {p \in Of(u) : announced[d][p] \in AnnounceKeep}
        Dated(d, as) == {[id |-> p, day |-> as] : p \in Items(d)}
        shown == IF Freezes THEN 1..day ELSE {day}
    IN  {{}} \cup {Dated(d, d) : d \in shown} \cup {Dated(d, rday) : d \in shown}

\* parse_oai: every record stamped since the window opened, under its
\* submission date.  parse_feed: the newest records, whatever their age, as
\* far back as the pages went.
Records(u, since) ==
    {[id |-> p, day |-> created[p]] :
        p \in {q \in Of(u) : \E d \in AllDays : d >= since /\ announced[d][q] # "no"}}
SearchCuts(u) == {{e \in Records(u, 0) : e.day >= oldest} : oldest \in AllDays}

Batches(u) ==
    IF iface = "rss" THEN RssBatches(u)
    ELSE IF iface = "oai" THEN {Records(u, IF rday > Days THEN rday - Days ELSE 0)}
    ELSE SearchCuts(u)

-----------------------------------------------------------------------------
(* The store's own functions.                                              *)

\* Mutant: the day's file is replaced by this run's answer.
MergedReplacing(file, ids) == [state |-> "read", ids |-> ids]
\* write_days: merged with what a readable file holds; anything else is
\* replaced by what this run measured.
Merged(file, ids) ==
    [state |-> "read", ids |-> IF file.state = "read" THEN file.ids \cup ids ELSE ids]

Dates(entries) == {e.day : e \in entries}
OnDay(entries, d) == {e.id : e \in {x \in entries : x.day = d}}

\* Mutant: the whole window is claimed to have been asked.
DaysAskedWindow(r) == {d \in AllDays : d + Days >= r /\ d <= r}
\* days_asked: the run date, whether or not a paper was dated on it.
DaysAsked(r) == {r}

\* Mutant: --days 7 is read as seven days with today.
WindowShort(r) == {d \in AllDays : d + Days > r /\ d <= r}
\* read_window: the last --days days and today.
Window(r) == {d \in AllDays : d + Days >= r /\ d <= r}

\* collect's filter and its first-come deduplication, oldest day first.
Fresh(entries) ==
    LET wanted == {e \in entries : e.id \in Wanted}
    IN  {e \in wanted : \A f \in wanted : f.id = e.id => e.day <= f.day}

Report(files, r) ==
    LET present == {d \in Window(r) : files[d].state = "read"}
    IN  [state |-> "read", present |-> present, missing |-> Window(r) \ present,
         listed |-> Fresh({e \in Entry : e.day \in present /\ e.id \in files[e.day].ids})]

Empty(file) == file.state = "read" /\ file.ids = {}
\* Mutant: the count ends yesterday.
StreakToYesterday(files, r) ==
    Max({n \in 0..(r - 1) : \A d \in (r - n)..(r - 1) : Empty(files[d])})
\* empty_days_in_a_row: stored and empty days ending with the run date.
Streak(files, r) ==
    Max({n \in 0..r : \A d \in (r - n + 1)..r : Empty(files[d])})

-----------------------------------------------------------------------------
(* One sweep: the workflow's job from checkout to commit.                  *)

StartRun(fetch) ==
    /\ phase = "idle" /\ day > 0 /\ sweeps < MaxSweeps
    /\ sweeps' = sweeps + 1
    /\ tree' = branch /\ rday' = day
    /\ UNCHANGED <<pending, alarm, progress>>
    /\ IF fetch
       THEN phase' = "fetching" /\ Begin
       ELSE phase' = "rebuilding" /\ UNCHANGED answerVars
    /\ UNCHANGED <<arXiv, branch, ghosts>>

FetchStep ==
    /\ phase = "fetching"
    /\ (\E batch \in Batches(unit) : ArchiveAnswered(batch)) \/ InterfaceFails
    /\ UNCHANGED <<arXiv, branch, tree, runVars, ghosts>>

Collected ==
    /\ phase = "fetching" /\ iface = "answered"
    /\ phase' = "writing" /\ pending' = Dates(got) \cup DaysAsked(rday)
    /\ asked' = asked \cup {rday} /\ received' = received \cup Dates(got)
    /\ End
    /\ UNCHANGED <<arXiv, branch, tree, rday, sweeps, alarm, progress, filed, kept, spoilt>>

\* No interface answered: collect raises before it touches the store.
FetchFailed ==
    /\ phase = "fetching" /\ iface = "failed"
    /\ phase' = "commit"
    /\ End
    /\ UNCHANGED <<arXiv, branch, tree, rday, sweeps, pending, alarm, progress, ghosts>>

\* write_days goes through the days in order.
Due(d) == \A e \in pending : d <= e

WriteDay ==
    /\ phase = "writing"
    /\ \E d \in pending :
         /\ Due(d)
         /\ tree' = [tree EXCEPT !.files[d] = Merged(@, OnDay(got, d))]
         /\ pending' = pending \ {d}
    /\ IF pending' = {}
       THEN phase' = "rebuilding" /\ progress' = "stored"
       ELSE UNCHANGED <<phase, progress>>
    /\ UNCHANGED <<arXiv, branch, rday, sweeps, alarm, ghosts, answerVars>>

\* The weekly file, and only then the exit code.
Rebuild ==
    /\ phase = "rebuilding"
    /\ tree' = [tree EXCEPT !.weeks[Week(rday)] = Report(tree.files, rday)]
    /\ alarm' = (Streak(tree.files, rday) >= Alarm)
    /\ phase' = "commit"
    /\ progress' = IF progress = "stored" THEN "reported" ELSE "relisted"
    /\ UNCHANGED <<arXiv, branch, rday, sweeps, pending, ghosts, answerVars>>

\* The process dies inside write_text: the file under the pen is cut short.
CutShort ==
    /\ Cuts
    /\ \/ /\ phase = "writing"
          /\ \E d \in pending : Due(d) /\ tree' = [tree EXCEPT !.files[d] = HalfFile]
       \/ /\ phase = "rebuilding"
          /\ tree' = [tree EXCEPT !.weeks[Week(rday)] = [NoWeek EXCEPT !.state = "unreadable"]]
    /\ phase' = "commit" /\ pending' = {}
    /\ UNCHANGED <<arXiv, branch, rday, sweeps, alarm, progress, ghosts, answerVars>>

\* The process dies between two files; the commit step runs if: always().
Die ==
    /\ phase \in {"writing", "rebuilding"}
    /\ phase' = "commit" /\ pending' = {}
    /\ UNCHANGED <<arXiv, branch, tree, rday, sweeps, alarm, progress, ghosts, answerVars>>

\* The checkout and the process are gone.
EndRun ==
    /\ phase' = "idle" /\ pending' = {} /\ alarm' = FALSE /\ progress' = "none"
    /\ tree' = branch' /\ rday' = 1
    /\ Kill

\* The commit step publishes the directory, whatever became of the script.
Commit ==
    /\ phase = "commit"
    /\ branch' = tree
    /\ LET whole == progress \in {"stored", "reported"}
       IN  /\ filed' = IF whole THEN filed \cup {rday} ELSE filed
           /\ kept' = IF whole THEN kept \cup got ELSE kept
    /\ spoilt' = spoilt \cup {d \in AllDays : tree.files[d].state = "unreadable"}
    /\ EndRun
    /\ UNCHANGED <<arXiv, sweeps, asked, received>>

\* The runner dies, or the push is rejected for good: nothing is published.
LoseRun ==
    /\ phase # "idle"
    /\ UNCHANGED branch
    /\ EndRun
    /\ UNCHANGED <<arXiv, sweeps, ghosts>>

\* seed_from_weekly, run by hand: the shortlisted papers of the weekly files
\* are put back under their own days.
Seed ==
    /\ phase = "idle"
    /\ LET rows == UNION {{e \in branch.weeks[w].listed : e.id \in Clears} : w \in Weeks}
       IN  branch' = [branch EXCEPT !.files =
               [d \in AllDays |-> IF d \in Dates(rows) THEN Merged(@[d], OnDay(rows, d)) ELSE @[d]]]
    /\ tree' = branch'
    /\ UNCHANGED <<arXiv, runVars, ghosts, answerVars>>

Next == NextDay \/ (\E fetch \in BOOLEAN : StartRun(fetch))
        \/ FetchStep \/ Collected \/ FetchFailed \/ WriteDay \/ Rebuild \/ Commit
        \/ CutShort \/ Die \/ LoseRun \/ Seed

Spec == Init /\ [][Next]_vars

-----------------------------------------------------------------------------
ArXivTypeOK ==
    /\ day \in 0..MaxDay /\ announced \in [AllDays -> [Papers -> Kinds]]
    /\ created \in [Papers -> AllDays]

RunTypeOK ==
    /\ phase \in {"idle", "fetching", "writing", "rebuilding", "commit"}
    /\ rday \in AllDays /\ sweeps \in 0..MaxSweeps /\ pending \subseteq AllDays
    /\ alarm \in BOOLEAN /\ progress \in {"none", "stored", "reported", "relisted"}

GhostsTypeOK ==
    /\ asked \subseteq AllDays /\ filed \subseteq AllDays /\ received \subseteq AllDays
    /\ kept \subseteq Entry /\ spoilt \subseteq AllDays

TypeOK ==
    /\ AnswerTypeOK /\ got \subseteq Entry
    /\ ArXivTypeOK
    /\ branch \in Directory /\ tree \in Directory
    /\ RunTypeOK
    /\ GhostsTypeOK

\* "A later run must not delete what an earlier one recorded" (write_days):
\* through repeated runs, fallbacks that backfill other days, seeding and lost
\* runs, a stored paper stays in its day's file, unless that very file was
\* once published half-written.
NothingStoredIsLost ==
    \A e \in kept : e.day \notin spoilt => e.id \in branch.files[e.day].ids

\* "A short window reads exactly like a quiet week" (ADR-0021): a day that a
\* published list calls present was asked by some sweep, or papers dated on it
\* came in another day's answer; a day nobody measured is never called quiet.
NoGapPassesForQuiet ==
    \A w \in Weeks : branch.weeks[w].present \subseteq asked \cup received

LastDays == (rday - Alarm + 1)..rday

\* EMPTY_DAY_ALARM: when the sweeps of that many days in a row were answered
\* and no answer ever dated a paper on any of them - a feed whose shape
\* changed, or one frozen on an old day - the job goes red.
SilenceIsRed ==
    (/\ phase = "commit" /\ rday >= Alarm
     /\ \/ progress = "reported" /\ LastDays \subseteq filed \cup {rday}
        \/ progress = "relisted" /\ LastDays \subseteq filed
     /\ LastDays \cap (received \cup spoilt) = {})
    => alarm

\* A week's list is overwritten by every sweep of the week from a window that
\* slides; the papers dated inside the week never slide out of it.
WeekNeverForgets ==
    [][\A w \in Weeks :
         LET InWeek(file) == {e \in file.listed : Week(e.day) = w /\ e.day \notin spoilt'}
         IN  branch'.weeks[w].state = "read" =>
             {e.id : e \in InWeek(branch.weeks[w])}
                 \subseteq {e.id : e \in branch'.weeks[w].listed}]_vars

=============================================================================
