---------------------------- MODULE SubmissionDesk ----------------------------
(* The desk's submissions: declarations under git, the pin of a run, the records
   it writes and the status derived from them (scripts/submit_alpha.py,
   core/repro.py, core/backtest/prereg.py, core/backtest/trials.py and, through
   Lifecycle, core/alphas/lifecycle.py).

   A working tree holds what git tracks: the declaration of each alpha and the
   search grid of the strategy that implements it, both sets of points.  The
   backtest is outside: whether G0-G6 pass is a free choice.  Every other gate
   is its code.  One run is in progress at a time; Overlap says whether a person
   edits and commits in the same tree meanwhile, Scratch whether runs with
   --allow-dirty happen.  MaxCommits, MaxRuns, MaxEdits and MaxDecisions bound
   the counts. *)
EXTENDS Lifecycle

CONSTANTS Alphas, Points, Declarations, Grids, FirstTrees, UniverseOf, Words,
          Overlap, Scratch, MaxCommits, MaxRuns, MaxEdits, MaxDecisions

\* What registry/alphas/<id>.yaml can be.  A form leaves the rationale empty;
\* a broken file raises.  chosen is empty or the one configuration to report.
Declaration == [file : {"none", "broken", "form", "declared"},
                points : SUBSET Points, chosen : SUBSET Points]

\* A grid is the search of the strategy that implements the alpha, empty when the
\* map of implementations has no entry for it; a strategy goes by its alpha's name.
Tree == [declarations : [Alphas -> Declarations], grids : [Alphas -> Grids]]

Universes == {UniverseOf[a] : a \in Alphas}

ASSUME TreesAssumption ==
    /\ Declarations \subseteq Declaration
    /\ Grids \subseteq SUBSET Points
    /\ FirstTrees \subseteq Tree

ASSUME BoundsAssumption ==
    /\ {Overlap, Scratch} \subseteq BOOLEAN
    /\ {MaxCommits, MaxRuns, MaxEdits, MaxDecisions} \subseteq Nat

VARIABLES tree,      \* the working copy
          commits,   \* the trees git has, oldest first; a sha is an index
          unfiled,   \* records or manifests of a run are there and not committed
          records,   \* the files of registry/submissions, by run id and alpha
          ledger,    \* registry/alphas/lifecycle.yaml
          phase,     \* how far the run in progress is
          scratch,   \* it was started with --allow-dirty
          plan,      \* the alphas it has still to judge
          read,      \* the declarations as it read them, and whether committed
          code,      \* which strategy it runs for each, and the grid of it
          desk,      \* its desk-wide trial count
          pin,       \* its code pin
          panel,     \* the universe it is at
          seen,      \* the readings of git it has made so far, a history
          outcome,   \* how the last run ended
          runs, edits

tracked == <<tree, commits, unfiled>>
job == <<phase, scratch, plan, read, code, desk, pin, panel, seen>>
vars == <<tracked, records, ledger, job, outcome, runs, edits>>

HEAD == commits[Len(commits)]

\* Mutant: untracked files do not count.
DirtyIfModified == tree # HEAD

\* Mutant: only the code the run executes is asked about.
DirtyIfCode == tree.grids # HEAD.grids \/ unfiled

\* git status --porcelain is not empty: edits, and untracked files too.
Dirty == tree # HEAD \/ unfiled

\* What a look at git says: the commit, and whether the tree is another.
Reading == [sha |-> Len(commits), dirty |-> Dirty]

Declared(t) == {a \in Alphas : t.declarations[a].file # "none"}

------------------------------------------------------------------------------
(* Declarations and the desk's count. *)

\* git has the file and the working copy matches it.
TrackedAndClean(a) == tree.declarations[a] = HEAD.declarations[a]

Unreadable == [measured |-> FALSE, total |-> 0]

\* One declaration that does not count makes the whole count a refusal.
DeskTrials(t, clean) ==
    IF /\ Declared(t) # {}
       /\ \A a \in Declared(t) : /\ t.declarations[a].file # "broken"
                                 /\ clean[a]
                                 /\ t.declarations[a].points # {}
    THEN [measured |-> TRUE,
          total |-> MapThenSumSet(LAMBDA a : Cardinality(t.declarations[a].points), Declared(t))]
    ELSE Unreadable

\* G1 of a run that searched grid under the declaration d.
Preregistered(d, committed, grid) ==
    /\ d.file = "declared"
    /\ d.points # {}
    /\ Cardinality(grid) <= Cardinality(d.points)
    /\ committed

\* Every point the code searches is among the declared values.
WithinDeclaration(grid, d) == grid \subseteq d.points

------------------------------------------------------------------------------
(* Records and the status. *)

\* The run id is a digest of the commit, the snapshot and the seed.
RunId(p, u) == [sha |-> p.sha, universe |-> u]

Key(p, a) == [run |-> RunId(p, UniverseOf[a]), alpha |-> a]

Submissions(a) == {records[k] : k \in {l \in DOMAIN records : l.alpha = a /\ records[l].readable}}

\* derive raises when the ledger is malformed: no alpha has a status then.
StatusOf(a) == Derive(a, Submissions(a), Entries(ledger))

Readable == ledger.file # "malformed"

------------------------------------------------------------------------------
NoDeclaration == [file |-> "none", points |-> {}, chosen |-> {}]
NoPin == [sha |-> 0, dirty |-> FALSE]
NoPanel == "none"
Unread == [a \in Alphas |-> [declaration |-> NoDeclaration, committed |-> FALSE]]
NoCode == [a \in Alphas |-> [strategy |-> a, grid |-> {}]]

\* The process ends: what it read is gone, what it wrote stays.
Stop(how) ==
    /\ phase' = "idle" /\ scratch' = FALSE /\ plan' = {} /\ seen' = {}
    /\ read' = Unread /\ code' = NoCode
    /\ desk' = Unreadable /\ pin' = NoPin /\ panel' = NoPanel
    /\ outcome' = how

Init ==
    /\ tree \in FirstTrees
    /\ commits = <<tree>>
    /\ unfiled = FALSE
    /\ records = [k \in {} |-> {}]
    /\ ledger = [file |-> "entries", entries |-> <<>>]
    /\ phase = "idle" /\ scratch = FALSE /\ plan = {} /\ seen = {}
    /\ read = Unread /\ code = NoCode
    /\ desk = Unreadable /\ pin = NoPin /\ panel = NoPanel
    /\ outcome = "none" /\ runs = 0 /\ edits = 0

(* People at the working tree. *)

AtTheTree == phase = "idle" \/ Overlap

EditDeclaration(a, d) ==
    /\ AtTheTree /\ edits < MaxEdits
    /\ d # tree.declarations[a]
    /\ tree' = [tree EXCEPT !.declarations[a] = d]
    /\ edits' = edits + 1
    /\ UNCHANGED <<commits, unfiled, records, ledger, job, outcome, runs>>

EditCode(a, g) ==
    /\ AtTheTree /\ edits < MaxEdits
    /\ g # tree.grids[a]
    /\ tree' = [tree EXCEPT !.grids[a] = g]
    /\ edits' = edits + 1
    /\ UNCHANGED <<commits, unfiled, records, ledger, job, outcome, runs>>

Commit ==
    /\ AtTheTree /\ Dirty /\ Len(commits) < MaxCommits
    /\ commits' = Append(commits, tree)
    /\ unfiled' = FALSE
    /\ UNCHANGED <<tree, records, ledger, job, outcome, runs, edits>>

\* The file is rewritten whole, a lifecycle.yaml that was lost or broken too.
Decide(a, to) ==
    /\ ledger.file = "entries" /\ Len(ledger.entries) < MaxDecisions
    /\ ledger' = [ledger EXCEPT !.entries = Append(@, [alpha |-> a, to |-> to])]
    /\ UNCHANGED <<tracked, records, job, outcome, runs, edits>>

\* A decision without an author breaks the file, the author mends it.
SpoilLedger ==
    /\ MaxDecisions > 0
    /\ ledger' = [ledger EXCEPT !.file = IF @ = "malformed" THEN "entries" ELSE "malformed"]
    /\ UNCHANGED <<tracked, records, job, outcome, runs, edits>>

LoseLedger ==
    /\ MaxDecisions > 0 /\ ledger.file # "missing"
    /\ ledger' = [file |-> "missing", entries |-> <<>>]
    /\ UNCHANGED <<tracked, records, job, outcome, runs, edits>>

------------------------------------------------------------------------------
(* A run of submit_alpha. *)

\* The plans a command line can ask for, a strategy for every alpha of them.
\* --all takes every declaration and wants the map to name exactly those; a run
\* of one alpha takes the strategy of the map or, with --strategy, any other.
Wanted ==
    {p \in {[a \in Declared(tree) |-> a]} :
        \A a \in Alphas : a \in Declared(tree) <=> tree.grids[a] # {}}
    \cup {[a \in {pair[1]} |-> pair[2]] : pair \in Alphas \X {s \in Alphas : tree.grids[s] # {}}}

\* Every planned declaration loads and names what it reports, or nothing runs.
Prepared(a) ==
    /\ tree.declarations[a].file \notin {"none", "broken"}
    /\ tree.declarations[a].chosen # {}

\* A run that is refused here has read files and changed nothing.
Prepare(p, allowDirty) ==
    /\ phase = "idle" /\ runs < MaxRuns
    /\ DOMAIN p # {} /\ \A a \in DOMAIN p : Prepared(a)
    /\ phase' = "prepared"
    /\ scratch' = allowDirty /\ plan' = DOMAIN p /\ seen' = {Reading}
    /\ read' = [a \in Alphas |->
                  IF a \in DOMAIN p
                  THEN [declaration |-> tree.declarations[a], committed |-> TrackedAndClean(a)]
                  ELSE Unread[a]]
    /\ code' = [a \in Alphas |->
                  IF a \in DOMAIN p THEN [strategy |-> p[a], grid |-> tree.grids[p[a]]]
                  ELSE NoCode[a]]
    /\ runs' = runs + 1
    /\ outcome' = "none"
    /\ UNCHANGED <<tracked, records, ledger, desk, pin, panel, edits>>

CountDesk ==
    /\ phase = "prepared"
    /\ phase' = "counted"
    /\ desk' = DeskTrials(tree, [a \in Alphas |-> TrackedAndClean(a)])
    /\ seen' = seen \cup {Reading}
    /\ UNCHANGED <<tracked, records, ledger, scratch, plan, read, code, pin, panel, outcome,
                   runs, edits>>

\* Universes whose files are not there, or do not load, are refused before the pin.
Load(held) ==
    /\ phase = "counted"
    /\ LET left == {a \in plan : UniverseOf[a] \in held}
       IN \/ /\ left # {}
             /\ phase' = "loaded" /\ plan' = left
             /\ UNCHANGED <<scratch, read, code, desk, pin, panel, seen, outcome>>
          \/ left = {} /\ Stop("refused")
    /\ UNCHANGED <<tracked, records, ledger, runs, edits>>

\* pin_current: taken once, before the run has written anything.
TakePin ==
    /\ phase = "loaded"
    /\ \/ /\ Dirty => scratch
          /\ phase' = "judging"
          /\ pin' = Reading
          /\ UNCHANGED <<scratch, plan, read, code, desk, panel, seen, outcome>>
       \/ Dirty /\ ~scratch /\ Stop("dirty")
    /\ UNCHANGED <<tracked, records, ledger, runs, edits>>

\* Mutant: the commit is asked for again at every universe.
PinOfHead(u) ==
    IF Dirty /\ ~scratch THEN Stop("dirty")
    ELSE /\ pin' = Reading
         /\ panel' = u
         /\ UNCHANGED <<phase, scratch, plan, read, code, desk, seen, outcome>>

\* for_snapshot: the same code state, this universe's snapshot.
PinFor(u) ==
    /\ panel' = u
    /\ UNCHANGED <<phase, scratch, plan, read, code, desk, pin, seen, outcome>>

\* write_manifest may leave a new file, or refuse the whole universe.
StartUniverse(u) ==
    /\ phase = "judging" /\ panel = NoPanel
    /\ \E a \in plan : UniverseOf[a] = u
    /\ \/ PinFor(u) /\ unfiled' = TRUE
       \/ PinFor(u) /\ unfiled' = unfiled
       \/ /\ plan' = {a \in plan : UniverseOf[a] # u}
          /\ unfiled' = unfiled
          /\ UNCHANGED <<phase, scratch, read, code, desk, pin, panel, seen, outcome>>
    /\ UNCHANGED <<tree, commits, records, ledger, runs, edits>>

EndUniverse ==
    /\ phase = "judging" /\ panel # NoPanel
    /\ \A a \in plan : UniverseOf[a] # panel
    /\ panel' = NoPanel
    /\ UNCHANGED <<tracked, records, ledger, phase, scratch, plan, read, code, desk, pin, seen,
                   outcome, runs, edits>>

\* The record submit returns for one alpha.  G7 reads a paper record that the
\* engine never makes; the desk's deflation refuses a count that is not one.  steady
\* is history: every look the run took at git showed the clean commit of its pin.
Record(a, approved, deflated) ==
    [readable |-> TRUE, approved |-> approved,
     passed |-> (IF Preregistered(read[a].declaration, read[a].committed, code[a].grid)
                 THEN {"G1_preregistration"} ELSE {})
                \cup (IF deflated THEN {"G4_desk_multiplicity"} ELSE {}),
     declaration |-> read[a].declaration, committed |-> read[a].committed,
     strategy |-> code[a].strategy, searched |-> code[a].grid, desk |-> desk,
     dirty |-> pin.dirty, run |-> runs, steady |-> seen = {[sha |-> pin.sha, dirty |-> FALSE]}]

HalfARecord == [readable |-> FALSE]

\* A file of that name is overwritten.
Written(k, content) ==
    [l \in DOMAIN records \cup {k} |-> IF l = k THEN content ELSE records[l]]

\* The declared grid and the declared choice, then the engine, then the file.
Judge(a) ==
    /\ phase = "judging" /\ a \in plan /\ UniverseOf[a] = panel
    /\ plan' = plan \ {a}
    /\ \/ /\ WithinDeclaration(code[a].grid, read[a].declaration)
          /\ read[a].declaration.chosen \subseteq code[a].grid
          /\ \E approved \in BOOLEAN, deflated \in {FALSE, desk.measured} :
                 /\ deflated => Cardinality(code[a].grid) <= desk.total
                 /\ records' = Written(Key(pin, a), Record(a, approved, deflated))
          /\ unfiled' = TRUE
       \/ UNCHANGED <<records, unfiled>>      \* NotSubmittable, or the engine raises
    /\ UNCHANGED <<tree, commits, ledger, phase, scratch, read, code, desk, pin, panel, seen,
                   outcome, runs, edits>>

\* The process dies while it writes: half a record is under that name.
DieWriting(a) ==
    /\ phase = "judging" /\ a \in plan /\ UniverseOf[a] = panel
    /\ records' = Written(Key(pin, a), HalfARecord)
    /\ unfiled' = TRUE
    /\ Stop("died")
    /\ UNCHANGED <<tree, commits, ledger, runs, edits>>

Finish ==
    /\ phase = "judging" /\ plan = {} /\ panel = NoPanel
    /\ Stop("done")
    /\ UNCHANGED <<tracked, records, ledger, runs, edits>>

\* Between two steps it is killed, and ends like a run that was refused.
Die ==
    /\ phase # "idle"
    /\ Stop("died")
    /\ UNCHANGED <<tracked, records, ledger, runs, edits>>

Next ==
    \/ \E a \in Alphas, d \in Declarations : EditDeclaration(a, d)
    \/ \E a \in Alphas, g \in Grids : EditCode(a, g)
    \/ Commit
    \/ \E a \in Alphas, to \in Words : Decide(a, to)
    \/ SpoilLedger \/ LoseLedger
    \/ \E p \in Wanted, allowDirty \in {FALSE, Scratch} : Prepare(p, allowDirty)
    \/ CountDesk
    \/ \E held \in SUBSET Universes : Load(held)
    \/ TakePin
    \/ \E u \in Universes : StartUniverse(u)
    \/ EndUniverse
    \/ \E a \in Alphas : Judge(a) \/ DieWriting(a)
    \/ Finish \/ Die

Spec == Init /\ [][Next]_vars

------------------------------------------------------------------------------
AllCommitted == [a \in Alphas |-> TRUE]

\* A record of a clean pin says what its commit says: the declaration, the grid
\* that was searched and the desk's count can be read again from the sha it
\* carries (core/backtest/trials.py:10-14, core/repro.py:10-13), unless the tree
\* was another at one of the run's looks at it.
RecordMatchesPin ==
    \A k \in DOMAIN records :
        records[k].readable /\ ~records[k].dirty /\ records[k].steady =>
            LET t == commits[k.run.sha] IN
            /\ records[k].declaration = t.declarations[k.alpha] /\ records[k].committed
            /\ records[k].searched = t.grids[records[k].strategy]
            /\ records[k].desk = DeskTrials(t, AllCommitted)

\* "A submission's desk count is therefore reproducible from its own pin"
\* (core/backtest/trials.py:14-15): of every record of a clean pin.
CountComesFromThePin ==
    \A k \in DOMAIN records :
        records[k].readable /\ ~records[k].dirty =>
            records[k].desk = DeskTrials(commits[k.run.sha], AllCommitted)

\* Nobody stands above proposed on a search that was not declared first: behind
\* the status is a record that passed, and some commit up to the one it is pinned
\* to held, complete, the very declaration it was judged under, with every point
\* it searched (core/alphas/lifecycle.py:92-103, ADR-0035).
EvidenceWasDeclared ==
    Readable => \A a \in Alphas :
        RANK[StatusOf(a)] > RANK["proposed"] =>
            \E k \in DOMAIN records :
                /\ k.alpha = a /\ records[k].readable /\ records[k].approved
                /\ records[k].declaration.file = "declared"
                /\ records[k].searched \subseteq records[k].declaration.points
                /\ \E n \in 1 .. k.run.sha : commits[n].declarations[a] = records[k].declaration

\* "a scratch number can be produced but cannot enter the gate pipeline wearing a
\* commit hash" (registry/decisions/ADR-0006:57-58): what stands above proposed
\* rests on a record of a clean tree.
NoScratchEvidence ==
    Readable => \A a \in Alphas :
        RANK[StatusOf(a)] > RANK["proposed"] =>
            \E k \in DOMAIN records : /\ k.alpha = a /\ records[k].readable
                                      /\ records[k].approved /\ ~records[k].dirty

\* Whatever the order of the entries and whoever else they are about, an alpha
\* stands at the lowest of its evidence and of the lowering words said of it.
StandsAtTheLowest ==
    Readable => \A a \in Alphas :
        StatusOf(a) = Lowest(a, Submissions(a), Entries(ledger))

\* A run never refuses a tree for what it wrote there itself
\* (registry/decisions/ADR-0048): refused as dirty, it had found the tree dirty
\* before it wrote anything, or somebody has edited a tracked file.
NotRefusedForItsOwnOutput ==
    [][outcome' = "dirty" /\ outcome # "dirty" =>
          tree # HEAD \/ \E reading \in seen : reading.dirty]_vars

\* Only a measurement raises: an alpha comes to stand higher in the step that
\* writes a record of its own, or when the ledger that held it down is lost
\* (core/alphas/lifecycle.py:10-21).
OnlyMeasurementRaises ==
    [][\A a \in Alphas :
          Readable /\ Readable' /\ RANK[StatusOf(a)'] > RANK[StatusOf(a)] =>
              Submissions(a)' # Submissions(a) \/ ledger'.file = "missing"]_vars

\* Verdicts are "new for every run and not overwritten"
\* (registry/decisions/ADR-0036:41-42).
NothingIsOverwritten ==
    [][\A k \in DOMAIN records :
          /\ k \in DOMAIN records'
          /\ records[k].readable => records'[k] = records[k]]_vars

\* Only a scratch run puts its output where there is a file already, whole or
\* half: what a run leaves makes the tree dirty until a commit changes the sha, so
\* no other run of a clean tree gets its run id.
OnlyScratchOverwrites ==
    [][\A k \in DOMAIN records :
          /\ k \in DOMAIN records'
          /\ records'[k] # records[k] => pin.dirty]_vars

\* One run seals one code state: its records share the commit, the dirty flag
\* and the desk's count, whatever is committed meanwhile (ADR-0048).
OneCodePerRun ==
    \A k, l \in DOMAIN records :
        /\ records[k].readable /\ records[l].readable
        /\ records[k].run = records[l].run
        => /\ k.run.sha = l.run.sha
           /\ records[k].dirty = records[l].dirty
           /\ records[k].desk = records[l].desk

==============================================================================
