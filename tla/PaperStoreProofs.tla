--------------------------- MODULE PaperStoreProofs ---------------------------
(***************************************************************************)
(* The literature store keeps what it was given, for any papers, archives, *)
(* windows, alarms and bounds.                                             *)
(***************************************************************************)
EXTENDS PaperStore, WellFoundedInduction, TLAPS

\* The directory's file of the entry's day is readable and lists its paper.
Holds(files, e) == files[e.day].state = "read" /\ e.id \in files[e.day].ids

\* A sweep runs on a day arXiv has begun.
SweepsHaveADay == phase # "idle" => day >= 1

\* The store is complete only after the last pending day was written.
NotStoredYet == phase \in {"idle", "fetching", "writing"} => progress = "none"

\* Half-written files on the branch are accounted for.
HalvesAreSpoilt == \A d \in AllDays : branch.files[d].state = "unreadable" => d \in spoilt

\* The checkout never holds less of a day than the branch, unless the day's
\* file was cut, which ends the script.
TreeKeepsBranch ==
    phase # "idle" =>
        \A d \in AllDays :
            branch.files[d].state = "read" =>
                \/ phase = "commit" /\ tree.files[d].state = "unreadable"
                \/ /\ tree.files[d].state = "read"
                   /\ branch.files[d].ids \subseteq tree.files[d].ids

\* While days are pending, every paper of the answer is pending or written.
WrittenOrPending ==
    phase = "writing" => \A e \in got : e.day \in pending \/ Holds(tree.files, e)

StoredIsWritten ==
    progress \in {"stored", "reported"} => \A e \in got : Holds(tree.files, e)

KeptIsHeld == \A e \in kept : e.day \notin spoilt => Holds(branch.files, e)

IInv ==
    /\ TypeOK
    /\ SweepsHaveADay
    /\ NotStoredYet
    /\ HalvesAreSpoilt
    /\ TreeKeepsBranch
    /\ WrittenOrPending
    /\ StoredIsWritten
    /\ KeptIsHeld

-----------------------------------------------------------------------------
(* What the operators return.                                              *)

\* Every answer of an interface names papers on days of the model.
LEMMA BatchesAreEntries ==
    ASSUME TypeOK, day >= 1, NEW u, NEW batch \in Batches(u)
    PROVE  batch \subseteq Entry
<1> USE StoreAssumption DEF AllDays
<1>1. rday \in AllDays /\ day \in AllDays /\ created \in [Papers -> AllDays]
  BY DEF TypeOK, ArXivTypeOK, RunTypeOK
<1>2. \A r : {[id |-> p, day |-> created[p]] :
                 p \in {q \in Of(u) : \E d \in AllDays : d >= r /\ announced[d][q] # "no"}}
             \subseteq Entry
  BY <1>1 DEF Of, Entry
<1>3. \A r : Records(u, r) \subseteq Entry
  BY <1>2 DEF Records
<1>4. CASE iface = "rss"
  <2>1. batch \in RssBatches(u)
    BY <1>4 DEF Batches
  <2> QED
    BY <1>1, <2>1 DEF RssBatches, Of, Entry
<1>5. CASE iface # "rss"
  <2>1. \/ batch = Records(u, IF rday > Days THEN rday - Days ELSE 0)
        \/ \E oldest \in AllDays : batch = {e \in Records(u, 0) : e.day >= oldest}
    BY <1>5 DEF Batches, SearchCuts
  <2> QED
    BY <1>3, <2>1
<1> QED
  BY <1>4, <1>5

\* A merged file is readable, holds what it is given and keeps what it held.
LEMMA MergedKeeps ==
    ASSUME NEW file \in DayFile, NEW ids \in SUBSET Papers
    PROVE  /\ Merged(file, ids) \in DayFile
           /\ Merged(file, ids).state = "read"
           /\ ids \subseteq Merged(file, ids).ids
           /\ file.state = "read" => file.ids \subseteq Merged(file, ids).ids
  BY DEF Merged, DayFile

LEMMA OnDayArePapers ==
    ASSUME NEW entries \in SUBSET Entry, NEW d
    PROVE  OnDay(entries, d) \in SUBSET Papers
  BY DEF OnDay, Entry

LEMMA ReportIsAWeekFile ==
    ASSUME NEW files, NEW r
    PROVE  Report(files, r) \in WeekFile
<1> DEFINE present == {d \in Window(r) : files[d].state = "read"}
           entries == {e \in Entry : e.day \in present /\ e.id \in files[e.day].ids}
<1>1. present \subseteq AllDays /\ Window(r) \ present \subseteq AllDays
  BY DEF Window
<1>2. Fresh(entries) \subseteq Entry
  BY DEF Fresh
<1>3. Report(files, r) = [state |-> "read", present |-> present,
                          missing |-> Window(r) \ present, listed |-> Fresh(entries)]
  BY DEF Report
<1> QED
  BY <1>1, <1>2, <1>3 DEF WeekFile

-----------------------------------------------------------------------------
(* Type correctness.                                                       *)

LEMMA TypeInit == Init => TypeOK
<1> SUFFICES ASSUME Init PROVE TypeOK
  OBVIOUS
<1> USE StoreAssumption, ArchivesAssumption
<1>1. AnswerTypeOK /\ got \subseteq Entry
  BY DEF Init, AnswerInit, AnswerTypeOK, Interfaces
<1>2. 1 \in AllDays
  BY DEF AllDays
<1>3. [d \in AllDays |-> NoFile] \in [AllDays -> DayFile]
  BY DEF NoFile, DayFile
<1>4. [w \in Weeks |-> NoWeek] \in [Weeks -> WeekFile]
  BY DEF NoWeek, WeekFile
<1>5. branch \in Directory /\ tree \in Directory
  BY <1>3, <1>4 DEF Init, Directory
<1>6. ArXivTypeOK
  BY <1>2 DEF Init, Kinds, ArXivTypeOK
<1>7. RunTypeOK
  <2>1. alarm \in BOOLEAN
    BY DEF Init
  <2>2. sweeps \in 0..MaxSweeps
    BY DEF Init
  <2> QED
    BY <1>2, <2>1, <2>2 DEF Init, RunTypeOK
<1>8. GhostsTypeOK
  BY DEF Init, GhostsTypeOK
<1> QED
  BY <1>1, <1>5, <1>6, <1>7, <1>8 DEF TypeOK

\* What the fetch does to its own variables.
LEMMA AnswerTypeStep ==
    ASSUME TypeOK, SweepsHaveADay,
           FetchStep \/ Begin \/ End \/ Kill \/ UNCHANGED answerVars
    PROVE  AnswerTypeOK' /\ got' \subseteq Entry
<1> USE ArchivesAssumption DEF AnswerTypeOK, Interfaces
<1>0. AnswerTypeOK /\ got \subseteq Entry
  BY DEF TypeOK
<1>1. CASE FetchStep
  <2>1. CASE InterfaceFails
    BY <1>0, <2>1 DEF InterfaceFails, Ask, Fallback
  <2>2. ASSUME NEW batch \in Batches(unit), ArchiveAnswered(batch)
        PROVE  AnswerTypeOK' /\ got' \subseteq Entry
    <3>1. batch \subseteq Entry
      <4>1. day >= 1
        BY <1>1 DEF FetchStep, SweepsHaveADay
      <4> QED
        BY <4>1, <2>2, BatchesAreEntries
    <3>2. got' \subseteq Entry
      BY <1>0, <2>2, <3>1 DEF ArchiveAnswered
    <3>3. AnswerTypeOK'
      BY <1>0, <2>2 DEF ArchiveAnswered
    <3> QED
      BY <3>2, <3>3
  <2> QED
    BY <1>1, <2>1, <2>2 DEF FetchStep
<1>2. CASE Begin
  BY <1>0, <1>2 DEF Begin, Ask
<1>3. CASE End
  BY <1>0, <1>3 DEF End
<1>4. CASE Kill
  BY <1>0, <1>4 DEF Kill
<1>5. CASE UNCHANGED answerVars
  BY <1>0, <1>5 DEF answerVars
<1> QED
  BY <1>1, <1>2, <1>3, <1>4, <1>5

LEMMA ArXivTypeStep ==
    ASSUME ArXivTypeOK, [Next]_vars
    PROVE  ArXivTypeOK'
<1> USE StoreAssumption DEF ArXivTypeOK
<1>1. CASE NextDay
  <2>1. day' \in 0..MaxDay /\ day + 1 \in AllDays /\ {day, day + 1} \cap AllDays \subseteq AllDays
    BY <1>1 DEF NextDay, AllDays
  <2>2. announced' \in [AllDays -> [Papers -> Kinds]]
    BY <1>1, <2>1 DEF NextDay
  <2>3. created' \in [Papers -> AllDays]
    BY <1>1, <2>1 DEF NextDay
  <2> QED
    BY <2>1, <2>2, <2>3
<1>2. CASE UNCHANGED arXiv
  BY <1>2 DEF arXiv
<1> QED
  BY <1>1, <1>2 DEF Next, vars, StartRun, FetchStep, Collected, FetchFailed, WriteDay,
       Rebuild, Commit, CutShort, Die, LoseRun, Seed

LEMMA RunTypeStep ==
    ASSUME TypeOK, SweepsHaveADay, [Next]_vars
    PROVE  RunTypeOK'
<1> USE StoreAssumption DEF RunTypeOK
<1>0. RunTypeOK /\ 1 \in AllDays
  BY DEF TypeOK, AllDays
<1>1. ASSUME NEW fetch \in BOOLEAN, StartRun(fetch) PROVE RunTypeOK'
  <2>1. day \in AllDays /\ sweeps' \in 0..MaxSweeps
    BY <1>0, <1>1 DEF StartRun, TypeOK, ArXivTypeOK, AllDays
  <2>2. phase' \in {"fetching", "rebuilding"}
    BY <1>1 DEF StartRun
  <2> QED
    BY <1>0, <1>1, <2>1, <2>2 DEF StartRun
<1>2. CASE Collected
  <2>1. Dates(got) \cup DaysAsked(rday) \subseteq AllDays
    BY <1>0 DEF TypeOK, Dates, DaysAsked, Entry
  <2> QED
    BY <1>0, <1>2, <2>1 DEF Collected
<1>3. CASE FetchFailed
  BY <1>0, <1>3 DEF FetchFailed
<1>4. CASE WriteDay
  <2>1. phase' \in {"writing", "rebuilding"} /\ progress' \in {progress, "stored"}
    BY <1>4 DEF WriteDay
  <2> QED
    BY <1>0, <1>4, <2>1 DEF WriteDay
<1>5. CASE Rebuild
  <2>1. alarm' \in BOOLEAN
    BY <1>5 DEF Rebuild
  <2>2. progress' \in {"reported", "relisted"}
    BY <1>5 DEF Rebuild
  <2> QED
    BY <1>0, <1>5, <2>1, <2>2 DEF Rebuild
<1>6. CASE CutShort
  BY <1>0, <1>6 DEF CutShort
<1>7. CASE Die
  BY <1>0, <1>7 DEF Die
<1>8. CASE Commit \/ LoseRun
  <2>1. EndRun /\ UNCHANGED sweeps
    BY <1>8 DEF Commit, LoseRun
  <2>2. alarm' \in BOOLEAN
    BY <2>1 DEF EndRun
  <2> QED
    BY <1>0, <2>1, <2>2 DEF EndRun
<1>9. CASE UNCHANGED runVars
  BY <1>0, <1>9 DEF runVars
<1> QED
  BY <1>1, <1>2, <1>3, <1>4, <1>5, <1>6, <1>7, <1>8, <1>9
     DEF Next, vars, NextDay, FetchStep, Seed

LEMMA GhostsTypeStep ==
    ASSUME TypeOK, [Next]_vars
    PROVE  GhostsTypeOK'
<1> USE DEF GhostsTypeOK
<1>0. GhostsTypeOK /\ rday \in AllDays /\ got \subseteq Entry
  BY DEF TypeOK, RunTypeOK
<1>1. CASE Collected
  <2>1. Dates(got) \subseteq AllDays
    BY <1>0 DEF Dates, Entry
  <2> QED
    BY <1>0, <1>1, <2>1 DEF Collected
<1>2. CASE Commit
  BY <1>0, <1>2 DEF Commit
<1>3. CASE UNCHANGED ghosts
  BY <1>0, <1>3 DEF ghosts
<1> QED
  BY <1>1, <1>2, <1>3 DEF Next, vars, NextDay, StartRun, FetchStep, FetchFailed,
       WriteDay, Rebuild, CutShort, Die, LoseRun, Seed

\* The seeded rows are entries, so seeding writes day files.
LEMMA SeedKeepsFiles ==
    ASSUME TypeOK, Seed
    PROVE  /\ branch' \in Directory
           /\ \A d \in AllDays :
                \/ branch'.files[d] = branch.files[d]
                \/ /\ branch'.files[d].state = "read"
                   /\ branch.files[d].state = "read" =>
                        branch.files[d].ids \subseteq branch'.files[d].ids
<1> DEFINE rows == UNION {{e \in branch.weeks[w].listed : e.id \in Clears} : w \in Weeks}
           files == [d \in AllDays |-> IF d \in Dates(rows)
                                       THEN Merged(branch.files[d], OnDay(rows, d))
                                       ELSE branch.files[d]]
<1>1. branch \in Directory
  BY DEF TypeOK
<1>2. rows \in SUBSET Entry
  BY <1>1 DEF Directory, WeekFile
<1>3. branch' = [branch EXCEPT !.files = files]
  BY DEF Seed
<1> HIDE DEF rows
<1>4. \A d \in AllDays :
        /\ Merged(branch.files[d], OnDay(rows, d)) \in DayFile
        /\ Merged(branch.files[d], OnDay(rows, d)).state = "read"
        /\ branch.files[d].state = "read" =>
             branch.files[d].ids \subseteq Merged(branch.files[d], OnDay(rows, d)).ids
  <2> TAKE d \in AllDays
  <2>1. branch.files[d] \in DayFile
    BY <1>1 DEF Directory
  <2>2. OnDay(rows, d) \in SUBSET Papers
    BY <1>2, OnDayArePapers
  <2> QED
    BY <2>1, <2>2, MergedKeeps
<1>5. \A d \in AllDays : branch.files[d] \in DayFile
  BY <1>1 DEF Directory
<1>6. files \in [AllDays -> DayFile]
  BY <1>4, <1>5
<1>7. branch'.files = files /\ branch' \in Directory
  BY <1>1, <1>3, <1>6 DEF Directory
<1> QED
  BY <1>4, <1>7

\* One day's file is written: the others stay, and it keeps what it held.
LEMMA WriteDayWrites ==
    ASSUME TypeOK, NEW d \in pending,
           tree' = [tree EXCEPT !.files[d] = Merged(@, OnDay(got, d))]
    PROVE  /\ tree' \in Directory
           /\ tree'.files[d] = Merged(tree.files[d], OnDay(got, d))
           /\ \A e \in AllDays : e # d => tree'.files[e] = tree.files[e]
           /\ tree'.files[d].state = "read"
           /\ OnDay(got, d) \subseteq tree'.files[d].ids
           /\ tree.files[d].state = "read" => tree.files[d].ids \subseteq tree'.files[d].ids
<1>1. tree \in Directory /\ d \in AllDays /\ got \in SUBSET Entry
  BY DEF TypeOK, RunTypeOK
<1>2. tree.files[d] \in DayFile
  BY <1>1 DEF Directory
<1>3. OnDay(got, d) \in SUBSET Papers
  BY <1>1, OnDayArePapers
<1>4. /\ Merged(tree.files[d], OnDay(got, d)) \in DayFile
      /\ Merged(tree.files[d], OnDay(got, d)).state = "read"
      /\ OnDay(got, d) \subseteq Merged(tree.files[d], OnDay(got, d)).ids
      /\ tree.files[d].state = "read" =>
           tree.files[d].ids \subseteq Merged(tree.files[d], OnDay(got, d)).ids
  BY <1>2, <1>3, MergedKeeps
<1> DEFINE new == Merged(tree.files[d], OnDay(got, d))
<1>5. new \in DayFile
  BY <1>4
<1> HIDE DEF new
<1>6. tree' = [tree EXCEPT !.files[d] = new]
  BY DEF new
<1>7. tree' \in Directory /\ tree'.files[d] = new
      /\ \A e \in AllDays : e # d => tree'.files[e] = tree.files[e]
  BY <1>1, <1>5, <1>6 DEF Directory
<1> QED
  BY <1>4, <1>7 DEF new

LEMMA HalfFileWrites ==
    ASSUME TypeOK, NEW d \in pending, tree' = [tree EXCEPT !.files[d] = HalfFile]
    PROVE  /\ tree' \in Directory
           /\ tree'.files[d].state = "unreadable"
           /\ \A e \in AllDays : e # d => tree'.files[e] = tree.files[e]
<1>1. tree \in Directory /\ d \in AllDays
  BY DEF TypeOK, RunTypeOK
<1>2. HalfFile \in DayFile /\ HalfFile.state = "unreadable"
  BY DEF HalfFile, DayFile
<1> QED
  BY <1>1, <1>2 DEF Directory

LEMMA WeekFileWrites ==
    ASSUME TypeOK, NEW file \in WeekFile,
           tree' = [tree EXCEPT !.weeks[Week(rday)] = file]
    PROVE  tree' \in Directory /\ tree'.files = tree.files
<1>1. tree \in Directory /\ Week(rday) \in Weeks
  BY DEF TypeOK, RunTypeOK, Weeks
<1> QED
  BY <1>1 DEF Directory

LEMMA HalfWeekIsAWeekFile == [NoWeek EXCEPT !.state = "unreadable"] \in WeekFile
BY DEF NoWeek, WeekFile

LEMMA DirectoryStep ==
    ASSUME TypeOK, [Next]_vars
    PROVE  branch' \in Directory /\ tree' \in Directory
<1>0. branch \in Directory /\ tree \in Directory
  BY DEF TypeOK
<1>1. CASE WriteDay
  <2>1. PICK d \in pending : tree' = [tree EXCEPT !.files[d] = Merged(@, OnDay(got, d))]
    BY <1>1 DEF WriteDay
  <2>2. tree' \in Directory
    BY <2>1, WriteDayWrites
  <2> QED
    BY <1>0, <1>1, <2>2 DEF WriteDay
<1>2. CASE Rebuild
  <2>1. tree' \in Directory
    BY <1>2, ReportIsAWeekFile, WeekFileWrites DEF Rebuild
  <2> QED
    BY <1>0, <1>2, <2>1 DEF Rebuild
<1>3. CASE CutShort
  <2>1. ASSUME NEW d \in pending, tree' = [tree EXCEPT !.files[d] = HalfFile]
        PROVE  tree' \in Directory
    BY <2>1, HalfFileWrites
  <2>2. ASSUME tree' = [tree EXCEPT !.weeks[Week(rday)] = [NoWeek EXCEPT !.state = "unreadable"]]
        PROVE  tree' \in Directory
    BY <2>2, HalfWeekIsAWeekFile, WeekFileWrites
  <2> QED
    BY <1>0, <1>3, <2>1, <2>2 DEF CutShort
<1>4. CASE Seed
  BY <1>4, SeedKeepsFiles DEF Seed
<1>5. CASE Commit \/ LoseRun
  BY <1>0, <1>5 DEF Commit, LoseRun, EndRun
<1>6. CASE UNCHANGED <<branch, tree>>
  BY <1>0, <1>6
<1>7. ASSUME NEW fetch \in BOOLEAN, StartRun(fetch) PROVE branch' \in Directory /\ tree' \in Directory
  BY <1>0, <1>7 DEF StartRun
<1> QED
  BY <1>1, <1>2, <1>3, <1>4, <1>5, <1>6, <1>7
     DEF Next, vars, NextDay, FetchStep, Collected, FetchFailed, Die

LEMMA DayStep ==
    ASSUME TypeOK, SweepsHaveADay, [Next]_vars
    PROVE  SweepsHaveADay'
<1> USE DEF SweepsHaveADay
<1>0. day \in Nat
  BY StoreAssumption DEF TypeOK, ArXivTypeOK
<1>1. CASE NextDay
  BY <1>0, <1>1 DEF NextDay, runVars
<1>2. ASSUME NEW fetch \in BOOLEAN, StartRun(fetch) PROVE SweepsHaveADay'
  BY <1>0, <1>2 DEF StartRun, arXiv
<1>3. CASE phase # "idle" /\ UNCHANGED day
  BY <1>3
<1>4. CASE UNCHANGED <<phase, day>>
  BY <1>4
<1> QED
  BY <1>1, <1>2, <1>3, <1>4
     DEF Next, vars, arXiv, runVars, FetchStep, Collected, FetchFailed, WriteDay, Rebuild,
         Commit, CutShort, Die, LoseRun, Seed

LEMMA TypeStep ==
    ASSUME TypeOK, SweepsHaveADay, [Next]_vars
    PROVE  TypeOK'
<1>1. ArXivTypeOK' /\ RunTypeOK' /\ GhostsTypeOK'
  BY ArXivTypeStep, RunTypeStep, GhostsTypeStep DEF TypeOK
<1>2. branch' \in Directory /\ tree' \in Directory
  BY DirectoryStep
<1>3. FetchStep \/ Begin \/ End \/ Kill \/ UNCHANGED answerVars
  BY DEF Next, vars, NextDay, StartRun, Collected, FetchFailed, WriteDay,
         Rebuild, Commit, CutShort, Die, LoseRun, EndRun, Seed
<1>4. AnswerTypeOK' /\ got' \subseteq Entry
  BY <1>3, AnswerTypeStep
<1> QED
  BY <1>1, <1>2, <1>4 DEF TypeOK

\* Every variable of the store keeps its type, for any papers and bounds.
THEOREM TypeCorrect == Spec => []TypeOK
<1>1. Init => TypeOK /\ SweepsHaveADay
  BY TypeInit DEF Init, SweepsHaveADay
<1>2. TypeOK /\ SweepsHaveADay /\ [Next]_vars => TypeOK' /\ SweepsHaveADay'
  BY TypeStep, DayStep
<1> QED
  BY <1>1, <1>2, PTL DEF Spec

-----------------------------------------------------------------------------
(* The store's own invariant.                                              *)

LEMMA StoreInit == Init => IInv
<1> SUFFICES ASSUME Init PROVE IInv
  OBVIOUS
<1>1. \A d \in AllDays : branch.files[d].state = "absent"
  BY DEF Init, NoFile
<1>2. TypeOK
  BY TypeInit
<1> QED
  BY <1>1, <1>2 DEF IInv, Init, SweepsHaveADay, NotStoredYet, HalvesAreSpoilt,
       TreeKeepsBranch, WrittenOrPending, StoredIsWritten, KeptIsHeld

LEMMA NotStoredYetStep ==
    ASSUME NotStoredYet, [Next]_vars
    PROVE  NotStoredYet'
<1> USE DEF NotStoredYet
<1>1. CASE WriteDay
  BY <1>1 DEF WriteDay
<1>2. CASE Rebuild \/ CutShort \/ Die
  BY <1>2 DEF Rebuild, CutShort, Die
<1>3. CASE Commit \/ LoseRun
  BY <1>3 DEF Commit, LoseRun, EndRun
<1>4. CASE UNCHANGED runVars
  BY <1>4 DEF runVars
<1>5. ASSUME NEW fetch \in BOOLEAN, StartRun(fetch) PROVE NotStoredYet'
  BY <1>5 DEF StartRun
<1>6. CASE Collected \/ FetchFailed
  BY <1>6 DEF Collected, FetchFailed
<1> QED
  BY <1>1, <1>2, <1>3, <1>4, <1>5, <1>6 DEF Next, vars, NextDay, FetchStep, Seed

LEMMA HalvesAreSpoiltStep ==
    ASSUME TypeOK, HalvesAreSpoilt, [Next]_vars
    PROVE  HalvesAreSpoilt'
<1> USE DEF HalvesAreSpoilt
<1>1. CASE Commit
  BY <1>1 DEF Commit
<1>2. CASE Seed
  <2>1. spoilt' = spoilt
    BY <1>2 DEF Seed, ghosts
  <2> QED
    BY <1>2, <2>1, SeedKeepsFiles
<1>3. CASE UNCHANGED <<branch, spoilt>>
  BY <1>3
<1> QED
  BY <1>1, <1>2, <1>3 DEF Next, vars, ghosts, NextDay, StartRun, FetchStep, Collected,
       FetchFailed, WriteDay, Rebuild, CutShort, Die, LoseRun

\* A checkout starts as the branch; then only write_days touches day files,
\* and it adds, replaces what it cannot read, or dies and leaves half a file.
LEMMA TreeKeepsBranchStep ==
    ASSUME TypeOK, TreeKeepsBranch, [Next]_vars
    PROVE  TreeKeepsBranch'
<1> USE DEF TreeKeepsBranch
<1>1. CASE WriteDay
  <2>1. PICK d \in pending : tree' = [tree EXCEPT !.files[d] = Merged(@, OnDay(got, d))]
    BY <1>1 DEF WriteDay
  <2>2. phase = "writing" /\ UNCHANGED branch
    BY <1>1 DEF WriteDay
  <2>3. \A e \in AllDays : branch.files[e].state = "read" =>
          tree.files[e].state = "read" /\ branch.files[e].ids \subseteq tree.files[e].ids
    BY <2>2
  <2>4. /\ \A e \in AllDays : e # d => tree'.files[e] = tree.files[e]
        /\ tree'.files[d].state = "read"
        /\ tree.files[d].state = "read" => tree.files[d].ids \subseteq tree'.files[d].ids
    BY <2>1, WriteDayWrites
  <2>5. ASSUME NEW e \in AllDays, branch.files[e].state = "read"
        PROVE  tree'.files[e].state = "read" /\ branch.files[e].ids \subseteq tree'.files[e].ids
    <3>1. CASE e = d
      BY <2>3, <2>4, <2>5, <3>1
    <3>2. CASE e # d
      BY <2>3, <2>4, <2>5, <3>2
    <3> QED
      BY <3>1, <3>2
  <2> QED
    BY <2>2, <2>5
<1>2. CASE Rebuild
  <2>1. tree'.files = tree.files
    BY <1>2, ReportIsAWeekFile, WeekFileWrites DEF Rebuild
  <2> QED
    BY <1>2, <2>1 DEF Rebuild
<1>3. CASE CutShort
  <2>1. ASSUME NEW d \in pending, tree' = [tree EXCEPT !.files[d] = HalfFile]
        PROVE  TreeKeepsBranch'
    <3>1. /\ tree'.files[d].state = "unreadable"
          /\ \A e \in AllDays : e # d => tree'.files[e] = tree.files[e]
      BY <2>1, HalfFileWrites
    <3> QED
      BY <1>3, <3>1 DEF CutShort
  <2>2. ASSUME tree' = [tree EXCEPT !.weeks[Week(rday)] = [NoWeek EXCEPT !.state = "unreadable"]]
        PROVE  TreeKeepsBranch'
    <3>1. tree'.files = tree.files
      BY <2>2, HalfWeekIsAWeekFile, WeekFileWrites
    <3> QED
      BY <1>3, <3>1 DEF CutShort
  <2> QED
    BY <1>3, <2>1, <2>2 DEF CutShort
<1>4. CASE phase' = "idle"
  BY <1>4
<1>5. ASSUME NEW fetch \in BOOLEAN, StartRun(fetch) PROVE TreeKeepsBranch'
  BY <1>5 DEF StartRun
<1>6. CASE UNCHANGED <<branch, tree>> /\ phase \notin {"idle", "commit"}
  BY <1>6
<1>7. CASE UNCHANGED <<branch, tree, phase>>
  BY <1>7
<1> QED
  BY <1>1, <1>2, <1>3, <1>4, <1>5, <1>6, <1>7 DEF Next, vars, runVars, NextDay, FetchStep,
       Collected, FetchFailed, Die, Commit, LoseRun, EndRun, Seed

\* Writing one day takes its papers out of the pending ones and into its file.
LEMMA WriteDayMoves ==
    ASSUME TypeOK, WrittenOrPending, WriteDay
    PROVE  \A e \in got' : e.day \in pending' \/ Holds(tree'.files, e)
<1>1. PICK d \in pending : /\ tree' = [tree EXCEPT !.files[d] = Merged(@, OnDay(got, d))]
                          /\ pending' = pending \ {d}
  BY DEF WriteDay
<1>2. /\ \A e \in AllDays : e # d => tree'.files[e] = tree.files[e]
      /\ tree'.files[d].state = "read"
      /\ OnDay(got, d) \subseteq tree'.files[d].ids
  BY <1>1, WriteDayWrites
<1>3. got' = got /\ phase = "writing"
  BY DEF WriteDay, answerVars
<1>4. ASSUME NEW e \in got PROVE e.day \in pending' \/ Holds(tree'.files, e)
  <2>1. e.day \in AllDays
    BY DEF TypeOK, Entry
  <2>2. CASE e.day = d
    BY <1>2, <2>2 DEF OnDay, Holds
  <2>3. CASE e.day # d
    BY <1>1, <1>2, <1>3, <2>1, <2>3 DEF Holds, WrittenOrPending
  <2> QED
    BY <2>2, <2>3
<1> QED
  BY <1>3, <1>4

\* Between the answer and the last file nothing touches the answer.
LEMMA WrittenOrPendingStep ==
    ASSUME TypeOK, WrittenOrPending, [Next]_vars
    PROVE  WrittenOrPending'
<1> USE DEF WrittenOrPending
<1>1. CASE Collected
  <2>1. pending' = Dates(got) \cup DaysAsked(rday) /\ got' = got
    BY <1>1 DEF Collected, End
  <2> QED
    BY <2>1 DEF Dates
<1>2. CASE WriteDay
  BY <1>2, WriteDayMoves
<1>3. CASE phase' # "writing"
  BY <1>3
<1>4. CASE UNCHANGED <<phase, pending, tree, got>>
  BY <1>4 DEF Holds
<1> QED
  BY <1>1, <1>2, <1>3, <1>4 DEF Next, vars, runVars, answerVars, NextDay, StartRun, FetchStep,
       FetchFailed, Rebuild, CutShort, Die, Commit, LoseRun, EndRun, Seed

\* Once the last day was written the whole answer is in the checkout, and the
\* weekly list does not touch it.
LEMMA StoredIsWrittenStep ==
    ASSUME TypeOK, NotStoredYet, WrittenOrPending, StoredIsWritten, [Next]_vars
    PROVE  StoredIsWritten'
<1> USE DEF StoredIsWritten
<1>1. CASE WriteDay
  <2>1. CASE pending' = {}
    BY <1>1, <2>1, WriteDayMoves
  <2>2. CASE pending' # {}
    BY <1>1, <2>2 DEF WriteDay, NotStoredYet
  <2> QED
    BY <2>1, <2>2
<1>2. CASE Rebuild
  <2>1. tree'.files = tree.files
    BY <1>2, ReportIsAWeekFile, WeekFileWrites DEF Rebuild
  <2>2. got' = got /\ (progress' = "reported" => progress = "stored") /\ progress' # "stored"
    BY <1>2 DEF Rebuild, answerVars
  <2> QED
    BY <2>1, <2>2 DEF Holds
<1>3. CASE CutShort
  <2>1. got' = got /\ progress' = progress
    BY <1>3 DEF CutShort, answerVars
  <2>2. CASE phase = "writing"
    BY <2>1, <2>2 DEF NotStoredYet
  <2>3. CASE phase # "writing"
    <3>1. tree'.files = tree.files
      BY <1>3, <2>3, HalfWeekIsAWeekFile, WeekFileWrites DEF CutShort
    <3> QED
      BY <2>1, <3>1 DEF Holds
  <2> QED
    BY <2>2, <2>3
<1>4. CASE progress' = "none"
  BY <1>4
<1>5. CASE UNCHANGED <<progress, tree, got>>
  BY <1>5 DEF Holds
<1>6. CASE phase \in {"idle", "fetching"} /\ UNCHANGED progress
  BY <1>6 DEF NotStoredYet
<1> QED
  BY <1>1, <1>2, <1>3, <1>4, <1>5, <1>6 DEF Next, vars, runVars, answerVars, NextDay,
       StartRun, FetchStep, Collected, FetchFailed, Die, Commit, LoseRun, EndRun, Seed

\* Publishing keeps what earlier sweeps stored and adds what this one did.
LEMMA CommitKeeps ==
    ASSUME TypeOK, HalvesAreSpoilt, TreeKeepsBranch, StoredIsWritten, KeptIsHeld, Commit
    PROVE  KeptIsHeld'
<1>1. /\ phase = "commit" /\ branch' = tree
      /\ spoilt' = spoilt \cup {d \in AllDays : tree.files[d].state = "unreadable"}
  BY DEF Commit
<1>2. kept' \subseteq kept \cup got /\ (progress \notin {"stored", "reported"} => kept' = kept)
  BY DEF Commit
<1>3. kept \cup got \subseteq Entry
  BY DEF TypeOK, GhostsTypeOK
<1>4. ASSUME NEW e \in kept', e.day \notin spoilt' PROVE Holds(tree.files, e)
  <2>1. e.day \in AllDays
    BY <1>2, <1>3 DEF Entry
  <2>2. e.day \notin spoilt /\ tree.files[e.day].state # "unreadable"
    BY <1>1, <1>4, <2>1
  <2>3. CASE e \in kept
    <3>1. Holds(branch.files, e)
      BY <2>2, <2>3 DEF KeptIsHeld
    <3> QED
      BY <1>1, <2>1, <2>2, <3>1 DEF TreeKeepsBranch, Holds
  <2>4. CASE e \notin kept
    BY <1>2, <2>4 DEF StoredIsWritten
  <2> QED
    BY <2>3, <2>4
<1> QED
  BY <1>1, <1>4 DEF KeptIsHeld, Holds

LEMMA KeptIsHeldStep ==
    ASSUME TypeOK, HalvesAreSpoilt, TreeKeepsBranch, StoredIsWritten, KeptIsHeld, [Next]_vars
    PROVE  KeptIsHeld'
<1>1. CASE Commit
  BY <1>1, CommitKeeps
<1>2. CASE Seed
  <2>1. kept' = kept /\ spoilt' = spoilt
    BY <1>2 DEF Seed, ghosts
  <2>2. ASSUME NEW e \in kept, e.day \notin spoilt PROVE Holds(branch'.files, e)
    <3>1. e.day \in AllDays
      BY DEF TypeOK, GhostsTypeOK, Entry
    <3>2. Holds(branch.files, e)
      BY <2>2 DEF KeptIsHeld
    <3> QED
      BY <1>2, <3>1, <3>2, SeedKeepsFiles DEF Holds
  <2> QED
    BY <2>1, <2>2 DEF KeptIsHeld
<1>3. CASE UNCHANGED <<branch, kept, spoilt>>
  BY <1>3 DEF KeptIsHeld, Holds
<1> QED
  BY <1>1, <1>2, <1>3 DEF Next, vars, ghosts, NextDay, StartRun, FetchStep, Collected,
       FetchFailed, WriteDay, Rebuild, CutShort, Die, LoseRun

LEMMA StoreInductive == IInv /\ [Next]_vars => IInv'
<1> SUFFICES ASSUME IInv, [Next]_vars PROVE IInv'
  OBVIOUS
<1> USE DEF IInv
<1>1. TypeOK' /\ SweepsHaveADay'
  BY TypeStep, DayStep
<1>2. NotStoredYet' /\ HalvesAreSpoilt'
  BY NotStoredYetStep, HalvesAreSpoiltStep
<1>3. TreeKeepsBranch'
  BY TreeKeepsBranchStep
<1>4. WrittenOrPending' /\ StoredIsWritten'
  BY WrittenOrPendingStep, StoredIsWrittenStep
<1>5. KeptIsHeld'
  BY KeptIsHeldStep
<1> QED
  BY <1>1, <1>2, <1>3, <1>4, <1>5

\* "A later run must not delete what an earlier one recorded" (write_days):
\* whatever the order of sweeps, fallbacks, seedings, crashes and lost runs, a
\* paper some sweep stored and published stays in its day's file, unless that
\* file was once published half-written.
THEOREM StoredPapersAreKept == Spec => []NothingStoredIsLost
<1>1. IInv => NothingStoredIsLost
  BY DEF IInv, KeptIsHeld, Holds, NothingStoredIsLost
<1> QED
  BY <1>1, StoreInit, StoreInductive, PTL DEF Spec
-----------------------------------------------------------------------------
(* A day a list calls present was measured.                                *)

\* Files stand for days somebody asked about or received papers of, papers
\* stand on days received, and so do the lists made of them.
Sound(dir, measured, dated) ==
    /\ \A d \in AllDays : /\ dir.files[d].state # "absent" => d \in measured
                          /\ dir.files[d].ids # {} => d \in dated
    /\ \A w \in Weeks : /\ dir.weeks[w].present \subseteq measured
                        /\ \A e \in dir.weeks[w].listed : e.day \in dated

BranchIsSound == Sound(branch, asked \cup received, received)
TreeIsSound == Sound(tree, asked \cup received, received)
PendingIsMeasured == pending \subseteq asked \cup received
AnswerIsReceived == phase = "writing" => \A e \in got : e.day \in received

MInv ==
    /\ TypeOK
    /\ SweepsHaveADay
    /\ BranchIsSound
    /\ TreeIsSound
    /\ PendingIsMeasured
    /\ AnswerIsReceived

LEMMA MeasuredInit == Init => MInv
<1> SUFFICES ASSUME Init PROVE MInv
  OBVIOUS
<1>1. /\ \A d \in AllDays : branch.files[d] = NoFile
      /\ \A w \in Weeks : branch.weeks[w] = NoWeek
      /\ tree = branch
  BY DEF Init
<1>2. BranchIsSound /\ TreeIsSound
  BY <1>1 DEF BranchIsSound, TreeIsSound, Sound, NoFile, NoWeek
<1>3. TypeOK /\ SweepsHaveADay
  BY TypeInit DEF Init, SweepsHaveADay
<1> QED
  BY <1>2, <1>3 DEF MInv, Init, PendingIsMeasured, AnswerIsReceived

LEMMA SoundGrows ==
    ASSUME NEW dir, NEW measured, NEW dated, Sound(dir, measured, dated),
           NEW more, measured \subseteq more, NEW later, dated \subseteq later
    PROVE  Sound(dir, more, later)
  BY DEF Sound

\* A day of the answer is written.
LEMMA WrittenDayIsSound ==
    ASSUME MInv, WriteDay
    PROVE  TreeIsSound'
<1> DEFINE measured == asked \cup received
<1>1. PICK d \in pending : tree' = [tree EXCEPT !.files[d] = Merged(@, OnDay(got, d))]
  BY DEF WriteDay
<1>2. /\ tree'.files[d] = Merged(tree.files[d], OnDay(got, d))
      /\ \A e \in AllDays : e # d => tree'.files[e] = tree.files[e]
  BY <1>1, WriteDayWrites DEF MInv
<1>3. tree'.weeks = tree.weeks
  BY <1>1 DEF MInv, TypeOK, Directory
<1>4. d \in measured /\ phase = "writing" /\ UNCHANGED <<asked, received>>
  BY DEF MInv, PendingIsMeasured, WriteDay, ghosts
<1>5. OnDay(got, d) # {} => d \in received
  BY <1>4 DEF MInv, AnswerIsReceived, OnDay
<1>6. d \in AllDays /\ Sound(tree, measured, received)
  BY DEF MInv, TypeOK, RunTypeOK, TreeIsSound
<1>7. Merged(tree.files[d], OnDay(got, d)).ids # {} => d \in received
  BY <1>5, <1>6 DEF Sound, Merged
<1>8. Sound(tree', measured, received)
  <2>1. ASSUME NEW e \in AllDays
        PROVE  /\ tree'.files[e].state # "absent" => e \in measured
               /\ tree'.files[e].ids # {} => e \in received
    <3>1. CASE e = d
      BY <1>2, <1>4, <1>7, <3>1
    <3>2. CASE e # d
      BY <1>2, <1>6, <3>2 DEF Sound
    <3> QED
      BY <3>1, <3>2
  <2> QED
    BY <1>3, <1>6, <2>1 DEF Sound
<1> QED
  BY <1>4, <1>8 DEF TreeIsSound

\* The weekly list is made of the checkout's files, and only of them.
LEMMA RebuiltWeekIsSound ==
    ASSUME MInv, Rebuild
    PROVE  TreeIsSound'
<1> DEFINE measured == asked \cup received
           file == Report(tree.files, rday)
<1>1. Sound(tree, measured, received) /\ UNCHANGED <<asked, received>>
  BY DEF MInv, TreeIsSound, Rebuild, ghosts
<1>2. tree' = [tree EXCEPT !.weeks[Week(rday)] = file]
  BY DEF Rebuild
<1>3. \A d \in file.present : d \in AllDays /\ tree.files[d].state = "read"
  BY DEF Report, Window
<1>4. \A e \in file.listed : e.day \in AllDays /\ tree.files[e.day].ids # {}
  BY DEF Report, Fresh, Entry
<1>5. file.present \subseteq measured /\ \A e \in file.listed : e.day \in received
  BY <1>1, <1>3, <1>4 DEF Sound
<1> HIDE DEF file
<1>6. /\ tree'.files = tree.files
      /\ \A w \in Weeks : tree'.weeks[w] \in {tree.weeks[w], file}
  BY <1>2 DEF MInv, TypeOK, Directory
<1>7. Sound(tree', measured, received)
  BY <1>1, <1>5, <1>6 DEF Sound
<1> QED
  BY <1>1, <1>7 DEF TreeIsSound

LEMMA CutFileIsSound ==
    ASSUME MInv, CutShort
    PROVE  TreeIsSound'
<1> DEFINE measured == asked \cup received
           half == [NoWeek EXCEPT !.state = "unreadable"]
<1>1. Sound(tree, measured, received) /\ UNCHANGED <<asked, received>>
  BY DEF MInv, TreeIsSound, CutShort, ghosts
<1>2. ASSUME NEW d \in pending, tree' = [tree EXCEPT !.files[d] = HalfFile]
      PROVE  Sound(tree', measured, received)
  <2>1. /\ tree'.weeks = tree.weeks
        /\ \A e \in AllDays : tree'.files[e] = IF e = d THEN HalfFile ELSE tree.files[e]
    BY <1>2 DEF MInv, TypeOK, Directory
  <2>2. d \in measured
    BY DEF MInv, PendingIsMeasured
  <2>3. HalfFile.ids = {}
    BY DEF HalfFile
  <2> QED
    BY <1>1, <2>1, <2>2, <2>3 DEF Sound
<1>3. ASSUME tree' = [tree EXCEPT !.weeks[Week(rday)] = half]
      PROVE  Sound(tree', measured, received)
  <2>1. half.present = {} /\ half.listed = {}
    BY DEF NoWeek
  <2> HIDE DEF half
  <2>2. /\ tree'.files = tree.files
        /\ \A w \in Weeks : tree'.weeks[w] \in {tree.weeks[w], half}
    BY <1>3 DEF MInv, TypeOK, Directory
  <2> QED
    BY <1>1, <2>1, <2>2 DEF Sound
<1>4. Sound(tree', measured, received)
  BY <1>2, <1>3 DEF CutShort
<1> QED
  BY <1>1, <1>4 DEF TreeIsSound

\* What is seeded was on a list, so it was received.
LEMMA SeededFilesAreSound ==
    ASSUME MInv, Seed
    PROVE  BranchIsSound' /\ TreeIsSound'
<1> DEFINE measured == asked \cup received
           rows == UNION {{e \in branch.weeks[w].listed : e.id \in Clears} : w \in Weeks}
<1>1. Sound(branch, measured, received) /\ UNCHANGED <<asked, received>>
  BY DEF MInv, BranchIsSound, Seed, ghosts
<1>2. \A d \in Dates(rows) : d \in received
  BY <1>1 DEF Sound, Dates
<1>3. branch' = [branch EXCEPT !.files =
           [d \in AllDays |-> IF d \in Dates(rows)
                              THEN Merged(@[d], OnDay(rows, d)) ELSE @[d]]]
  BY DEF Seed
<1> HIDE DEF rows
<1>4. branch'.weeks = branch.weeks
  BY <1>3 DEF MInv, TypeOK, Directory
<1>5. \A d \in AllDays : d \notin Dates(rows) => branch'.files[d] = branch.files[d]
  BY <1>3 DEF MInv, TypeOK, Directory
<1>6. Sound(branch', measured, received)
  BY <1>1, <1>2, <1>4, <1>5 DEF Sound
<1>7. tree' = branch'
  BY DEF Seed
<1> QED
  BY <1>1, <1>6, <1>7 DEF BranchIsSound, TreeIsSound

LEMMA BranchIsSoundStep ==
    ASSUME MInv, [Next]_vars
    PROVE  BranchIsSound'
<1>1. CASE Commit
  <2>1. branch' = tree /\ UNCHANGED <<asked, received>>
    BY <1>1 DEF Commit
  <2> QED
    BY <2>1 DEF MInv, TreeIsSound, BranchIsSound
<1>2. CASE Seed
  BY <1>2, SeededFilesAreSound
<1>3. CASE UNCHANGED branch /\ asked \subseteq asked' /\ received \subseteq received'
  BY <1>3, SoundGrows DEF MInv, BranchIsSound
<1> QED
  BY <1>1, <1>2, <1>3 DEF Next, vars, ghosts, NextDay, StartRun, FetchStep, Collected,
       FetchFailed, WriteDay, Rebuild, CutShort, Die, LoseRun

LEMMA TreeIsSoundStep ==
    ASSUME MInv, [Next]_vars
    PROVE  TreeIsSound'
<1>1. CASE WriteDay \/ Rebuild \/ CutShort \/ Seed
  BY <1>1, WrittenDayIsSound, RebuiltWeekIsSound, CutFileIsSound, SeededFilesAreSound
<1>2. CASE tree' = branch' /\ UNCHANGED <<asked, received>>
  BY <1>2, BranchIsSoundStep DEF BranchIsSound, TreeIsSound
<1>3. CASE UNCHANGED tree /\ asked \subseteq asked' /\ received \subseteq received'
  BY <1>3, SoundGrows DEF MInv, TreeIsSound
<1> QED
  BY <1>1, <1>2, <1>3 DEF Next, vars, ghosts, NextDay, StartRun, FetchStep, Collected,
       FetchFailed, Die, Commit, LoseRun, EndRun

LEMMA AnswerStep ==
    ASSUME MInv, [Next]_vars
    PROVE  PendingIsMeasured' /\ AnswerIsReceived'
<1> USE DEF MInv, PendingIsMeasured, AnswerIsReceived
<1>1. CASE Collected
  <2>1. /\ pending' = Dates(got) \cup {rday} /\ got' = got
        /\ asked' = asked \cup {rday} /\ received' = received \cup Dates(got)
    BY <1>1 DEF Collected, DaysAsked, End
  <2> QED
    BY <2>1 DEF Dates
<1>2. CASE WriteDay
  BY <1>2 DEF WriteDay, ghosts, answerVars
<1>3. CASE pending' \subseteq pending /\ phase' # "writing" /\ UNCHANGED <<asked, received>>
  BY <1>3
<1>4. CASE UNCHANGED <<pending, phase, got, asked, received>>
  BY <1>4
<1> QED
  BY <1>1, <1>2, <1>3, <1>4 DEF Next, vars, runVars, ghosts, answerVars, NextDay, StartRun,
       FetchStep, FetchFailed, Rebuild, CutShort, Die, Commit, LoseRun, EndRun, Seed

LEMMA MeasuredInductive == MInv /\ [Next]_vars => MInv'
<1> SUFFICES ASSUME MInv, [Next]_vars PROVE MInv'
  OBVIOUS
<1>1. TypeOK' /\ SweepsHaveADay'
  BY TypeStep, DayStep DEF MInv
<1> QED
  BY <1>1, BranchIsSoundStep, TreeIsSoundStep, AnswerStep DEF MInv

\* No day of a published list is called present that nobody measured
\* (ADR-0021), for any papers, window and order of sweeps, deaths and seedings.
THEOREM NoUnmeasuredDayIsPresent == Spec => []NoGapPassesForQuiet
<1>1. MInv => NoGapPassesForQuiet
  BY DEF MInv, BranchIsSound, Sound, NoGapPassesForQuiet
<1> QED
  BY <1>1, MeasuredInit, MeasuredInductive, PTL DEF Spec

-----------------------------------------------------------------------------
(* Days in a row that were filed and hold nothing are found by the count.  *)

\* A set of naturals that is not empty has a least one.
LEMMA LeastNatural ==
    ASSUME NEW S \in SUBSET Nat, S # {}
    PROVE  \E x \in S : \A y \in S : x <= y
<1> DEFINE less == OpToRel(<, Nat)
<1>1. IsWellFoundedOn(less, Nat)
  BY NatLessThanWellFounded
<1>2. \A i, j \in Nat : i < j => <<i, j>> \in less
  BY Zenon DEF OpToRel
<1> HIDE DEF less
<1>3. \E x \in S : \A y \in S : <<y, x>> \notin less
  BY <1>1, WFMin
<1>4. PICK x \in S : \A y \in S : <<y, x>> \notin less
  BY <1>3
<1>5. ASSUME NEW y \in S PROVE x <= y
  <2>1. x \in Nat /\ y \in Nat
    OBVIOUS
  <2>2. ~(y < x)
    BY <1>2, <1>4, <2>1, Zenon
  <2> QED
    BY <2>1, <2>2
<1> QED
  BY <1>5

\* A set of naturals with a bound has a greatest one.
LEMMA MaxIsThere ==
    ASSUME NEW r \in Nat, NEW S \in SUBSET (0..r), S # {}
    PROVE  Max(S) \in S /\ \A y \in S : Max(S) >= y
<1> DEFINE below == {r - x : x \in S}
<1>1. below \in SUBSET Nat /\ below # {}
  <2>1. \A x \in S : x \in 0..r /\ r - x \in Nat
    OBVIOUS
  <2> QED
    BY <2>1
<1>2. PICK b \in below : \A c \in below : b <= c
  BY <1>1, LeastNatural
<1>3. PICK x \in S : b = r - x
  OBVIOUS
<1>4. ASSUME NEW y \in S PROVE x >= y
  <2>1. r - y \in below
    OBVIOUS
  <2> QED
    BY <1>2, <1>3, <2>1
<1>5. \E z \in S : \A y \in S : z >= y
  BY <1>4
<1> QED
  BY <1>5 DEF Max

LEMMA StreakReaches ==
    ASSUME NEW files, NEW r \in Nat, NEW n \in 0..r,
           \A d \in (r - n + 1)..r : Empty(files[d])
    PROVE  Streak(files, r) >= n
<1> DEFINE lengths == {m \in 0..r : \A d \in (r - m + 1)..r : Empty(files[d])}
<1>1. n \in lengths
  OBVIOUS
<1>2. Streak(files, r) = Max(lengths)
  BY DEF Streak
<1> HIDE DEF lengths
<1>3. lengths \in SUBSET (0..r)
  BY DEF lengths
<1> QED
  BY <1>1, <1>2, <1>3, MaxIsThere

\* What a sweep stored and published can be read, unless it was spoilt.
FiledIsRead == \A d \in filed : d \notin spoilt => branch.files[d].state = "read"

\* The run's own day is written, whether or not a paper was dated on it.
RunDayIsWritten ==
    /\ phase = "writing" => rday \in pending \/ tree.files[rday].state = "read"
    /\ progress \in {"stored", "reported"} => tree.files[rday].state = "read"

\* The alarm was set by the count over the files that will be published.
AlarmIsStreak ==
    progress \in {"reported", "relisted"} =>
        /\ phase = "commit"
        /\ Streak(tree.files, rday) >= Alarm => alarm
        /\ \A d \in AllDays :
             branch.files[d].state = "read" => tree.files[d].state = "read"

SInv == IInv /\ MInv /\ FiledIsRead /\ RunDayIsWritten /\ AlarmIsStreak

LEMMA FiledIsReadStep ==
    ASSUME SInv, [Next]_vars
    PROVE  FiledIsRead'
<1> USE DEF SInv, FiledIsRead
<1>0. filed \subseteq AllDays /\ rday \in AllDays
  BY DEF MInv, TypeOK, GhostsTypeOK, RunTypeOK
<1>1. CASE Commit
  <2>1. /\ phase = "commit" /\ branch' = tree
        /\ spoilt' = spoilt \cup {d \in AllDays : tree.files[d].state = "unreadable"}
    BY <1>1 DEF Commit
  <2>2. /\ filed' \subseteq filed \cup {rday}
        /\ progress \notin {"stored", "reported"} => filed' = filed
    BY <1>1 DEF Commit
  <2>3. ASSUME NEW d \in filed', d \notin spoilt' PROVE tree.files[d].state = "read"
    <3>1. d \in AllDays /\ d \notin spoilt /\ tree.files[d].state # "unreadable"
      BY <1>0, <2>1, <2>2, <2>3
    <3>2. CASE d \in filed
      BY <2>1, <3>1, <3>2 DEF IInv, TreeKeepsBranch
    <3>3. CASE d \notin filed
      BY <2>2, <2>3, <3>3 DEF RunDayIsWritten
    <3> QED
      BY <3>2, <3>3
  <2> QED
    BY <2>1, <2>3
<1>2. CASE Seed
  <2>1. UNCHANGED <<filed, spoilt>>
    BY <1>2 DEF Seed, ghosts
  <2> QED
    BY <1>0, <1>2, <2>1, SeedKeepsFiles DEF MInv
<1>3. CASE UNCHANGED <<branch, filed, spoilt>>
  BY <1>3
<1> QED
  BY <1>1, <1>2, <1>3 DEF Next, vars, ghosts, NextDay, StartRun, FetchStep, Collected,
       FetchFailed, WriteDay, Rebuild, CutShort, Die, LoseRun

LEMMA RunDayIsWrittenStep ==
    ASSUME SInv, [Next]_vars
    PROVE  RunDayIsWritten'
<1> USE DEF RunDayIsWritten
<1>0. TypeOK /\ NotStoredYet /\ RunDayIsWritten
  BY DEF SInv, IInv
<1>1. CASE Collected
  <2>1. rday \in pending' /\ rday' = rday /\ progress' = "none"
    BY <1>0, <1>1 DEF Collected, DaysAsked, NotStoredYet
  <2> QED
    BY <2>1
<1>2. CASE WriteDay
  <2>1. PICK d \in pending : /\ tree' = [tree EXCEPT !.files[d] = Merged(@, OnDay(got, d))]
                            /\ pending' = pending \ {d}
    BY <1>2 DEF WriteDay
  <2>2. /\ tree'.files[d].state = "read"
        /\ \A e \in AllDays : e # d => tree'.files[e] = tree.files[e]
    BY <1>0, <2>1, WriteDayWrites
  <2>3. rday \in AllDays /\ rday' = rday /\ phase = "writing"
    BY <1>0, <1>2 DEF WriteDay, TypeOK, RunTypeOK
  <2>4. rday \in pending' \/ tree'.files[rday].state = "read"
    BY <1>0, <2>1, <2>2, <2>3
  <2>5. pending' # {} => progress' = "none"
    BY <1>0, <1>2 DEF WriteDay, NotStoredYet
  <2> QED
    BY <2>3, <2>4, <2>5
<1>3. CASE Rebuild
  <2>1. tree'.files = tree.files /\ rday' = rday
    BY <1>0, <1>3, ReportIsAWeekFile, WeekFileWrites DEF Rebuild
  <2>2. phase' = "commit" /\ progress' # "stored" /\ (progress' = "reported" => progress = "stored")
    BY <1>3 DEF Rebuild
  <2> QED
    BY <1>0, <2>1, <2>2
<1>4. CASE CutShort
  <2>1. phase' = "commit" /\ rday' = rday /\ progress' = progress
    BY <1>4 DEF CutShort
  <2>2. CASE phase = "writing"
    BY <1>0, <2>1, <2>2 DEF NotStoredYet
  <2>3. CASE phase # "writing"
    <3>1. tree'.files = tree.files
      BY <1>0, <1>4, <2>3, HalfWeekIsAWeekFile, WeekFileWrites DEF CutShort
    <3> QED
      BY <1>0, <2>1, <3>1
  <2> QED
    BY <2>2, <2>3
<1>5. CASE phase' # "writing" /\ UNCHANGED <<tree, rday, progress>>
  BY <1>0, <1>5
<1>6. CASE phase' # "writing" /\ progress' = "none"
  BY <1>6
<1>7. CASE UNCHANGED <<phase, tree, rday, progress, pending>>
  BY <1>0, <1>7
<1>8. ASSUME NEW fetch \in BOOLEAN, StartRun(fetch) PROVE RunDayIsWritten'
  BY <1>0, <1>8 DEF StartRun, NotStoredYet
<1>9. CASE Seed
  BY <1>0, <1>9 DEF Seed, runVars, NotStoredYet
<1> QED
  BY <1>1, <1>2, <1>3, <1>4, <1>5, <1>6, <1>7, <1>8, <1>9
     DEF Next, vars, runVars, NextDay, FetchStep, FetchFailed, Die, Commit, LoseRun, EndRun

LEMMA AlarmIsStreakStep ==
    ASSUME SInv, [Next]_vars
    PROVE  AlarmIsStreak'
<1> USE DEF AlarmIsStreak
<1>0. TypeOK /\ AlarmIsStreak /\ TreeKeepsBranch
  BY DEF SInv, IInv
<1>1. CASE Rebuild
  <2>1. tree'.files = tree.files /\ rday' = rday
    BY <1>0, <1>1, ReportIsAWeekFile, WeekFileWrites DEF Rebuild
  <2>2. /\ phase = "rebuilding" /\ phase' = "commit" /\ branch' = branch
        /\ alarm' = (Streak(tree.files, rday) >= Alarm)
    BY <1>1 DEF Rebuild
  <2>3. \A d \in AllDays : branch.files[d].state = "read" => tree.files[d].state = "read"
    BY <1>0, <2>2 DEF TreeKeepsBranch
  <2>4. Streak(tree'.files, rday') >= Alarm => alarm'
    BY <2>1, <2>2
  <2> QED
    BY <2>1, <2>2, <2>3, <2>4
<1>2. CASE progress' \in {"none", "stored"}
  BY <1>2
<1>3. CASE phase # "commit" /\ UNCHANGED progress
  BY <1>0, <1>3
<1>4. CASE UNCHANGED <<progress, phase, rday, alarm, tree, branch>>
  BY <1>0, <1>4
<1> QED
  BY <1>1, <1>2, <1>3, <1>4 DEF Next, vars, runVars, NextDay, StartRun, FetchStep, Collected,
       FetchFailed, WriteDay, CutShort, Die, Commit, LoseRun, EndRun, Seed

LEMMA SilenceInit == Init => SInv
<1> SUFFICES ASSUME Init PROVE SInv
  OBVIOUS
<1>1. IInv /\ MInv
  BY StoreInit, MeasuredInit
<1> QED
  BY <1>1 DEF SInv, Init, FiledIsRead, RunDayIsWritten, AlarmIsStreak

LEMMA SilenceInductive == SInv /\ [Next]_vars => SInv'
<1> SUFFICES ASSUME SInv, [Next]_vars PROVE SInv'
  OBVIOUS
<1>1. IInv' /\ MInv'
  BY StoreInductive, MeasuredInductive DEF SInv
<1> QED
  BY <1>1, FiledIsReadStep, RunDayIsWrittenStep, AlarmIsStreakStep DEF SInv

LEMMA SilentDaysAreCounted ==
    ASSUME SInv
    PROVE  SilenceIsRed
<1> SUFFICES ASSUME rday >= Alarm, progress \in {"reported", "relisted"},
                    \/ progress = "reported" /\ LastDays \subseteq filed \cup {rday}
                    \/ progress = "relisted" /\ LastDays \subseteq filed,
                    LastDays \cap (received \cup spoilt) = {}
             PROVE  alarm
  BY DEF SilenceIsRed
<1>1. Alarm \in Nat /\ rday \in Nat /\ Alarm \in 0..rday /\ LastDays \subseteq AllDays
  BY StoreAssumption DEF SInv, IInv, TypeOK, RunTypeOK, AllDays, LastDays
<1>2. \A d \in AllDays : branch.files[d].state = "read" => tree.files[d].state = "read"
  BY DEF SInv, AlarmIsStreak
<1>3. ASSUME NEW d \in LastDays PROVE Empty(tree.files[d])
  <2>1. d \in AllDays /\ d \notin received /\ d \notin spoilt
    BY <1>1
  <2>2. tree.files[d].state = "read"
    BY <1>2, <2>1 DEF SInv, FiledIsRead, RunDayIsWritten
  <2>3. tree.files[d].ids = {}
    BY <2>1 DEF SInv, MInv, TreeIsSound, Sound
  <2> QED
    BY <2>2, <2>3 DEF Empty
<1>4. Streak(tree.files, rday) >= Alarm
  BY <1>1, <1>3, StreakReaches DEF LastDays
<1> QED
  BY <1>4 DEF SInv, AlarmIsStreak

\* EMPTY_DAY_ALARM never misses: so many days in a row that were filed and on
\* which no answer dated a paper end in a red job, for any papers, alarm and
\* order of sweeps, repeated runs, fallbacks, deaths and seedings.
THEOREM SilenceRaisesTheAlarm == Spec => []SilenceIsRed
<1>1. Init => SInv
  BY SilenceInit
<1>2. SInv /\ [Next]_vars => SInv'
  BY SilenceInductive
<1>3. SInv => SilenceIsRed
  BY SilentDaysAreCounted
<1> QED
  BY <1>1, <1>2, <1>3, PTL DEF Spec

-----------------------------------------------------------------------------
(* A week's list is rebuilt from a window that covers the week so far.     *)

LEMMA Quotient ==
    ASSUME NEW a \in Nat, NEW n \in Nat, n > 0
    PROVE  a \div n \in Nat /\ \E x \in 0..(n - 1) : a = n * (a \div n) + x
<1>1. a = n * (a \div n) + (a % n) /\ a % n \in 0..(n - 1) /\ a \div n \in Nat
  OBVIOUS
<1> QED
  BY <1>1

\* Naturals with the same quotient are less than the divisor apart.
LEMMA SameQuotient ==
    ASSUME NEW a \in Nat, NEW b \in Nat, NEW n \in Nat, n > 0, a \div n = b \div n
    PROVE  b - a < n
<1>1. PICK x \in 0..(n - 1) : a = n * (a \div n) + x
  BY Quotient
<1>2. PICK y \in 0..(n - 1) : b = n * (b \div n) + y
  BY Quotient
<1> DEFINE q == n * (a \div n)
<1>3. a \div n \in Nat
  BY Quotient
<1>4. q \in Int
  BY <1>3
<1>5. b = q + y
  BY <1>2
<1> HIDE DEF q
<1>6. a = q + x
  BY <1>1 DEF q
<1> QED
  BY <1>4, <1>5, <1>6

LEMMA SameWeek ==
    ASSUME NEW d \in AllDays, NEW e \in AllDays, Week(d) = Week(e), d <= e
    PROVE  d + Days >= e
<1>1. d - 1 \in Nat /\ e - 1 \in Nat /\ WeekLen \in Nat /\ WeekLen > 0 /\ Days \in Nat
      /\ Days + 1 >= WeekLen /\ d \in Nat /\ e \in Nat
  BY StoreAssumption DEF AllDays
<1>2. (d - 1) \div WeekLen = (e - 1) \div WeekLen
  BY DEF Week
<1>3. (e - 1) - (d - 1) < WeekLen
  BY <1>1, <1>2, SameQuotient
<1> QED
  BY <1>1, <1>3

\* A list is of wanted papers dated up to r, which the day files hold but for
\* those that were spoilt.
Lists(directory, w, r) ==
    \A e \in directory.weeks[w].listed :
        /\ e.id \in Wanted /\ e.day <= r
        /\ e.day \notin spoilt =>
             \/ Holds(directory.files, e)
             \/ phase = "commit" /\ directory.files[e.day].state = "unreadable"

\* The papers a week's list names of its own days.
OfItsWeek(directory, w, bad) ==
    {e.id : e \in {x \in directory.weeks[w].listed : Week(x.day) = w /\ x.day \notin bad}}

Relisted(w) ==
    tree.weeks[w].state = "read" =>
        OfItsWeek(branch, w, spoilt) \subseteq {e.id : e \in tree.weeks[w].listed}

BranchLists(w) ==
    \A e \in branch.weeks[w].listed :
        /\ e.id \in Wanted /\ e.day <= day
        /\ phase # "idle" => e.day <= rday
        /\ e.day \notin spoilt => Holds(branch.files, e)

WInv ==
    /\ IInv
    /\ phase # "idle" => rday <= day
    /\ \A w \in Weeks : BranchLists(w)
    /\ phase # "idle" => \A w \in Weeks : Lists(tree, w, rday) /\ Relisted(w)

\* The rebuilt list names every wanted paper of a readable day of the window.
LEMMA ReportLists ==
    ASSUME NEW files, NEW r, NEW e \in Entry, e.id \in Wanted, e.day \in Window(r),
           Holds(files, e)
    PROVE  e.id \in {x.id : x \in Report(files, r).listed}
<1> DEFINE entries == {x \in Entry : x.day \in {d \in Window(r) : files[d].state = "read"}
                                     /\ x.id \in files[x.day].ids}
           days == {d \in AllDays : [id |-> e.id, day |-> d] \in entries}
<1>1. e \in entries /\ e = [id |-> e.id, day |-> e.day] /\ e.day \in AllDays /\ e.id \in Papers
  BY DEF Holds, Entry
<1>2. days \in SUBSET Nat /\ days # {}
  BY <1>1, StoreAssumption DEF AllDays
<1>3. PICK d \in days : \A c \in days : d <= c
  BY <1>2, LeastNatural
<1> DEFINE first == [id |-> e.id, day |-> d]
<1>4. first \in entries /\ first.id = e.id /\ first.day = d
  BY <1>3
<1>5. \A f \in entries : f.id = e.id => f.day \in days
  <2> TAKE f \in entries
  <2>1. f = [id |-> f.id, day |-> f.day] /\ f.day \in AllDays
    BY DEF Entry
  <2> QED
    BY <2>1
<1>6. Report(files, r).listed = Fresh(entries)
  BY DEF Report
<1> HIDE DEF entries, days, first
<1>7. first \in Fresh(entries)
  BY <1>3, <1>4, <1>5 DEF Fresh
<1> QED
  BY <1>4, <1>6, <1>7

LEMMA ReportListsHeld ==
    ASSUME NEW files, NEW r, NEW e \in Report(files, r).listed
    PROVE  e \in Entry /\ e.id \in Wanted /\ e.day \in Window(r) /\ Holds(files, e)
<1> DEFINE entries == {x \in Entry : x.day \in {d \in Window(r) : files[d].state = "read"}
                                     /\ x.id \in files[x.day].ids}
<1>1. Report(files, r).listed = Fresh(entries)
  BY DEF Report
<1>2. e \in entries /\ e.id \in Wanted
  BY <1>1 DEF Fresh
<1> QED
  BY <1>2 DEF Holds

LEMMA WeekFileWritten ==
    ASSUME TypeOK, NEW file, tree' = [tree EXCEPT !.weeks[Week(rday)] = file]
    PROVE  /\ tree'.files = tree.files
           /\ tree'.weeks[Week(rday)] = file
           /\ \A w \in Weeks : w # Week(rday) => tree'.weeks[w] = tree.weeks[w]
<1>1. tree \in Directory /\ Week(rday) \in Weeks
  BY DEF TypeOK, RunTypeOK, Weeks
<1> QED
  BY <1>1 DEF Directory

LEMMA ListedAreEntries ==
    ASSUME TypeOK, NEW w \in Weeks
    PROVE  branch.weeks[w].listed \subseteq Entry /\ tree.weeks[w].listed \subseteq Entry
BY DEF TypeOK, Directory, WeekFile

LEMMA ListsInit == Init => WInv
<1> SUFFICES ASSUME Init PROVE WInv
  OBVIOUS
<1>1. \A w \in Weeks : branch.weeks[w].listed = {}
  BY DEF Init, NoWeek
<1> QED
  BY <1>1, StoreInit DEF WInv, Init, BranchLists

LEMMA BranchListsStep ==
    ASSUME WInv, TypeOK', [Next]_vars, NEW w \in Weeks
    PROVE  BranchLists(w)'
<1>1. /\ TypeOK /\ day \in Nat /\ rday \in Nat
      /\ branch.weeks[w].listed \subseteq Entry /\ tree.weeks[w].listed \subseteq Entry
  BY ListedAreEntries, StoreAssumption
  DEF WInv, IInv, TypeOK, ArXivTypeOK, RunTypeOK, AllDays
<1>2. \A e \in Entry : e.day \in AllDays /\ e.day \in Nat
  BY StoreAssumption DEF Entry, AllDays
<1>3. BranchLists(w)
  BY DEF WInv
<1>4. CASE Commit
  <2>1. /\ branch' = tree /\ phase' = "idle" /\ day' = day /\ phase # "idle"
        /\ spoilt' = spoilt \cup {d \in AllDays : tree.files[d].state = "unreadable"}
    BY <1>4 DEF Commit, EndRun, arXiv
  <2>2. rday <= day /\ Lists(tree, w, rday)
    BY <2>1 DEF WInv
  <2>3. ASSUME NEW e \in tree.weeks[w].listed
        PROVE  /\ e.id \in Wanted /\ e.day <= day
               /\ e.day \notin spoilt' => Holds(tree.files, e)
    BY <1>1, <1>2, <2>1, <2>2, <2>3 DEF Lists
  <2> QED
    BY <2>1, <2>3 DEF BranchLists
<1>5. CASE Seed
  <2>1. /\ branch'.weeks = branch.weeks /\ UNCHANGED <<day, phase, rday, spoilt>>
        /\ phase = "idle"
    BY <1>1, <1>5 DEF Seed, arXiv, runVars, ghosts, TypeOK, Directory
  <2>2. ASSUME NEW e \in branch.weeks[w].listed, Holds(branch.files, e)
        PROVE  Holds(branch'.files, e)
    <3>1. e.day \in AllDays
      BY <1>1, <1>2
    <3> QED
      BY <1>1, <1>5, <2>2, <3>1, SeedKeepsFiles DEF Holds
  <2> QED
    BY <1>3, <2>1, <2>2 DEF BranchLists
<1>6. CASE NextDay
  <2>1. day' = day + 1 /\ UNCHANGED <<branch, phase, rday, spoilt>>
    BY <1>6 DEF NextDay, runVars, ghosts
  <2>2. \A e \in branch.weeks[w].listed : e.day <= day => e.day <= day + 1
    BY <1>1, <1>2
  <2> QED
    BY <1>3, <2>1, <2>2 DEF BranchLists
<1>7. ASSUME NEW fetch \in BOOLEAN, StartRun(fetch)
      PROVE  BranchLists(w)'
  BY <1>3, <1>7 DEF BranchLists, StartRun, arXiv, ghosts
<1>8. CASE UNCHANGED <<branch, day, spoilt>> /\ (phase' = "idle" \/ (phase # "idle" /\ rday' = rday))
  BY <1>3, <1>8 DEF BranchLists
<1>9. CASE UNCHANGED <<branch, day, spoilt, phase, rday>>
  BY <1>3, <1>9 DEF BranchLists
<1> QED
  BY <1>4, <1>5, <1>6, <1>7, <1>8, <1>9
     DEF Next, vars, arXiv, runVars, ghosts, FetchStep, Collected, FetchFailed,
         WriteDay, Rebuild, CutShort, Die, LoseRun, EndRun

LEMMA RebuildLists ==
    ASSUME WInv, Rebuild, NEW w \in Weeks
    PROVE  (Lists(tree, w, rday) /\ Relisted(w))'
<1>1. /\ TypeOK /\ rday \in AllDays /\ phase = "rebuilding" /\ TreeKeepsBranch
      /\ branch.weeks[w].listed \subseteq Entry
  BY ListedAreEntries DEF WInv, IInv, TypeOK, RunTypeOK, Rebuild
<1>2. /\ tree'.files = tree.files
      /\ tree'.weeks[Week(rday)] = Report(tree.files, rday)
      /\ w # Week(rday) => tree'.weeks[w] = tree.weeks[w]
  BY <1>1, WeekFileWritten DEF Rebuild
<1>3. phase' = "commit" /\ UNCHANGED <<branch, rday, spoilt>>
  BY DEF Rebuild, ghosts
<1>4. Lists(tree, w, rday) /\ Relisted(w) /\ BranchLists(w)
  BY <1>1 DEF WInv
<1>5. CASE w # Week(rday)
  BY <1>1, <1>2, <1>3, <1>4, <1>5 DEF Lists, Relisted
<1>6. CASE w = Week(rday)
  <2>1. \A e \in tree'.weeks[w].listed :
          e.id \in Wanted /\ e.day <= rday /\ Holds(tree.files, e)
    BY <1>2, <1>6, ReportListsHeld DEF Window
  <2>2. Lists(tree, w, rday)'
    BY <1>2, <1>3, <2>1 DEF Lists
  <2>3. ASSUME NEW e \in branch.weeks[w].listed, Week(e.day) = w, e.day \notin spoilt
        PROVE  e.id \in {x.id : x \in Report(tree.files, rday).listed}
    <3>1. e \in Entry /\ e.day \in AllDays
      BY <1>1 DEF Entry
    <3>2. e.id \in Wanted /\ e.day <= rday /\ Holds(branch.files, e)
      BY <1>1, <1>4, <2>3 DEF BranchLists
    <3>3. Holds(tree.files, e)
      BY <1>1, <3>1, <3>2 DEF TreeKeepsBranch, Holds
    <3>4. e.day + Days >= rday
      BY <1>1, <1>6, <2>3, <3>1, <3>2, SameWeek
    <3>5. e.day \in Window(rday)
      BY <3>1, <3>2, <3>4 DEF Window
    <3> QED
      BY <3>1, <3>2, <3>3, <3>5, ReportLists
  <2>4. Relisted(w)'
    BY <1>2, <1>3, <1>6, <2>3 DEF Relisted, OfItsWeek
  <2> QED
    BY <2>2, <2>4
<1> QED
  BY <1>5, <1>6

LEMMA TreeListsStep ==
    ASSUME WInv, TypeOK', [Next]_vars, NEW w \in Weeks, phase' # "idle"
    PROVE  (Lists(tree, w, rday) /\ Relisted(w))'
<1>1. /\ TypeOK /\ branch.weeks[w].listed \subseteq Entry
      /\ tree.weeks[w].listed \subseteq Entry
  BY ListedAreEntries DEF WInv, IInv
<1>2. \A e \in Entry : e.day \in AllDays
  BY DEF Entry
<1>3. phase # "idle" => Lists(tree, w, rday) /\ Relisted(w)
  BY DEF WInv
<1>4. CASE Rebuild
  BY <1>4, RebuildLists
<1>5. CASE WriteDay
  <2>1. PICK d \in pending : tree' = [tree EXCEPT !.files[d] = Merged(@, OnDay(got, d))]
    BY <1>5 DEF WriteDay
  <2>2. /\ \A e \in AllDays : e # d => tree'.files[e] = tree.files[e]
        /\ tree'.files[d].state = "read"
        /\ tree.files[d].state = "read" => tree.files[d].ids \subseteq tree'.files[d].ids
    BY <1>1, <2>1, WriteDayWrites
  <2>3. tree'.weeks = tree.weeks /\ UNCHANGED <<branch, rday, spoilt>> /\ phase = "writing"
    BY <1>1, <1>5, <2>1 DEF WriteDay, ghosts, TypeOK, Directory
  <2>4. \A e \in tree.weeks[w].listed : Holds(tree.files, e) => Holds(tree'.files, e)
    BY <1>1, <1>2, <2>2 DEF Holds
  <2> QED
    BY <1>3, <2>3, <2>4 DEF Lists, Relisted
<1>6. CASE CutShort
  <2>1. phase' = "commit" /\ UNCHANGED <<branch, rday, spoilt>>
    BY <1>6 DEF CutShort, ghosts
  <2>2. ASSUME NEW d \in pending, tree' = [tree EXCEPT !.files[d] = HalfFile],
               phase = "writing"
        PROVE  (Lists(tree, w, rday) /\ Relisted(w))'
    <3>1. /\ tree'.files[d].state = "unreadable"
          /\ \A e \in AllDays : e # d => tree'.files[e] = tree.files[e]
      BY <1>1, <2>2, HalfFileWrites
    <3>2. tree'.weeks = tree.weeks
      BY <1>1, <2>2 DEF TypeOK, Directory
    <3>3. \A e \in tree.weeks[w].listed :
            Holds(tree.files, e) => Holds(tree'.files, e) \/ tree'.files[e.day].state = "unreadable"
      BY <1>1, <1>2, <3>1 DEF Holds
    <3> QED
      BY <1>3, <2>1, <2>2, <3>2, <3>3 DEF Lists, Relisted
  <2>3. ASSUME tree' = [tree EXCEPT !.weeks[Week(rday)] = [NoWeek EXCEPT !.state = "unreadable"]],
               phase = "rebuilding"
        PROVE  (Lists(tree, w, rday) /\ Relisted(w))'
    <3>1. /\ tree'.files = tree.files
          /\ tree'.weeks[Week(rday)] = [NoWeek EXCEPT !.state = "unreadable"]
          /\ w # Week(rday) => tree'.weeks[w] = tree.weeks[w]
      <4> DEFINE file == [NoWeek EXCEPT !.state = "unreadable"]
      <4> HIDE DEF file
      <4>1. tree' = [tree EXCEPT !.weeks[Week(rday)] = file]
        BY <2>3 DEF file
      <4> QED
        BY <1>1, <4>1, WeekFileWritten DEF file
    <3>2. CASE w = Week(rday)
      BY <2>1, <3>1, <3>2 DEF Lists, Relisted, NoWeek
    <3>3. CASE w # Week(rday)
      BY <1>3, <2>1, <2>3, <3>1, <3>3 DEF Lists, Relisted
    <3> QED
      BY <3>2, <3>3
  <2> QED
    BY <1>6, <2>2, <2>3 DEF CutShort
<1>7. ASSUME NEW fetch \in BOOLEAN, StartRun(fetch)
      PROVE  (Lists(tree, w, rday) /\ Relisted(w))'
  <2>1. tree' = branch /\ branch' = branch /\ rday' = day /\ spoilt' = spoilt
    BY <1>7 DEF StartRun, ghosts
  <2>2. BranchLists(w)
    BY DEF WInv
  <2> QED
    BY <2>1, <2>2 DEF BranchLists, Lists, Relisted, OfItsWeek
<1>8. CASE UNCHANGED <<branch, tree, rday, spoilt>> /\ phase \notin {"idle", "commit"}
  BY <1>3, <1>8 DEF Lists, Relisted
<1>9. CASE UNCHANGED <<branch, tree, rday, spoilt, phase>>
  BY <1>3, <1>9 DEF Lists, Relisted
<1>a. CASE Seed \/ Commit \/ LoseRun
  BY <1>a DEF Seed, Commit, LoseRun, EndRun, runVars
<1> QED
  BY <1>4, <1>5, <1>6, <1>7, <1>8, <1>9, <1>a
     DEF Next, vars, runVars, ghosts, NextDay, FetchStep, Collected, FetchFailed, Die

LEMMA ListsInductive == WInv /\ [Next]_vars => WInv'
<1> SUFFICES ASSUME WInv, [Next]_vars PROVE WInv'
  OBVIOUS
<1>1. IInv' /\ TypeOK'
  BY StoreInductive DEF WInv, IInv
<1>2. (phase # "idle" => rday <= day)'
  <2>1. day \in Nat /\ rday \in Nat /\ (phase # "idle" => rday <= day)
    BY StoreAssumption DEF WInv, IInv, TypeOK, ArXivTypeOK, RunTypeOK, AllDays
  <2>2. \/ phase' = "idle"
        \/ day' = day /\ rday' = day
        \/ phase # "idle" /\ rday' = rday /\ day' \in {day, day + 1}
        \/ UNCHANGED <<phase, rday>> /\ day' \in {day, day + 1}
    BY DEF Next, vars, arXiv, runVars, NextDay, StartRun, FetchStep, Collected,
       FetchFailed, WriteDay, Rebuild, Commit, CutShort, Die, LoseRun, EndRun, Seed
  <2> QED
    BY <2>1, <2>2
<1>3. \A w \in Weeks : BranchLists(w)'
  BY <1>1, BranchListsStep
<1>4. phase' # "idle" => \A w \in Weeks : (Lists(tree, w, rday) /\ Relisted(w))'
  BY <1>1, TreeListsStep
<1> QED
  BY <1>1, <1>2, <1>3, <1>4 DEF WInv, Weeks

\* A week's list is rebuilt over and over from a window that slides; no paper
\* of the week's own days slides out of it, for any papers, window that covers
\* a week, and order of sweeps, deaths and seedings.
THEOREM WeeksOnlyGrow == Spec => WeekNeverForgets
<1>1. ASSUME WInv, [Next]_vars, NEW w \in Weeks, branch'.weeks[w].state = "read"
      PROVE  OfItsWeek(branch, w, spoilt') \subseteq {e.id : e \in branch'.weeks[w].listed}
  <2>1. CASE Commit
    <3>1. branch' = tree /\ spoilt \subseteq spoilt' /\ phase # "idle"
      BY <2>1 DEF Commit
    <3>2. OfItsWeek(branch, w, spoilt) \subseteq {e.id : e \in tree.weeks[w].listed}
      BY <1>1, <3>1 DEF WInv, Relisted
    <3> QED
      BY <3>1, <3>2 DEF OfItsWeek
  <2>2. CASE branch'.weeks = branch.weeks
    BY <2>2 DEF OfItsWeek
  <2>3. CASE Seed
    <3>1. branch'.weeks = branch.weeks
      BY <1>1, <2>3 DEF Seed, WInv, IInv, TypeOK, Directory
    <3> QED
      BY <2>2, <3>1
  <2> QED
    BY <1>1, <2>1, <2>2, <2>3 DEF Next, vars, NextDay, StartRun, FetchStep, Collected,
       FetchFailed, WriteDay, Rebuild, CutShort, Die, LoseRun
<1>2. WInv /\ [Next]_vars =>
        [\A w \in Weeks :
           LET InWeek(file) == {e \in file.listed : Week(e.day) = w /\ e.day \notin spoilt'}
           IN  branch'.weeks[w].state = "read" =>
               {e.id : e \in InWeek(branch.weeks[w])}
                   \subseteq {e.id : e \in branch'.weeks[w].listed}]_vars
  BY <1>1 DEF OfItsWeek
<1> QED
  BY <1>2, ListsInit, ListsInductive, PTL DEF Spec, WeekNeverForgets

-----------------------------------------------------------------------------
(* What an archive answers: PaperFetch, page by page.                      *)

CONSTANTS MaxPages, Attempts
VARIABLES page, attempt

Fetch == INSTANCE PaperFetch

\* Of the interface being asked: whole archives behind, and of this one the
\* pages before this one, each with more to come.
WholeSoFar ==
    iface \in Fetch!Interfaces =>
        /\ unit \in 1..Len(Archives) /\ page \in 1..MaxPages[iface]
        /\ \A g \in got : g.of = iface /\ g.unit \in 1..unit
        /\ \A u \in 1..(unit - 1) : \E n \in 1..MaxPages[iface] :
              Fetch!EndsAt(iface, {g \in got : g.unit = u}, n)
        /\ {g.page : g \in {h \in got : h.unit = unit}} = 1..(page - 1)
        /\ \A g \in got : g.unit = unit => g.says = "more"

FetchInv == WholeSoFar /\ Fetch!AnswerIsWhole

\* Every interface is asked for a page at least.
HavePages == MaxPages \in [Fetch!Interfaces -> Nat \ {0}]

LEMMA Asking ==
    ASSUME HavePages, NEW i \in Fetch!Interfaces \cup {"none", "failed"}, Fetch!Ask(i)
    PROVE  FetchInv'
<1>1. Fetch!AnswerIsWhole'
  BY DEF Fetch!AnswerIsWhole, Fetch!Ask, Fetch!Interfaces
<1>2. WholeSoFar'
  BY ArchivesAssumption DEF HavePages, WholeSoFar, Fetch!Ask, Fetch!Interfaces
<1>. QED  BY <1>1, <1>2 DEF FetchInv

\* A page changes nothing of the archives left behind.
LEMMA OtherArchives ==
    ASSUME NEW says, Fetch!Receive(says), NEW u, u # unit
    PROVE  {g \in got' : g.unit = u} = {g \in got : g.unit = u}
  BY DEF Fetch!Receive

LEMMA PagePiles ==
    ASSUME HavePages, WholeSoFar, iface \in Fetch!Interfaces, NEW says, Fetch!Receive(says)
    PROVE  /\ {g.page : g \in {h \in got' : h.unit = unit}} = 1..page
           /\ \A g \in got' : g.of = iface /\ g.unit \in 1..unit
<1>. DEFINE new == [of |-> iface, unit |-> unit, page |-> page, says |-> says]
<1>1. got' = got \cup {new} /\ new.unit = unit /\ new.page = page /\ new.of = iface
  BY DEF Fetch!Receive
<1>. HIDE DEF new
<1>2. page \in Nat \ {0} /\ unit \in 1..unit
  BY ArchivesAssumption DEF HavePages, WholeSoFar, Fetch!Interfaces
<1>3. {g.page : g \in {h \in got' : h.unit = unit}}
        = {g.page : g \in {h \in got : h.unit = unit}} \cup {page}
  BY <1>1
<1>4. 1..page = 1..(page - 1) \cup {page}
  BY <1>2
<1>. QED  BY <1>1, <1>2, <1>3, <1>4 DEF WholeSoFar

\* The archive left behind is whole, like those before it.
LEMMA LeavingAnArchive ==
    ASSUME HavePages, FetchInv, iface \in Fetch!Interfaces, NEW says \in {"more", "last"},
           Fetch!Receive(says), Fetch!NextArchive,
           says = "more" => iface = "search" /\ page = MaxPages[iface]
    PROVE  FetchInv'
<1>. DEFINE new == [of |-> iface, unit |-> unit, page |-> page, says |-> says]
            Behind(u) == \E n \in 1..MaxPages[iface] :
                            Fetch!EndsAt(iface, {g \in got' : g.unit = u}, n)
<1>1. /\ unit \in 1..Len(Archives) /\ page \in 1..MaxPages[iface]
      /\ MaxPages[iface] \in Nat \ {0} /\ Len(Archives) \in Nat
      /\ \A g \in got : g.unit = unit => g.says = "more" /\ g.page \in 1..(page - 1)
  BY ArchivesAssumption DEF HavePages, FetchInv, WholeSoFar, Fetch!Interfaces
<1>2. /\ {g.page : g \in {h \in got' : h.unit = unit}} = 1..page
      /\ \A g \in got' : g.of = iface /\ g.unit \in 1..unit
  BY PagePiles DEF FetchInv
<1>3. got' = got \cup {new} /\ new.says = says /\ new.page = page
  BY DEF Fetch!Receive
<1>4. Fetch!EndsAt(iface, {g \in got' : g.unit = unit}, page)
  <2>. HIDE DEF new
  <2>1. ASSUME NEW g \in {h \in got' : h.unit = unit}
        PROVE  \/ g.says = "more" <=> g.page < page
               \/ iface = "search" /\ g.page = MaxPages[iface]
    <3>1. CASE g \in got
      BY <1>1, <2>1, <3>1
    <3>2. CASE g = new
      BY <1>1, <1>3, <3>2
    <3>. QED  BY <1>3, <2>1, <3>1, <3>2
  <2>. QED  BY <1>2, <2>1 DEF Fetch!EndsAt
<1>5. \A u \in 1..unit : Behind(u)
  <2>1. ASSUME NEW u \in 1..(unit - 1)
        PROVE  Behind(u)
    <3>1. u # unit
      BY <1>1
    <3>2. {g \in got' : g.unit = u} = {g \in got : g.unit = u}
      BY <3>1, OtherArchives
    <3>. QED  BY <3>2 DEF FetchInv, WholeSoFar
  <2>2. Behind(unit)
    BY <1>1, <1>4
  <2>. HIDE DEF Behind
  <2>3. \A u \in 1..unit : u \in 1..(unit - 1) \/ u = unit
    BY <1>1
  <2>. QED  BY <2>1, <2>2, <2>3
<1>6. CASE unit < Len(Archives)
  <2>1. unit' = unit + 1 /\ iface' = iface /\ page' = 1
    BY <1>6 DEF Fetch!NextArchive
  <2>2. unit' \in 1..Len(Archives) /\ page' \in 1..MaxPages[iface] /\ 1..(unit' - 1) = 1..unit
    BY <1>1, <1>6, <2>1
  <2>3. \A g \in got' : g.of = iface' /\ g.unit \in 1..unit' /\ g.unit # unit'
    BY <1>1, <1>2, <2>1
  <2>4. {g.page : g \in {h \in got' : h.unit = unit'}} = 1..(page' - 1)
    BY <2>1, <2>3
  <2>5. WholeSoFar'
    BY <1>5, <2>1, <2>2, <2>3, <2>4 DEF WholeSoFar
  <2>6. Fetch!AnswerIsWhole'
    BY <2>1 DEF Fetch!AnswerIsWhole, Fetch!Interfaces
  <2>. QED  BY <2>5, <2>6 DEF FetchInv
<1>7. CASE ~(unit < Len(Archives))
  <2>1. iface' = "answered" /\ unit = Len(Archives)
    BY <1>1, <1>7 DEF Fetch!NextArchive
  <2>2. Fetch!AnswerIsWhole'
    BY <1>2, <1>5, <2>1 DEF Fetch!AnswerIsWhole
  <2>3. WholeSoFar'
    BY <2>1 DEF WholeSoFar, Fetch!Interfaces
  <2>. QED  BY <2>2, <2>3 DEF FetchInv
<1>. QED  BY <1>6, <1>7

LEMMA FetchInvStep ==
    ASSUME HavePages, FetchInv, [Fetch!Next]_(Fetch!vars)
    PROVE  FetchInv'
<1>1. CASE UNCHANGED Fetch!vars
  BY <1>1 DEF Fetch!vars, FetchInv, WholeSoFar, Fetch!AnswerIsWhole
<1>2. CASE Fetch!BeginFetch \/ Fetch!EndFetch \/ Fetch!Kill \/ Fetch!FetchError
  BY <1>2, Asking DEF Fetch!BeginFetch, Fetch!EndFetch, Fetch!Kill, Fetch!FetchError,
                      Fetch!Fallback, Fetch!Interfaces
<1>3. CASE Fetch!LastPageServed
  BY <1>3, LeavingAnArchive DEF Fetch!LastPageServed
<1>4. CASE Fetch!SearchCutShort
  BY <1>4, LeavingAnArchive DEF Fetch!SearchCutShort, Fetch!Interfaces
<1>5. CASE Fetch!MorePages
  <2>1. /\ iface \in Fetch!Interfaces /\ page < MaxPages[iface] /\ Fetch!Receive("more")
        /\ page' = page + 1 /\ iface' = iface /\ unit' = unit
    BY <1>5 DEF Fetch!MorePages
  <2>2. /\ {g.page : g \in {h \in got' : h.unit = unit}} = 1..page
        /\ \A g \in got' : g.of = iface /\ g.unit \in 1..unit
    BY <2>1, PagePiles DEF FetchInv
  <2>3. /\ unit \in 1..Len(Archives) /\ page' \in 1..MaxPages[iface] /\ page' - 1 = page
        /\ unit \in Nat
    <3>1. /\ unit \in 1..Len(Archives) /\ page \in 1..MaxPages[iface]
          /\ Len(Archives) \in Nat
      BY <2>1, ArchivesAssumption DEF FetchInv, WholeSoFar
    <3>2. MaxPages[iface] \in Nat
      BY <2>1 DEF HavePages
    <3>. QED  BY <2>1, <3>1, <3>2
  <2>4. \A g \in got' : g.unit = unit => g.says = "more"
    BY <2>1 DEF Fetch!Receive, FetchInv, WholeSoFar
  <2>5. ASSUME NEW u \in 1..(unit - 1)
        PROVE  {g \in got' : g.unit = u} = {g \in got : g.unit = u}
    <3>1. u # unit
      BY <2>3
    <3>. QED  BY <2>1, <3>1, OtherArchives
  <2>6. WholeSoFar'
    <3>1. \A u \in 1..(unit - 1) : \E n \in 1..MaxPages[iface] :
            Fetch!EndsAt(iface, {g \in got' : g.unit = u}, n)
      BY <2>1, <2>5 DEF FetchInv, WholeSoFar
    <3>. QED  BY <2>1, <2>2, <2>3, <2>4, <3>1 DEF WholeSoFar
  <2>7. Fetch!AnswerIsWhole'
    BY <2>1 DEF Fetch!AnswerIsWhole, Fetch!Interfaces
  <2>. QED  BY <2>6, <2>7 DEF FetchInv
<1>6. CASE Fetch!Refused
  <2>1. CASE UNCHANGED <<iface, unit, page, got>>
    BY <2>1 DEF FetchInv, WholeSoFar, Fetch!AnswerIsWhole
  <2>. QED  BY <1>2, <1>6, <2>1 DEF Fetch!Refused
<1>7. CASE Fetch!HarvestNeverEnds \/ Fetch!Unusable
  BY <1>2, <1>7 DEF Fetch!HarvestNeverEnds, Fetch!Unusable
<1>. QED
  BY <1>1, <1>2, <1>3, <1>4, <1>5, <1>6, <1>7 DEF Fetch!Next, Fetch!Step

LEMMA FetchInvariant ==
    ASSUME HavePages
    PROVE  Fetch!Spec => []FetchInv
<1>1. Fetch!Init => FetchInv
  BY DEF Fetch!Init, FetchInv, WholeSoFar, Fetch!AnswerIsWhole, Fetch!Interfaces
<1>. QED  BY <1>1, FetchInvStep, PTL DEF Fetch!Spec

\* Whatever pages, retries, bounds and failures fetch_today goes through (_get,
\* harvest, search), an answer is of one interface and holds every archive to its
\* last page, or, from search, to the page it gives up at.
THEOREM AnswersAreWhole ==
    ASSUME HavePages
    PROVE  Fetch!Spec => []Fetch!AnswerIsWhole
  BY FetchInvariant, PTL DEF FetchInv

-----------------------------------------------------------------------------
(* Its pages, seen as PaperAnswer's archives.                              *)

LEMMA AskingForgets ==
    ASSUME NEW i, Fetch!Ask(i)
    PROVE  Fetch!A!Ask(i)
  BY DEF Fetch!Ask, Fetch!A!Ask, Fetch!Settled

LEMMA ArchiveSettles ==
    ASSUME HavePages, FetchInv, iface \in Fetch!Interfaces,
           NEW says \in {"more", "last"}, Fetch!Receive(says), Fetch!NextArchive
    PROVE  Fetch!A!ArchiveAnswered({g \in got' : g.of = iface /\ g.unit = unit})
<1>1. unit \in 1..Len(Archives) /\ Len(Archives) \in Nat
  BY ArchivesAssumption DEF FetchInv, WholeSoFar
<1>2. \A g \in got' : g.of = iface /\ g.unit \in 1..unit
  BY PagePiles DEF FetchInv
<1>3. Fetch!Settled = {g \in got' : g.unit < unit}
  BY <1>1 DEF Fetch!Receive, Fetch!Settled
<1>4. got' = Fetch!Settled \cup {g \in got' : g.of = iface /\ g.unit = unit}
  BY <1>1, <1>2, <1>3
<1>5. Fetch!Settled' = got'
  <2>1. CASE unit < Len(Archives)
    <3>1. unit' = unit + 1 /\ iface' = iface
      BY <2>1 DEF Fetch!NextArchive
    <3>2. \A g \in got' : g.unit < unit'
      BY <1>1, <1>2, <3>1
    <3>. QED  BY <3>1, <3>2 DEF Fetch!Settled
  <2>2. CASE ~(unit < Len(Archives))
    BY <2>2 DEF Fetch!NextArchive, Fetch!Settled, Fetch!Interfaces
  <2>. QED  BY <2>1, <2>2
<1>. QED
  BY <1>4, <1>5 DEF Fetch!A!ArchiveAnswered, Fetch!A!Interfaces, Fetch!Interfaces,
                    Fetch!NextArchive

LEMMA FetchStepAnswers ==
    ASSUME HavePages, FetchInv, [Fetch!Next]_(Fetch!vars)
    PROVE  [\/ Fetch!A!Begin \/ Fetch!A!InterfaceFails \/ Fetch!A!Kill
            \/ Fetch!A!ArchiveAnswered({g \in got' : g.of = iface /\ g.unit = unit})
           ]_(Fetch!A!answerVars)
<1>1. CASE Fetch!BeginFetch
  BY <1>1, AskingForgets DEF Fetch!BeginFetch, Fetch!A!Begin
<1>2. CASE Fetch!EndFetch \/ Fetch!Kill
  <2>1. Fetch!A!Ask("none")
    BY <1>2, AskingForgets DEF Fetch!EndFetch, Fetch!Kill
  <2>. QED  BY <2>1 DEF Fetch!A!Ask, Fetch!A!Kill
<1>3. CASE Fetch!FetchError
  BY <1>3, AskingForgets DEF Fetch!FetchError, Fetch!A!InterfaceFails, Fetch!Interfaces,
                             Fetch!A!Interfaces, Fetch!Fallback, Fetch!A!Fallback
<1>4. CASE Fetch!LastPageServed
  BY <1>4, ArchiveSettles DEF Fetch!LastPageServed
<1>5. CASE Fetch!SearchCutShort
  BY <1>5, ArchiveSettles DEF Fetch!SearchCutShort, Fetch!Interfaces
<1>6. CASE Fetch!MorePages
  <2>1. unit \in Nat /\ iface \in Fetch!Interfaces /\ Fetch!Receive("more")
        /\ UNCHANGED <<iface, unit>>
    BY <1>6, ArchivesAssumption DEF FetchInv, WholeSoFar, Fetch!MorePages
  <2>2. Fetch!Settled' = Fetch!Settled
    BY <2>1 DEF Fetch!Settled, Fetch!Receive
  <2>. QED  BY <2>1, <2>2 DEF Fetch!A!answerVars
<1>7. CASE UNCHANGED <<iface, unit, got>>
  BY <1>7 DEF Fetch!Settled, Fetch!A!answerVars
<1>8. CASE Fetch!Refused \/ Fetch!HarvestNeverEnds \/ Fetch!Unusable
  BY <1>3, <1>7, <1>8 DEF Fetch!Refused, Fetch!HarvestNeverEnds, Fetch!Unusable
<1>9. CASE UNCHANGED Fetch!vars
  BY <1>7, <1>9 DEF Fetch!vars
<1>. QED
  BY <1>1, <1>2, <1>3, <1>4, <1>5, <1>6, <1>8, <1>9 DEF Fetch!Next, Fetch!Step

\* Whoever stores the answer sees whole archives, one after the other, of one
\* interface: what fetch_today does page by page (scripts/fetch_papers.py:378-456,
\* 702-717) implements the conversation PaperStore is written with.
THEOREM FetchAnswers ==
    ASSUME HavePages
    PROVE  Fetch!Spec => Fetch!ImplementsAnswer
<1>1. Fetch!Init => Fetch!A!AnswerInit
  BY DEF Fetch!Init, Fetch!A!AnswerInit, Fetch!Settled
<1>. QED
  BY <1>1, FetchInvariant, FetchStepAnswers, PTL DEF Fetch!Spec, Fetch!ImplementsAnswer
=============================================================================
