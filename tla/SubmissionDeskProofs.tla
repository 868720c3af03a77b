------------------------- MODULE SubmissionDeskProofs -------------------------
(* What holds of SubmissionDesk for every set of alphas, declarations, grids and
   universes and for every bound. *)
EXTENDS SubmissionDesk, FiniteSetTheorems, WellFoundedInduction, TLAPS

------------------------------------------------------------------------------
(* One run seals one code state, whoever touches the tree meanwhile. *)

\* Records carry the number of a run that has started.
Numbered ==
    /\ runs \in Nat
    /\ \A k \in DOMAIN records : records[k].readable => records[k].run \in Nat /\ records[k].run <= runs

\* Until it has its pin, the run in progress has written nothing.
NothingYet ==
    phase \in {"prepared", "counted", "loaded"} =>
        \A k \in DOMAIN records : records[k].readable => records[k].run # runs

\* From then on, what it has written carries its pin and its count.
UnderThePin ==
    phase = "judging" =>
        \A k \in DOMAIN records : records[k].readable /\ records[k].run = runs =>
            /\ k.run.sha = pin.sha
            /\ records[k].dirty = pin.dirty
            /\ records[k].desk = desk

OneCode == Numbered /\ NothingYet /\ UnderThePin /\ OneCodePerRun

\* A step that neither writes a record nor starts a run keeps it, provided that
\* the run ends, goes on as it was, or comes to its pin.
LEMMA OneCodeWithoutRecords ==
    ASSUME OneCode, UNCHANGED <<records, runs>>,
           \/ phase' = "idle"
           \/ phase' \in {"counted", "loaded"} /\ phase \in {"prepared", "counted"}
           \/ phase' = "judging" /\ phase = "loaded"
           \/ UNCHANGED <<phase, pin, desk>>
    PROVE OneCode'
<1>1. Numbered' BY DEF OneCode, Numbered
<1>2. NothingYet'
  <2>1. CASE phase' \in {"prepared", "counted", "loaded"}
    <3>1. phase \in {"prepared", "counted", "loaded"} BY <2>1
    <3>2. QED BY <3>1 DEF OneCode, NothingYet
  <2>2. CASE phase' \notin {"prepared", "counted", "loaded"} BY <2>2 DEF NothingYet
  <2>3. QED BY <2>1, <2>2
<1>3. UnderThePin'
  <2>1. CASE phase' = "judging" /\ phase = "loaded"
    <3>1. \A k \in DOMAIN records : records[k].readable => records[k].run # runs
      BY <2>1 DEF OneCode, NothingYet
    <3>2. QED BY <3>1 DEF UnderThePin
  <2>2. CASE UNCHANGED <<phase, pin, desk>> BY <2>2 DEF OneCode, UnderThePin
  <2>3. CASE phase' # "judging" BY <2>3 DEF UnderThePin
  <2>4. QED BY <2>1, <2>2, <2>3
<1>4. OneCodePerRun' BY DEF OneCode, OneCodePerRun
<1>5. QED BY <1>1, <1>2, <1>3, <1>4 DEF OneCode

\* A new run has a number no record has.
LEMMA OneCodePrepare ==
    ASSUME OneCode, NEW w, NEW allowDirty, Prepare(w, allowDirty)
    PROVE OneCode'
<1>1. records' = records /\ runs' = runs + 1 /\ phase' = "prepared" BY DEF Prepare
<1>2. Numbered' BY <1>1 DEF OneCode, Numbered
<1>3. NothingYet' BY <1>1 DEF OneCode, Numbered, NothingYet
<1>4. UnderThePin' BY <1>1 DEF UnderThePin
<1>5. OneCodePerRun' BY <1>1 DEF OneCode, OneCodePerRun
<1>6. QED BY <1>2, <1>3, <1>4, <1>5 DEF OneCode

\* The record of one alpha is sealed with the run's own pin and count.
LEMMA OneCodeJudge ==
    ASSUME OneCode, NEW a, phase = "judging", UNCHANGED <<phase, pin, desk, runs>>,
           NEW c, records' = Written(Key(pin, a), c),
           c.readable => c.run = runs /\ c.dirty = pin.dirty /\ c.desk = desk
    PROVE OneCode'
<1> DEFINE key == Key(pin, a)
<1>1. key.run.sha = pin.sha BY DEF Key, RunId
<1> HIDE DEF key
<1>2. DOMAIN records' = DOMAIN records \cup {key} BY DEF Written, key
<1>3. \A k \in DOMAIN records' : records'[k] = IF k = key THEN c ELSE records[k] BY DEF Written, key
<1>4. \A k \in DOMAIN records' : k # key => k \in DOMAIN records /\ records'[k] = records[k]
  BY <1>2, <1>3
<1>5. records'[key] = c BY <1>2, <1>3
<1>6. Numbered' 
  <2>1. runs' \in Nat BY DEF OneCode, Numbered
  <2>2. ASSUME NEW k \in DOMAIN records', records'[k].readable
        PROVE records'[k].run \in Nat /\ records'[k].run <= runs'
    BY <1>4, <1>5, <2>1, <2>2 DEF OneCode, Numbered
  <2>3. QED BY <2>1, <2>2 DEF Numbered
<1>7. NothingYet' BY DEF NothingYet
<1>8. \A k \in DOMAIN records' : records'[k].readable /\ records'[k].run = runs =>
          k.run.sha = pin.sha /\ records'[k].dirty = pin.dirty /\ records'[k].desk = desk
  BY <1>1, <1>4, <1>5 DEF OneCode, UnderThePin
<1>9. UnderThePin' BY <1>8 DEF UnderThePin
<1>10. OneCodePerRun'
  <2>1. SUFFICES ASSUME NEW k \in DOMAIN records', NEW l \in DOMAIN records',
                        records'[k].readable, records'[l].readable,
                        records'[k].run = records'[l].run
                 PROVE /\ k.run.sha = l.run.sha
                       /\ records'[k].dirty = records'[l].dirty
                       /\ records'[k].desk = records'[l].desk
    BY DEF OneCodePerRun
  <2>2. CASE records'[k].run = runs BY <1>8, <2>1, <2>2
  <2>3. CASE records'[k].run # runs
    <3>1. k # key /\ l # key BY <1>5, <2>1, <2>3
    <3>2. QED BY <1>4, <2>1, <3>1 DEF OneCode, OneCodePerRun
  <2>4. QED BY <2>2, <2>3
<1>11. QED BY <1>6, <1>7, <1>9, <1>10 DEF OneCode

\* Half a record says nothing of its run, and the run is over.
LEMMA OneCodeDieWriting ==
    ASSUME OneCode, NEW a, DieWriting(a)
    PROVE OneCode'
<1> DEFINE key == Key(pin, a)
<1> HIDE DEF key
<1>1. phase' = "idle" /\ runs' = runs BY DEF DieWriting, Stop
<1>2. records' = Written(key, HalfARecord) BY DEF DieWriting, key
<1>3. \A k \in DOMAIN records' :
          records'[k].readable => k \in DOMAIN records /\ records'[k] = records[k]
  BY <1>2 DEF Written, HalfARecord
<1>4. Numbered' BY <1>1, <1>3 DEF OneCode, Numbered
<1>5. NothingYet' BY <1>1 DEF NothingYet
<1>6. UnderThePin' BY <1>1 DEF UnderThePin
<1>7. OneCodePerRun' BY <1>3 DEF OneCode, OneCodePerRun
<1>8. QED BY <1>4, <1>5, <1>6, <1>7 DEF OneCode

\* Every step keeps it.
LEMMA OneCodeStep ==
    ASSUME OneCode, [Next]_vars
    PROVE OneCode'
<1>1. ASSUME NEW a, NEW d, EditDeclaration(a, d) PROVE OneCode'
  BY <1>1, OneCodeWithoutRecords DEF EditDeclaration, job
<1>2. ASSUME NEW a, NEW g, EditCode(a, g) PROVE OneCode'
  BY <1>2, OneCodeWithoutRecords DEF EditCode, job
<1>3. CASE Commit BY <1>3, OneCodeWithoutRecords DEF Commit, job
<1>4. ASSUME NEW a, NEW to, Decide(a, to) PROVE OneCode'
  BY <1>4, OneCodeWithoutRecords DEF Decide, job
<1>5. CASE SpoilLedger \/ LoseLedger
  BY <1>5, OneCodeWithoutRecords DEF SpoilLedger, LoseLedger, job
<1>6. ASSUME NEW w, NEW allowDirty, Prepare(w, allowDirty) PROVE OneCode'
  BY <1>6, OneCodePrepare
<1>7. CASE CountDesk BY <1>7, OneCodeWithoutRecords DEF CountDesk
<1>8. ASSUME NEW held, Load(held) PROVE OneCode'
  BY <1>8, OneCodeWithoutRecords DEF Load, Stop
<1>9. CASE TakePin BY <1>9, OneCodeWithoutRecords DEF TakePin, Stop
<1>10. ASSUME NEW u, StartUniverse(u) PROVE OneCode'
  BY <1>10, OneCodeWithoutRecords DEF StartUniverse, PinFor
<1>11. CASE EndUniverse BY <1>11, OneCodeWithoutRecords DEF EndUniverse
<1>12. ASSUME NEW a, Judge(a) PROVE OneCode'
  <2>1. CASE UNCHANGED records BY <1>12, <2>1, OneCodeWithoutRecords DEF Judge
  <2>2. CASE \E approved \in BOOLEAN, deflated \in {FALSE, desk.measured} :
                 records' = Written(Key(pin, a), Record(a, approved, deflated))
    <3>1. PICK approved \in BOOLEAN, deflated \in {FALSE, desk.measured} :
               records' = Written(Key(pin, a), Record(a, approved, deflated))
      BY <2>2
    <3> DEFINE c == Record(a, approved, deflated)
    <3>2. c.run = runs /\ c.dirty = pin.dirty /\ c.desk = desk BY DEF Record
    <3> HIDE DEF c
    <3>3. records' = Written(Key(pin, a), c) BY <3>1 DEF c
    <3>4. phase = "judging" /\ UNCHANGED <<phase, pin, desk, runs>> BY <1>12 DEF Judge
    <3>5. QED BY <3>2, <3>3, <3>4, OneCodeJudge
  <2>3. QED BY <1>12, <2>1, <2>2 DEF Judge
<1>13. ASSUME NEW a, DieWriting(a) PROVE OneCode'
  BY <1>13, OneCodeDieWriting
<1>14. CASE Finish \/ Die BY <1>14, OneCodeWithoutRecords DEF Finish, Die, Stop
<1>15. CASE UNCHANGED vars BY <1>15, OneCodeWithoutRecords DEF vars, job
<1>16. QED
  BY <1>1, <1>2, <1>3, <1>4, <1>5, <1>6, <1>7, <1>8, <1>9, <1>10, <1>11, <1>12, <1>13, <1>14, <1>15
  DEF Next

\* The records of one run share the commit, the dirty flag and the desk's count
\* (scripts/submit_alpha.py:736-740), even when people commit while it runs.
THEOREM OneRunOneCode == Spec => []OneCodePerRun
<1>1. Init => OneCode BY DEF Init, OneCode, Numbered, NothingYet, UnderThePin, OneCodePerRun
<1>2. OneCode /\ [Next]_vars => OneCode' BY OneCodeStep
<1>3. OneCode => OneCodePerRun BY DEF OneCode
<1>4. QED BY <1>1, <1>2, <1>3, PTL DEF Spec

------------------------------------------------------------------------------
(* What a record says of its commit, whoever touches the tree meanwhile. *)

Typed == commits \in Seq(Tree) /\ tree \in Tree /\ Len(commits) >= 1

Steady(n) == {[sha |-> n, dirty |-> FALSE]}

\* A run whose looks at git all showed one clean commit has read that commit.
ReadFromTheCommit ==
    phase # "idle" =>
        /\ seen # {}
        /\ \A n : seen = Steady(n) =>
             /\ n \in 1 .. Len(commits)
             /\ \A a \in Alphas : a \in plan =>
                  /\ read[a].declaration = commits[n].declarations[a]
                  /\ read[a].committed
                  /\ code[a].grid = commits[n].grids[code[a].strategy]
             /\ phase \in {"counted", "loaded", "judging"} =>
                  desk = DeskTrials(commits[n], AllCommitted)

PinIsACommit == phase = "judging" => pin.sha \in 1 .. Len(commits)

ShasAreCommits == \A k \in DOMAIN records : k.run.sha \in 1 .. Len(commits)

Reproducible ==
    Typed /\ ReadFromTheCommit /\ PinIsACommit /\ ShasAreCommits /\ RecordMatchesPin

\* A look that shows a clean tree shows the last commit.
LEMMA CleanReading ==
    ASSUME Typed, NEW n, Reading = [sha |-> n, dirty |-> FALSE]
    PROVE  /\ n \in 1 .. Len(commits) /\ tree = commits[n]
           /\ \A a : TrackedAndClean(a)
<1>1. n = Len(commits) /\ ~Dirty
  BY DEF Reading
<1>2. tree = HEAD
  BY <1>1 DEF Dirty
<1>. QED  BY <1>1, <1>2 DEF Typed, HEAD, TrackedAndClean

\* The tree and its history keep their types, and a sha keeps its tree.
LEMMA TypedStep ==
    ASSUME Typed, [Next]_vars
    PROVE  /\ Typed'
           /\ commits' = commits \/ commits' = Append(commits, tree)
           /\ Len(commits) \in Nat /\ Len(commits') \in Nat /\ Len(commits) <= Len(commits')
           /\ \A n \in 1 .. Len(commits) : commits'[n] = commits[n]
<1>1. ASSUME NEW a \in Alphas, NEW d \in Declarations, EditDeclaration(a, d)
      PROVE  tree' \in Tree /\ commits' = commits
  BY <1>1 DEF EditDeclaration, Typed, Tree
<1>2. ASSUME NEW a \in Alphas, NEW g \in Grids, EditCode(a, g)
      PROVE  tree' \in Tree /\ commits' = commits
  BY <1>2 DEF EditCode, Typed, Tree
<1>3. \/ tree' \in Tree /\ commits' = commits
      \/ tree' = tree /\ commits' = Append(commits, tree)
  <2>1. CASE \/ \E a \in Alphas, to \in Words : Decide(a, to)
             \/ SpoilLedger \/ LoseLedger \/ CountDesk \/ TakePin \/ EndUniverse
             \/ \E p \in Wanted, allowDirty \in {FALSE, Scratch} : Prepare(p, allowDirty)
             \/ \E held \in SUBSET Universes : Load(held)
             \/ \E u \in Universes : StartUniverse(u)
             \/ \E a \in Alphas : Judge(a) \/ DieWriting(a)
             \/ Finish \/ Die \/ UNCHANGED vars
    <3>1. UNCHANGED <<tree, commits>>
      BY <2>1 DEF Decide, SpoilLedger, LoseLedger, Prepare, CountDesk, Load, TakePin,
                  StartUniverse, EndUniverse, Judge, DieWriting, Finish, Die, vars, tracked
    <3>. QED  BY <3>1 DEF Typed
  <2>2. CASE Commit
    BY <2>2 DEF Commit
  <2>. QED  BY <1>1, <1>2, <2>1, <2>2 DEF Next
<1>4. CASE tree' \in Tree /\ commits' = commits
  BY <1>4 DEF Typed
<1>5. CASE tree' = tree /\ commits' = Append(commits, tree)
  BY <1>5 DEF Typed
<1>. QED
  BY <1>3, <1>4, <1>5

\* Records stay true to their commits while the history only grows.
LEMMA RecordsStayTrue ==
    ASSUME Typed, ShasAreCommits, RecordMatchesPin, [Next]_vars, records' = records
    PROVE  ShasAreCommits' /\ RecordMatchesPin'
<1>1. /\ Len(commits) \in Nat /\ Len(commits') \in Nat /\ Len(commits) <= Len(commits')
      /\ \A n \in 1 .. Len(commits) : commits'[n] = commits[n]
  BY TypedStep
<1>2. ShasAreCommits'
  BY <1>1 DEF ShasAreCommits
<1>3. \A k \in DOMAIN records : commits'[k.run.sha] = commits[k.run.sha]
  BY <1>1 DEF ShasAreCommits
<1>. QED  BY <1>2, <1>3 DEF RecordMatchesPin, AllCommitted

\* A step that neither reads nor writes: the run ends or goes on with what it read.
LEMMA ReproducibleWithoutRecords ==
    ASSUME Reproducible, [Next]_vars, records' = records,
           \/ phase' = "idle"
           \/ /\ phase # "idle" /\ plan' \subseteq plan /\ UNCHANGED <<read, code, desk, seen>>
              /\ phase' \in {"counted", "loaded", "judging"} =>
                     phase \in {"counted", "loaded", "judging"}
              /\ phase' = "judging" => \/ phase = "judging" /\ pin' = pin
                                       \/ pin'.sha = Len(commits)
    PROVE  Reproducible'
<1>1. Typed' /\ Typed /\ ShasAreCommits' /\ RecordMatchesPin'
  BY TypedStep, RecordsStayTrue DEF Reproducible
<1>2. /\ Len(commits) \in Nat /\ Len(commits') \in Nat /\ Len(commits) <= Len(commits')
      /\ \A n \in 1 .. Len(commits) : commits'[n] = commits[n]
  BY <1>1, TypedStep
<1>3. CASE phase' = "idle"
  BY <1>1, <1>3 DEF Reproducible, ReadFromTheCommit, PinIsACommit
<1>4. CASE phase' # "idle"
  <2>1. PinIsACommit'
    BY <1>1, <1>2, <1>4 DEF Reproducible, PinIsACommit, Typed
  <2>2. ReadFromTheCommit'
    <3>1. /\ phase # "idle" /\ plan' \subseteq plan /\ UNCHANGED <<read, code, desk, seen>>
          /\ phase' \in {"counted", "loaded", "judging"} =>
                 phase \in {"counted", "loaded", "judging"}
      BY <1>4
    <3>2. seen' # {}
      BY <3>1 DEF Reproducible, ReadFromTheCommit
    <3>3. ASSUME NEW n, seen' = Steady(n)
          PROVE  /\ n \in 1 .. Len(commits')
                 /\ \A a \in Alphas : a \in plan' =>
                      /\ read'[a].declaration = commits'[n].declarations[a]
                      /\ read'[a].committed
                      /\ code'[a].grid = commits'[n].grids[code'[a].strategy]
                 /\ phase' \in {"counted", "loaded", "judging"} =>
                      desk' = DeskTrials(commits'[n], AllCommitted)
      <4>1. /\ n \in 1 .. Len(commits)
            /\ \A a \in Alphas : a \in plan =>
                 /\ read[a].declaration = commits[n].declarations[a]
                 /\ read[a].committed
                 /\ code[a].grid = commits[n].grids[code[a].strategy]
            /\ phase \in {"counted", "loaded", "judging"} =>
                 desk = DeskTrials(commits[n], AllCommitted)
        BY <3>1, <3>3 DEF Reproducible, ReadFromTheCommit
      <4>2. commits'[n] = commits[n] /\ n \in 1 .. Len(commits')
        BY <1>2, <4>1
      <4>. QED  BY <3>1, <4>1, <4>2
    <3>. QED  BY <3>2, <3>3 DEF ReadFromTheCommit, Steady, AllCommitted
  <2>. QED  BY <1>1, <2>1, <2>2 DEF Reproducible
<1>. QED  BY <1>3, <1>4

LEMMA ReproduciblePrepare ==
    ASSUME Reproducible, [Next]_vars, NEW p \in Wanted, NEW allowDirty, Prepare(p, allowDirty)
    PROVE  Reproducible'
<1>1. UNCHANGED <<tree, commits, records>> /\ phase' = "prepared" /\ seen' = {Reading}
  BY DEF Prepare, tracked
<1>2. Typed' /\ ShasAreCommits' /\ RecordMatchesPin'
  BY <1>1, TypedStep, RecordsStayTrue DEF Reproducible
<1>3. PinIsACommit'
  BY <1>1 DEF PinIsACommit
<1>4. ASSUME NEW n, seen' = Steady(n)
      PROVE  /\ n \in 1 .. Len(commits')
             /\ \A a \in Alphas : a \in plan' =>
                  /\ read'[a].declaration = commits'[n].declarations[a]
                  /\ read'[a].committed
                  /\ code'[a].grid = commits'[n].grids[code'[a].strategy]
  <2>1. Reading = [sha |-> n, dirty |-> FALSE]
    <3>. HIDE DEF Reading
    <3>. QED  BY <1>1, <1>4 DEF Steady
  <2>2. n \in 1 .. Len(commits) /\ tree = commits[n] /\ \A a : TrackedAndClean(a)
    BY <2>1, CleanReading DEF Reproducible
  <2>3. ASSUME NEW a \in Alphas, a \in plan'
        PROVE  read'[a] = [declaration |-> tree.declarations[a], committed |-> TrackedAndClean(a)]
    BY <2>3 DEF Prepare
  <2>4. ASSUME NEW a \in Alphas, a \in plan'
        PROVE  /\ read'[a].declaration = tree.declarations[a]
               /\ read'[a].committed
               /\ code'[a].grid = tree.grids[code'[a].strategy]
    <3>. DEFINE reading == [declaration |-> tree.declarations[a], committed |-> TrackedAndClean(a)]
    <3>1. read'[a] = reading
      BY <2>3, <2>4, Zenon
    <3>2. reading.committed
      BY <2>2, Zenon
    <3>3. reading.declaration = tree.declarations[a]
      BY Zenon
    <3>. HIDE DEF reading
    <3>4. read'[a].declaration = tree.declarations[a] /\ read'[a].committed
      BY <3>1, <3>2, <3>3, Zenon
    <3>5. code'[a] = [strategy |-> p[a], grid |-> tree.grids[p[a]]]
      BY <2>4 DEF Prepare
    <3>6. code'[a].grid = tree.grids[code'[a].strategy]
      BY <3>5
    <3>. QED  BY <3>4, <3>6
  <2>. QED  BY <1>1, <2>2, <2>4
<1>5. ReadFromTheCommit'
  BY <1>1, <1>4 DEF ReadFromTheCommit, Steady
<1>. QED  BY <1>2, <1>3, <1>5 DEF Reproducible

\* The count is of the commit when this look, too, shows it clean.
LEMMA ReproducibleCount ==
    ASSUME Reproducible, [Next]_vars, CountDesk
    PROVE  Reproducible'
<1>1. /\ UNCHANGED <<tree, commits, records, plan, read, code>>
      /\ phase = "prepared" /\ phase' = "counted" /\ seen' = seen \cup {Reading}
      /\ desk' = DeskTrials(tree, [a \in Alphas |-> TrackedAndClean(a)])
  BY DEF CountDesk, tracked
<1>2. Typed' /\ ShasAreCommits' /\ RecordMatchesPin'
  BY <1>1, TypedStep, RecordsStayTrue DEF Reproducible
<1>3. PinIsACommit'
  BY <1>1 DEF PinIsACommit
<1>4. ASSUME NEW n, seen' = Steady(n)
      PROVE  /\ n \in 1 .. Len(commits')
             /\ \A a \in Alphas : a \in plan' =>
                  /\ read'[a].declaration = commits'[n].declarations[a]
                  /\ read'[a].committed
                  /\ code'[a].grid = commits'[n].grids[code'[a].strategy]
             /\ desk' = DeskTrials(commits'[n], AllCommitted)
  <2>1. seen = Steady(n) /\ Reading = [sha |-> n, dirty |-> FALSE]
    <3>1. seen # {}
      BY <1>1 DEF Reproducible, ReadFromTheCommit
    <3>. HIDE DEF Reading
    <3>. QED  BY <1>1, <1>4, <3>1 DEF Steady
  <2>2. tree = commits[n] /\ \A a : TrackedAndClean(a)
    BY <2>1, CleanReading DEF Reproducible
  <2>3. [a \in Alphas |-> TrackedAndClean(a)] = AllCommitted
    BY <2>2 DEF AllCommitted, TrackedAndClean
  <2>4. /\ n \in 1 .. Len(commits)
        /\ \A a \in Alphas : a \in plan =>
             /\ read[a].declaration = commits[n].declarations[a]
             /\ read[a].committed
             /\ code[a].grid = commits[n].grids[code[a].strategy]
    BY <1>1, <2>1 DEF Reproducible, ReadFromTheCommit
  <2>. QED  BY <1>1, <2>2, <2>3, <2>4
<1>5. seen' # {}
  BY <1>1
<1>6. ReadFromTheCommit'
  BY <1>1, <1>4, <1>5 DEF ReadFromTheCommit, Steady, AllCommitted
<1>. QED  BY <1>2, <1>3, <1>6 DEF Reproducible

\* A steady record of a clean pin is written from what its commit holds.
LEMMA ReproducibleJudge ==
    ASSUME Reproducible, [Next]_vars, NEW a \in Alphas, phase = "judging", a \in plan,
           NEW approved, NEW deflated,
           records' = Written(Key(pin, a), Record(a, approved, deflated)),
           plan' = plan \ {a},
           UNCHANGED <<tree, commits, phase, read, code, desk, pin, seen>>
    PROVE  Reproducible'
<1>. DEFINE key == Key(pin, a)
            c == Record(a, approved, deflated)
<1>1. key.run.sha = pin.sha /\ key.alpha = a
  BY DEF Key, RunId
<1>2. /\ c.declaration = read[a].declaration /\ c.committed = read[a].committed
      /\ c.searched = code[a].grid /\ c.strategy = code[a].strategy /\ c.desk = desk
      /\ c.steady => seen = Steady(pin.sha)
  BY DEF Record, Steady
<1>3. records' = Written(key, c)
  OBVIOUS
<1>. HIDE DEF key, c
<1>4. /\ DOMAIN records' = DOMAIN records \cup {key}
      /\ \A k \in DOMAIN records' : records'[k] = IF k = key THEN c ELSE records[k]
  BY <1>3 DEF Written
<1>5. Typed' /\ PinIsACommit'
  BY DEF Reproducible, Typed, PinIsACommit
<1>6. ReadFromTheCommit'
  BY DEF Reproducible, ReadFromTheCommit, Steady, AllCommitted
<1>7. ShasAreCommits'
  BY <1>1, <1>4 DEF Reproducible, ShasAreCommits, PinIsACommit
<1>8. RecordMatchesPin'
  <2>1. SUFFICES ASSUME NEW k \in DOMAIN records', records'[k].readable, ~records'[k].dirty,
                        records'[k].steady
                 PROVE  /\ records'[k].declaration = commits[k.run.sha].declarations[k.alpha]
                        /\ records'[k].committed
                        /\ records'[k].searched
                             = commits[k.run.sha].grids[records'[k].strategy]
                        /\ records'[k].desk = DeskTrials(commits[k.run.sha], AllCommitted)
    BY DEF RecordMatchesPin, AllCommitted
  <2>2. CASE k # key
    <3>1. k \in DOMAIN records /\ records'[k] = records[k]
      BY <1>4, <2>2
    <3>. QED  BY <2>1, <3>1 DEF Reproducible, RecordMatchesPin
  <2>3. CASE k = key
    <3>1. records'[k] = c /\ k.run.sha = pin.sha /\ k.alpha = a
      BY <1>1, <1>4, <2>3
    <3>2. seen = Steady(pin.sha)
      BY <1>2, <2>1, <3>1
    <3>3. /\ read[a].declaration = commits[pin.sha].declarations[a]
          /\ read[a].committed
          /\ code[a].grid = commits[pin.sha].grids[code[a].strategy]
          /\ desk = DeskTrials(commits[pin.sha], AllCommitted)
      BY <3>2 DEF Reproducible, ReadFromTheCommit
    <3>. QED  BY <1>2, <3>1, <3>3
  <2>. QED  BY <2>2, <2>3
<1>. QED  BY <1>5, <1>6, <1>7, <1>8 DEF Reproducible

LEMMA ReproducibleDieWriting ==
    ASSUME Reproducible, NEW a \in Alphas, DieWriting(a)
    PROVE  Reproducible'
<1>. DEFINE key == Key(pin, a)
<1>1. key.run.sha = pin.sha
  BY DEF Key, RunId
<1>. HIDE DEF key
<1>2. UNCHANGED <<tree, commits>> /\ phase' = "idle" /\ phase = "judging"
  BY DEF DieWriting, Stop
<1>3. records' = Written(key, HalfARecord)
  BY DEF DieWriting, key
<1>4. \A k \in DOMAIN records' :
          records'[k].readable => k \in DOMAIN records /\ records'[k] = records[k]
  BY <1>3 DEF Written, HalfARecord
<1>5. DOMAIN records' = DOMAIN records \cup {key}
  BY <1>3 DEF Written
<1>6. Typed' /\ ReadFromTheCommit' /\ PinIsACommit'
  BY <1>2 DEF Reproducible, Typed, ReadFromTheCommit, PinIsACommit
<1>7. ShasAreCommits'
  BY <1>1, <1>2, <1>5 DEF Reproducible, ShasAreCommits, PinIsACommit
<1>8. RecordMatchesPin'
  BY <1>2, <1>4 DEF Reproducible, RecordMatchesPin, AllCommitted
<1>. QED  BY <1>6, <1>7, <1>8 DEF Reproducible

\* Every step keeps it.
LEMMA ReproducibleStep ==
    ASSUME Reproducible, [Next]_vars
    PROVE  Reproducible'
<1>1. CASE /\ \/ \E a \in Alphas, d \in Declarations : EditDeclaration(a, d)
              \/ \E a \in Alphas, g \in Grids : EditCode(a, g)
              \/ Commit \/ SpoilLedger \/ LoseLedger
              \/ \E a \in Alphas, to \in Words : Decide(a, to)
              \/ UNCHANGED vars
  <2>1. UNCHANGED <<records, job>>
    BY <1>1 DEF EditDeclaration, EditCode, Commit, SpoilLedger, LoseLedger, Decide, vars
  <2>2. UNCHANGED <<records, phase, plan, read, code, desk, pin, seen>>
    BY <2>1 DEF job
  <2>. QED  BY <2>2, ReproducibleWithoutRecords
<1>2. ASSUME NEW p \in Wanted, NEW allowDirty, Prepare(p, allowDirty)
      PROVE  Reproducible'
  BY <1>2, ReproduciblePrepare
<1>3. CASE CountDesk
  BY <1>3, ReproducibleCount
<1>4. ASSUME NEW held, Load(held)
      PROVE  Reproducible'
  BY <1>4, ReproducibleWithoutRecords DEF Load, Stop
<1>5. CASE TakePin
  <2>1. records' = records /\ phase = "loaded"
    BY <1>5 DEF TakePin
  <2>2. CASE Stop("dirty")
    <3>1. phase' = "idle"
      BY <2>2 DEF Stop
    <3>. QED  BY <2>1, <3>1, ReproducibleWithoutRecords
  <2>3. CASE pin' = Reading /\ UNCHANGED <<plan, read, code, desk, seen>>
    <3>1. pin'.sha = Len(commits)
      BY <2>3 DEF Reading
    <3>. QED  BY <2>1, <2>3, <3>1, ReproducibleWithoutRecords
  <2>. QED  BY <1>5, <2>2, <2>3 DEF TakePin
<1>6. ASSUME NEW u, StartUniverse(u)
      PROVE  Reproducible'
  BY <1>6, ReproducibleWithoutRecords DEF StartUniverse, PinFor
<1>7. CASE EndUniverse
  BY <1>7, ReproducibleWithoutRecords DEF EndUniverse
<1>8. ASSUME NEW a \in Alphas, Judge(a)
      PROVE  Reproducible'
  <2>1. /\ phase = "judging" /\ a \in plan /\ plan' = plan \ {a}
        /\ UNCHANGED <<tree, commits, phase, read, code, desk, pin, seen>>
    BY <1>8 DEF Judge
  <2>2. CASE UNCHANGED records
    BY <2>1, <2>2, ReproducibleWithoutRecords
  <2>3. CASE \E approved \in BOOLEAN, deflated \in {FALSE, desk.measured} :
                 records' = Written(Key(pin, a), Record(a, approved, deflated))
    BY <2>1, <2>3, ReproducibleJudge
  <2>. QED  BY <1>8, <2>2, <2>3 DEF Judge
<1>9. ASSUME NEW a \in Alphas, DieWriting(a)
      PROVE  Reproducible'
  BY <1>9, ReproducibleDieWriting
<1>10. CASE Finish \/ Die
  BY <1>10, ReproducibleWithoutRecords DEF Finish, Die, Stop
<1>. QED
  BY <1>1, <1>2, <1>3, <1>4, <1>5, <1>6, <1>7, <1>8, <1>9, <1>10 DEF Next

LEMMA ReproducibleHolds == Spec => []Reproducible
<1>1. Init => Reproducible
  <2>1. SUFFICES ASSUME Init PROVE Reproducible
    OBVIOUS
  <2>2. tree \in Tree /\ commits = <<tree>>
    BY <2>1, TreesAssumption DEF Init
  <2>3. Typed
    BY <2>2 DEF Typed
  <2>4. DOMAIN records = {} /\ phase = "idle"
    BY <2>1 DEF Init
  <2>. QED
    BY <2>3, <2>4 DEF Reproducible, ReadFromTheCommit, PinIsACommit, ShasAreCommits,
                      RecordMatchesPin
<1>2. Reproducible /\ [Next]_vars => Reproducible'
  BY ReproducibleStep
<1>. QED  BY <1>1, <1>2, PTL DEF Spec

\* A clean record can be read again from its commit: the declaration, the grid
\* searched and the desk's count (core/repro.py:10-13, core/backtest/trials.py:10-14),
\* for every history of edits, commits, scratch runs and deaths, unless somebody
\* moved the tree between two of that run's own looks at it.
THEOREM CleanRecordsMatchTheirPin == Spec => []RecordMatchesPin
<1>1. Reproducible => RecordMatchesPin
  BY DEF Reproducible
<1>. QED  BY <1>1, ReproducibleHolds, PTL

------------------------------------------------------------------------------
(* Only a scratch run overwrites, whoever touches the tree: what a run writes
   makes the tree dirty, so no other run of a clean tree gets the same pin before
   a commit changes the sha. *)

NewestAreUnfiled == \A k \in DOMAIN records : k.run.sha = Len(commits) => unfiled

\* The alphas that a run of a clean tree has left have no file under its sha.
NotThereYet ==
    phase = "judging" /\ ~pin.dirty =>
        \A k \in DOMAIN records : k.run.sha = pin.sha => k.alpha \notin plan

Kept == NewestAreUnfiled /\ NotThereYet

LEMMA KeptWithoutRecords ==
    ASSUME Kept, Reproducible, [Next]_vars, records' = records,
           commits' = commits => (unfiled => unfiled'),
           phase' = "judging" =>
               \/ phase = "judging" /\ pin' = pin /\ plan' \subseteq plan
               \/ commits' = commits /\ pin'.sha = Len(commits) /\ (unfiled => pin'.dirty)
    PROVE  Kept'
<1>1. NewestAreUnfiled'
  <2>1. CASE commits' = commits
    BY <2>1 DEF Kept, NewestAreUnfiled
  <2>2. CASE commits' = Append(commits, tree)
    <3>1. Len(commits') = Len(commits) + 1 /\ Len(commits) \in Nat
      BY <2>2 DEF Reproducible, Typed
    <3>. QED  BY <3>1 DEF Reproducible, ShasAreCommits, NewestAreUnfiled
  <2>. QED  BY <2>1, <2>2, TypedStep DEF Reproducible
<1>2. NotThereYet'
  <2>1. CASE phase = "judging" /\ pin' = pin /\ plan' \subseteq plan
    BY <2>1 DEF Kept, NotThereYet
  <2>2. CASE commits' = commits /\ pin'.sha = Len(commits) /\ (unfiled => pin'.dirty)
    BY <2>2 DEF Kept, NewestAreUnfiled, NotThereYet
  <2>. QED  BY <2>1, <2>2 DEF NotThereYet
<1>. QED  BY <1>1, <1>2 DEF Kept

\* A file, whole or half, is put where there was none, unless the run is a scratch run.
LEMMA WritingIsScratch ==
    ASSUME Kept, NEW a, NEW c, phase = "judging", a \in plan,
           records' = Written(Key(pin, a), c)
    PROVE  \A k \in DOMAIN records : /\ k \in DOMAIN records'
                                     /\ records'[k] # records[k] => pin.dirty
<1>. DEFINE key == Key(pin, a)
<1>1. key.run.sha = pin.sha /\ key.alpha = a
  BY DEF Key, RunId
<1>. HIDE DEF key
<1>2. records' = Written(key, c)
  BY DEF key
<1>3. ~pin.dirty => key \notin DOMAIN records
  BY <1>1 DEF Kept, NotThereYet
<1>. QED  BY <1>2, <1>3 DEF Written

LEMMA KeptWriting ==
    ASSUME Kept, NEW a, NEW c, phase = "judging", a \in plan,
           records' = Written(Key(pin, a), c), unfiled',
           phase' = "judging" => pin' = pin /\ plan' = plan \ {a}
    PROVE  Kept'
<1>. DEFINE key == Key(pin, a)
<1>1. key.run.sha = pin.sha /\ key.alpha = a
  BY DEF Key, RunId
<1>. HIDE DEF key
<1>2. DOMAIN records' = DOMAIN records \cup {key}
  BY DEF Written, key
<1>3. NewestAreUnfiled'
  BY DEF NewestAreUnfiled
<1>4. NotThereYet'
  BY <1>1, <1>2 DEF Kept, NotThereYet
<1>. QED  BY <1>3, <1>4 DEF Kept

\* Every step keeps it, and overwrites nothing unless it is a scratch run's.
LEMMA KeptStep ==
    ASSUME Kept, Reproducible, [Next]_vars
    PROVE  /\ Kept'
           /\ \A k \in DOMAIN records : /\ k \in DOMAIN records'
                                        /\ records'[k] # records[k] => pin.dirty
<1>1. CASE records' = records
  <2>1. CASE UNCHANGED <<commits, unfiled, phase, pin, plan>>
    BY <1>1, <2>1, KeptWithoutRecords
  <2>2. CASE \/ \E a \in Alphas, d \in Declarations : EditDeclaration(a, d)
             \/ \E a \in Alphas, g \in Grids : EditCode(a, g)
             \/ SpoilLedger \/ LoseLedger \/ EndUniverse
             \/ \E a \in Alphas, to \in Words : Decide(a, to)
             \/ UNCHANGED vars
    BY <2>1, <2>2 DEF EditDeclaration, EditCode, SpoilLedger, LoseLedger, EndUniverse, Decide,
                      vars, tracked, job
  <2>3. CASE Commit
    <3>1. commits' # commits
      <4>1. commits' = Append(commits, tree) /\ Len(commits') = Len(commits) + 1
            /\ Len(commits) \in Nat
        BY <2>3 DEF Commit, Reproducible, Typed
      <4>. QED  BY <4>1
    <3>2. UNCHANGED <<phase, pin, plan>>
      BY <2>3 DEF Commit, job
    <3>. QED  BY <1>1, <3>1, <3>2, KeptWithoutRecords
  <2>4. CASE phase' # "judging" /\ UNCHANGED <<commits, unfiled>>
    BY <1>1, <2>4, KeptWithoutRecords
  <2>5. CASE \/ \E p \in Wanted, allowDirty \in {FALSE, Scratch} : Prepare(p, allowDirty)
             \/ CountDesk \/ Finish \/ Die
             \/ \E held \in SUBSET Universes : Load(held)
    BY <2>4, <2>5 DEF Prepare, CountDesk, Load, Finish, Die, Stop, tracked
  <2>6. CASE TakePin
    <3>1. UNCHANGED <<commits, unfiled>>
      BY <2>6 DEF TakePin, tracked
    <3>2. CASE Stop("dirty")
      BY <2>4, <3>1, <3>2 DEF Stop
    <3>3. CASE pin' = Reading
      <4>1. pin'.sha = Len(commits) /\ (unfiled => pin'.dirty)
        BY <3>3 DEF Reading, Dirty
      <4>. QED  BY <1>1, <3>1, <4>1, KeptWithoutRecords
    <3>. QED  BY <2>6, <3>2, <3>3 DEF TakePin
  <2>7. ASSUME NEW u, StartUniverse(u)
        PROVE  Kept'
    <3>1. UNCHANGED <<commits, phase, pin>> /\ plan' \subseteq plan
      BY <2>7 DEF StartUniverse, PinFor
    <3>2. (unfiled => unfiled') /\ phase = "judging"
      BY <2>7 DEF StartUniverse
    <3>. QED  BY <1>1, <3>1, <3>2, KeptWithoutRecords
  <2>8. ASSUME NEW a, Judge(a)
        PROVE  Kept'
    <3>1. UNCHANGED <<commits, phase, pin>> /\ plan' \subseteq plan /\ phase = "judging"
      BY <2>8 DEF Judge
    <3>2. unfiled => unfiled'
      BY <2>8 DEF Judge
    <3>. QED  BY <1>1, <3>1, <3>2, KeptWithoutRecords
  <2>9. ASSUME NEW a, DieWriting(a)
        PROVE  Kept'
    <3>1. UNCHANGED commits /\ phase' = "idle" /\ unfiled'
      BY <2>9 DEF DieWriting, Stop
    <3>. QED  BY <1>1, <3>1, KeptWithoutRecords
  <2>10. Kept'
    BY <2>2, <2>3, <2>5, <2>6, <2>7, <2>8, <2>9 DEF Next
  <2>. QED  BY <1>1, <2>10
<1>2. CASE records' # records
  <2>1. PICK a \in Alphas : Judge(a) \/ DieWriting(a)
    BY <1>2 DEF Next, vars, EditDeclaration, EditCode, Commit, Decide, SpoilLedger, LoseLedger,
                Prepare, CountDesk, Load, TakePin, StartUniverse, EndUniverse, Finish, Die
  <2>2. CASE Judge(a)
    <3>1. /\ phase = "judging" /\ a \in plan /\ unfiled'
          /\ UNCHANGED <<commits, pin>> /\ plan' = plan \ {a}
      BY <1>2, <2>2 DEF Judge
    <3>2. \E c : records' = Written(Key(pin, a), c)
      BY <1>2, <2>2 DEF Judge
    <3>3. PICK c : records' = Written(Key(pin, a), c)
      BY <3>2
    <3>. QED  BY <3>1, <3>3, KeptWriting, WritingIsScratch
  <2>3. CASE DieWriting(a)
    <3>1. /\ phase = "judging" /\ a \in plan /\ unfiled' /\ phase' = "idle"
          /\ UNCHANGED commits /\ records' = Written(Key(pin, a), HalfARecord)
      BY <2>3 DEF DieWriting, Stop
    <3>. QED  BY <3>1, KeptWriting, WritingIsScratch
  <2>. QED  BY <2>1, <2>2, <2>3
<1>. QED  BY <1>1, <1>2

\* Only a scratch run puts its output over a file that is there, for any number of
\* runs, deaths, edits and commits in any order (core/repro.py:45-49, 113-121).
THEOREM OnlyScratchRunsOverwrite == Spec => OnlyScratchOverwrites
<1>1. Init => Kept
  BY DEF Init, Kept, NewestAreUnfiled, NotThereYet
<1>2. Kept /\ Reproducible /\ [Next]_vars => Kept'
  BY KeptStep
<1>3. Kept /\ Reproducible /\ [Next]_vars =>
        [\A k \in DOMAIN records :
            /\ k \in DOMAIN records'
            /\ records'[k] # records[k] => pin.dirty]_vars
  BY KeptStep
<1>. QED  BY <1>1, <1>2, <1>3, ReproducibleHolds, PTL DEF Spec, OnlyScratchOverwrites

------------------------------------------------------------------------------
(* Where an alpha stands, whatever the order of the decisions.  The fold over
   the ledger is a recursive function on the sets of its entries; the lowest word
   of such a set satisfies its equation, and no other function does. *)

\* The lowest of the words said and of the evidence.
LowestOf(said, evidence) ==
    IF "retired" \in said THEN "retired"
    ELSE IF "stopped" \in said THEN "stopped" ELSE evidence

SaidAt(T, alpha, entries) == {entries[i].to : i \in {j \in T : entries[j].alpha = alpha}}

Walked(status, alpha, e) == IF e.alpha = alpha THEN Lowered(status, e.to) ELSE status

Walks(g, alpha, evidence, entries) ==
    g = [T \in SUBSET DOMAIN entries |->
           IF T = {} THEN evidence
           ELSE Walked(g[T \ {Max(T)}], alpha, entries[Max(T)])]

LEMMA DeriveIsChosen ==
  ASSUME NEW alpha, NEW submissions, NEW entries
  PROVE  Derive(alpha, submissions, entries)
           = (CHOOSE g : Walks(g, alpha, Evidence(submissions), entries))[DOMAIN entries]
BY DEF Derive, FoldLeft, MapThenFoldSet, Walks, Walked

\* What the evidence can be.
LEMMA EvidenceType ==
  ASSUME NEW submissions
  PROVE  Evidence(submissions) \in {"proposed", "gated", "paper"}
BY DEF Evidence

LEMMA Ranks ==
  /\ RANK["retired"] = 0 /\ RANK["stopped"] = 1 /\ RANK["proposed"] = 2
  /\ RANK["gated"] = 3 /\ RANK["paper"] = 4 /\ RANK["live"] = 5
BY DEF RANK, Status

\* The word the definition of the lowest chooses.
LEMMA LowestIsLowestOf ==
  ASSUME NEW alpha, NEW submissions, NEW entries
  PROVE  Lowest(alpha, submissions, entries)
           = LowestOf({e.to : e \in {f \in ToSet(entries) : f.alpha = alpha}},
                      Evidence(submissions))
<1>. DEFINE all == {e.to : e \in {f \in ToSet(entries) : f.alpha = alpha}}
            said == all \cap LEDGER_ALLOWED
            ev == Evidence(submissions)
            low == LowestOf(all, ev)
<1>. HIDE DEF all
<1>1. ev \in {"proposed", "gated", "paper"}
  BY EvidenceType
<1>. HIDE DEF ev
<1>2. low \in said \cup {ev}
  BY DEF LowestOf, LEDGER_ALLOWED
<1>3. \A t \in said \cup {ev} : RANK[low] <= RANK[t]
  BY <1>1, Ranks DEF LowestOf, LEDGER_ALLOWED
<1>4. \A s \in said \cup {ev} :
        (\A t \in said \cup {ev} : RANK[s] <= RANK[t]) => s = low
  BY <1>1, <1>2, Ranks DEF LowestOf, LEDGER_ALLOWED
<1>5. Lowest(alpha, submissions, entries)
        = CHOOSE s \in said \cup {ev} : \A t \in said \cup {ev} : RANK[s] <= RANK[t]
  BY Zenon DEF Lowest, all, ev
<1>. HIDE DEF said, low
<1>6. Lowest(alpha, submissions, entries) = low
  BY <1>2, <1>3, <1>4, <1>5
<1>. QED  BY <1>6 DEF low, all, ev

\* A set of naturals that is not empty has a least member.
LEMMA LeastNatural ==
    ASSUME NEW S \in SUBSET Nat, S # {}
    PROVE  \E x \in S : \A y \in S : x <= y
<1>. DEFINE less == OpToRel(<, Nat)
<1>1. IsWellFoundedOn(less, Nat)
  BY NatLessThanWellFounded
<1>2. \A i, j \in Nat : i < j => <<i, j>> \in less
  BY Zenon DEF OpToRel
<1>. HIDE DEF less
<1>3. PICK x \in S : \A y \in S : <<y, x>> \notin less
  BY <1>1, WFMin
<1>4. ASSUME NEW y \in S
      PROVE  x <= y
  <2>1. x \in Nat /\ y \in Nat /\ ~(y < x)
    BY <1>2, <1>3, Zenon
  <2>. QED  BY <2>1
<1>. QED  BY <1>4

\* A set of positions that is not empty has a last one.
LEMMA LastPosition ==
  ASSUME NEW n \in Nat, NEW T \in SUBSET (1 .. n), T # {}
  PROVE  Max(T) \in T
<1>. DEFINE gaps == {n - i : i \in T}
<1>1. gaps \in SUBSET Nat /\ gaps # {}
  <2>1. \A i \in T : n - i \in Nat
    OBVIOUS
  <2>. QED  BY <2>1
<1>2. PICK x \in gaps : \A y \in gaps : x <= y
  <2>. HIDE DEF gaps
  <2>. QED  BY <1>1, LeastNatural
<1>3. PICK i \in T : x = n - i
  BY <1>2
<1>4. \A j \in T : i >= j
  <2>1. ASSUME NEW j \in T
        PROVE  i >= j
    <3>1. n - j \in gaps
      OBVIOUS
    <3>. HIDE DEF gaps
    <3>2. n - i <= n - j /\ i \in Int /\ j \in Int
      BY <1>2, <1>3, <3>1
    <3>. QED  BY <3>2
  <2>. QED  BY <2>1
<1>5. \E k \in T : \A j \in T : k >= j
  BY <1>4
<1>. QED  BY <1>5, Zenon DEF Max

\* One entry more: the lowest word moves as the code moves the status.
LEMMA LowestStep ==
  ASSUME NEW alpha, NEW evidence \in {"proposed", "gated", "paper"}, NEW entries,
         NEW T, NEW x \in T
  PROVE  LowestOf(SaidAt(T, alpha, entries), evidence)
           = Walked(LowestOf(SaidAt(T \ {x}, alpha, entries), evidence), alpha, entries[x])
<1>. DEFINE rest == SaidAt(T \ {x}, alpha, entries)
<1>1. SaidAt(T, alpha, entries)
        = IF entries[x].alpha = alpha THEN rest \cup {entries[x].to} ELSE rest
  BY DEF SaidAt
<1>. HIDE DEF rest
<1>2. CASE entries[x].alpha = alpha
  <2>. DEFINE to == entries[x].to
              old == LowestOf(rest, evidence)
  <2>1. SaidAt(T, alpha, entries) = rest \cup {to}
    BY <1>1, <1>2
  <2>2. Walked(old, alpha, entries[x]) = Lowered(old, to)
    BY <1>2 DEF Walked
  <2>. HIDE DEF to
  <2>3. LowestOf(rest \cup {to}, evidence) = Lowered(old, to)
    BY Ranks DEF LowestOf, Lowered, LEDGER_ALLOWED
  <2>. QED  BY <2>1, <2>2, <2>3 DEF rest
<1>3. CASE entries[x].alpha # alpha
  <2>1. SaidAt(T, alpha, entries) = rest
    BY <1>1, <1>3
  <2>. QED  BY <1>3, <2>1 DEF Walked, rest
<1>. QED  BY <1>2, <1>3

LEMMA LowestWalks ==
  ASSUME NEW alpha, NEW evidence \in {"proposed", "gated", "paper"}, NEW entries,
         NEW n \in Nat, DOMAIN entries = 1 .. n
  PROVE  Walks([T \in SUBSET DOMAIN entries |-> LowestOf(SaidAt(T, alpha, entries), evidence)],
               alpha, evidence, entries)
<1>. DEFINE low(T) == LowestOf(SaidAt(T, alpha, entries), evidence)
            g == [T \in SUBSET DOMAIN entries |-> low(T)]
            value(T) == IF T = {} THEN evidence
                        ELSE Walked(g[T \ {Max(T)}], alpha, entries[Max(T)])
<1>1. ASSUME NEW T \in SUBSET DOMAIN entries
      PROVE  low(T) = value(T)
  <2>1. CASE T = {}
    BY <2>1 DEF LowestOf, SaidAt
  <2>2. CASE T # {}
    <3>1. Max(T) \in T
      BY <2>2, LastPosition
    <3>2. g[T \ {Max(T)}] = low(T \ {Max(T)})
      <4>. HIDE DEF low
      <4>. QED  OBVIOUS
    <3>3. low(T) = Walked(low(T \ {Max(T)}), alpha, entries[Max(T)])
      BY <3>1, LowestStep
    <3>. HIDE DEF low, g
    <3>. QED  BY <2>2, <3>2, <3>3
  <2>. QED  BY <2>1, <2>2
<1>2. g = [T \in SUBSET DOMAIN entries |-> value(T)]
  <2>1. [T \in SUBSET DOMAIN entries |-> low(T)] = [T \in SUBSET DOMAIN entries |-> value(T)]
    <3>. HIDE DEF low, value
    <3>. QED  BY <1>1
  <2>. QED  BY <2>1, Zenon
<1>3. Walks(g, alpha, evidence, entries)
  <2>. HIDE DEF g
  <2>. QED  BY <1>2, Zenon DEF Walks
<1>. QED  BY <1>3

\* No two functions walk: on a smallest set where they differ, they would agree on
\* what is left without its last entry.
LEMMA WalksAgree ==
  ASSUME NEW alpha, NEW evidence, NEW entries, NEW n \in Nat, DOMAIN entries = 1 .. n,
         NEW g, NEW h, Walks(g, alpha, evidence, entries), Walks(h, alpha, evidence, entries)
  PROVE  g[DOMAIN entries] = h[DOMAIN entries]
<1>. DEFINE bad == {m \in Nat : \E T \in SUBSET DOMAIN entries :
                                   Cardinality(T) = m /\ g[T] # h[T]}
<1>0. \A T \in SUBSET DOMAIN entries : IsFiniteSet(T) /\ Cardinality(T) \in Nat
  <2>1. IsFiniteSet(1 .. n)
    BY FS_Interval
  <2>. QED  BY <2>1, FS_Subset, FS_CardinalityType
<1>1. ASSUME NEW T \in SUBSET DOMAIN entries
      PROVE  /\ T = {} => g[T] = evidence /\ h[T] = evidence
             /\ T # {} => g[T] = Walked(g[T \ {Max(T)}], alpha, entries[Max(T)])
             /\ T # {} => h[T] = Walked(h[T \ {Max(T)}], alpha, entries[Max(T)])
  <2>. DEFINE value(r, V) == IF V = {} THEN evidence
                             ELSE Walked(r[V \ {Max(V)}], alpha, entries[Max(V)])
  <2>1. /\ g = [V \in SUBSET DOMAIN entries |-> value(g, V)]
        /\ h = [V \in SUBSET DOMAIN entries |-> value(h, V)]
    BY Zenon DEF Walks
  <2>2. g[T] = value(g, T) /\ h[T] = value(h, T)
    <3>. HIDE DEF value
    <3>. QED  BY <2>1
  <2>. QED  BY <2>2
<1>2. SUFFICES bad = {}
  BY <1>0
<1>3. SUFFICES ASSUME bad # {}
               PROVE  FALSE
  OBVIOUS
<1>4. PICK m \in bad : \A k \in bad : m <= k
  <2>1. bad \in SUBSET Nat
    OBVIOUS
  <2>. HIDE DEF bad
  <2>. QED  BY <1>3, <2>1, LeastNatural
<1>5. PICK T \in SUBSET DOMAIN entries : Cardinality(T) = m /\ g[T] # h[T]
  BY <1>4
<1>6. T # {}
  BY <1>1, <1>5
<1>. DEFINE U == T \ {Max(T)}
<1>7. U \in SUBSET DOMAIN entries /\ Cardinality(U) = m - 1
  <2>1. Max(T) \in T
    BY <1>6, LastPosition
  <2>2. Cardinality(U) = m - 1
    BY <1>0, <1>5, <2>1, FS_RemoveElement
  <2>. QED  BY <2>2
<1>8. g[U] = h[U]
  <2>1. m - 1 \notin bad
    <3>1. m \in Nat
      BY <1>4
    <3>. HIDE DEF bad
    <3>2. m - 1 \in bad => m <= m - 1
      BY <1>4
    <3>. QED  BY <3>1, <3>2
  <2>2. m - 1 \in Nat
    BY <1>0, <1>7
  <2>. HIDE DEF U
  <2>. QED  BY <1>7, <2>1, <2>2
<1>. QED  BY <1>1, <1>5, <1>6, <1>8

\* The status the code derives is the lowest, for every sequence of entries.
LEMMA DeriveIsLowestOf ==
  ASSUME NEW alpha, NEW submissions, NEW E, NEW entries \in Seq(E)
  PROVE  Derive(alpha, submissions, entries)
           = LowestOf(SaidAt(DOMAIN entries, alpha, entries), Evidence(submissions))
<1>. DEFINE ev == Evidence(submissions)
            g == CHOOSE r : Walks(r, alpha, ev, entries)
            h == [T \in SUBSET DOMAIN entries |-> LowestOf(SaidAt(T, alpha, entries), ev)]
<1>1. ev \in {"proposed", "gated", "paper"}
  BY EvidenceType
<1>2. Len(entries) \in Nat /\ DOMAIN entries = 1 .. Len(entries)
  OBVIOUS
<1>. HIDE DEF ev
<1>3. Walks(h, alpha, ev, entries)
  BY <1>1, <1>2, LowestWalks
<1>. HIDE DEF h
<1>4. Walks(g, alpha, ev, entries)
  BY <1>3
<1>5. Derive(alpha, submissions, entries) = g[DOMAIN entries]
  BY DeriveIsChosen DEF ev
<1>. HIDE DEF g
<1>6. g[DOMAIN entries] = h[DOMAIN entries]
  BY <1>2, <1>3, <1>4, WalksAgree
<1>7. h[DOMAIN entries] = LowestOf(SaidAt(DOMAIN entries, alpha, entries), ev)
  BY DEF h
<1>. QED  BY <1>5, <1>6, <1>7 DEF ev

LEMMA DeriveIsLowest ==
  ASSUME NEW alpha, NEW submissions, NEW E, NEW entries \in Seq(E)
  PROVE  Derive(alpha, submissions, entries) = Lowest(alpha, submissions, entries)
<1>1. {e.to : e \in {f \in ToSet(entries) : f.alpha = alpha}}
        = SaidAt(DOMAIN entries, alpha, entries)
  BY DEF SaidAt, ToSet
<1>. QED  BY <1>1, DeriveIsLowestOf, LowestIsLowestOf

\* Another word never raises.
LEMMA MoreIsLower ==
  ASSUME NEW said, NEW more, said \subseteq more,
         NEW evidence \in {"proposed", "gated", "paper"}
  PROVE  RANK[LowestOf(more, evidence)] <= RANK[LowestOf(said, evidence)]
BY Ranks DEF LowestOf

------------------------------------------------------------------------------
(* The status of every alpha, whatever happens to its records and the ledger. *)

LedgerTyped == ledger \in [file : LedgerFile, entries : Seq([alpha : Alphas, to : Words])]

LEMMA LedgerStep ==
  ASSUME LedgerTyped, [Next]_vars
  PROVE  /\ LedgerTyped'
         /\ \/ ledger' = ledger
            \/ records' = records
               /\ \/ \E a \in Alphas, to \in Words :
                        /\ ledger.file = "entries" /\ ledger'.file = "entries"
                        /\ ledger'.entries = Append(ledger.entries, [alpha |-> a, to |-> to])
                  \/ "malformed" \in {ledger.file, ledger'.file}
                  \/ ledger'.file = "missing"
<1>1. ASSUME NEW a \in Alphas, NEW to \in Words, Decide(a, to)
      PROVE  /\ LedgerTyped' /\ records' = records
             /\ ledger.file = "entries" /\ ledger'.file = "entries"
             /\ ledger'.entries = Append(ledger.entries, [alpha |-> a, to |-> to])
  <2>1. [alpha |-> a, to |-> to] \in [alpha : Alphas, to : Words]
    OBVIOUS
  <2>2. /\ ledger.file = "entries" /\ ledger.entries \in Seq([alpha : Alphas, to : Words])
        /\ ledger' = [ledger EXCEPT !.entries = Append(ledger.entries, [alpha |-> a, to |-> to])]
    BY <1>1 DEF Decide, LedgerTyped
  <2>3. Append(ledger.entries, [alpha |-> a, to |-> to]) \in Seq([alpha : Alphas, to : Words])
    BY <2>1, <2>2
  <2>. QED  BY <1>1, <2>2, <2>3 DEF Decide, LedgerTyped
<1>2. CASE SpoilLedger
  BY <1>2 DEF SpoilLedger, LedgerTyped, LedgerFile
<1>3. CASE LoseLedger
  BY <1>3 DEF LoseLedger, LedgerTyped, LedgerFile
<1>4. ASSUME UNCHANGED ledger
      PROVE  LedgerTyped'
  BY <1>4 DEF LedgerTyped
<1>. QED
  BY <1>1, <1>2, <1>3, <1>4
  DEF Next, EditDeclaration, EditCode, Commit, Prepare, CountDesk, Load, TakePin, StartUniverse,
      EndUniverse, Judge, DieWriting, Finish, Die, vars

LEMMA LedgerIsTyped == Spec => []LedgerTyped
<1>1. Init => LedgerTyped
  <2>1. ASSUME Init
        PROVE  LedgerTyped
    <3>1. ledger = [file |-> "entries", entries |-> <<>>]
      BY <2>1 DEF Init
    <3>2. <<>> \in Seq([alpha : Alphas, to : Words])
      OBVIOUS
    <3>. QED  BY <3>1, <3>2 DEF LedgerTyped, LedgerFile
  <2>. QED  BY <2>1
<1>2. LedgerTyped /\ [Next]_vars => LedgerTyped'
  BY LedgerStep
<1>. QED  BY <1>1, <1>2, PTL DEF Spec

LEMMA EntriesType ==
  ASSUME LedgerTyped
  PROVE  Entries(ledger) \in Seq([alpha : Alphas, to : Words])
BY DEF LedgerTyped, Entries

\* An alpha stands at the lowest of its evidence and of the lowering words said of
\* it, for any number of decisions in any order (core/alphas/lifecycle.py:62-99).
THEOREM StatusIsTheLowest == Spec => []StandsAtTheLowest
<1>1. ASSUME LedgerTyped
      PROVE  StandsAtTheLowest
  <2>1. Entries(ledger) \in Seq([alpha : Alphas, to : Words])
    BY <1>1, EntriesType
  <2>2. \A a \in Alphas : StatusOf(a) = Lowest(a, Submissions(a), Entries(ledger))
    BY <2>1, DeriveIsLowest DEF StatusOf
  <2>. QED  BY <2>2 DEF StandsAtTheLowest
<1>2. LedgerTyped => StandsAtTheLowest
  BY <1>1
<1>. QED  BY <1>2, LedgerIsTyped, PTL

\* More entries, and the same evidence: nobody stands higher.
LEMMA DecisionsNeverRaise ==
  ASSUME NEW a, NEW submissions, NEW E, NEW entries \in Seq(E), NEW more \in Seq(E),
         DOMAIN entries \subseteq DOMAIN more, \A i \in DOMAIN entries : more[i] = entries[i]
  PROVE  RANK[Derive(a, submissions, more)] <= RANK[Derive(a, submissions, entries)]
<1>1. SaidAt(DOMAIN entries, a, entries) \subseteq SaidAt(DOMAIN more, a, more)
  BY DEF SaidAt
<1>2. Evidence(submissions) \in {"proposed", "gated", "paper"}
  BY EvidenceType
<1>3. RANK[LowestOf(SaidAt(DOMAIN more, a, more), Evidence(submissions))]
        <= RANK[LowestOf(SaidAt(DOMAIN entries, a, entries), Evidence(submissions))]
  BY <1>1, <1>2, MoreIsLower
<1>4. /\ Derive(a, submissions, more)
           = LowestOf(SaidAt(DOMAIN more, a, more), Evidence(submissions))
      /\ Derive(a, submissions, entries)
           = LowestOf(SaidAt(DOMAIN entries, a, entries), Evidence(submissions))
  BY DeriveIsLowestOf
<1>. QED  BY <1>3, <1>4, Zenon

LEMMA StatusIsRanked ==
  ASSUME NEW a, NEW submissions, NEW E, NEW entries \in Seq(E)
  PROVE  RANK[Derive(a, submissions, entries)] \in 0 .. 4
<1>1. Evidence(submissions) \in {"proposed", "gated", "paper"}
  BY EvidenceType
<1>2. RANK[LowestOf(SaidAt(DOMAIN entries, a, entries), Evidence(submissions))] \in 0 .. 4
  BY <1>1, Ranks DEF LowestOf
<1>3. Derive(a, submissions, entries)
        = LowestOf(SaidAt(DOMAIN entries, a, entries), Evidence(submissions))
  BY DeriveIsLowestOf
<1>. QED  BY <1>2, <1>3, Zenon

\* Only a measurement raises (core/alphas/lifecycle.py:10-21): whatever is decided,
\* spoilt, mended or committed, nobody comes to stand higher unless their own
\* records change or the ledger is lost.
THEOREM OnlyRecordsRaise == Spec => OnlyMeasurementRaises
<1>1. ASSUME LedgerTyped, [Next]_vars, Readable, Readable', NEW a \in Alphas,
             RANK[StatusOf(a)'] > RANK[StatusOf(a)],
             Submissions(a)' = Submissions(a), ledger'.file # "missing"
      PROVE  FALSE
  <2>. DEFINE E == [alpha : Alphas, to : Words]
              old == Entries(ledger)
              new == Entries(ledger')
              mine == Submissions(a)
  <2>1. LedgerTyped'
    BY <1>1, LedgerStep
  <2>2. old \in Seq(E) /\ new \in Seq(E)
    <3>1. old \in Seq(E)
      BY <1>1, EntriesType
    <3>2. new \in Seq(E)
      BY <2>1 DEF LedgerTyped, Entries
    <3>. QED  BY <3>1, <3>2
  <2>3. DOMAIN old \subseteq DOMAIN new /\ \A i \in DOMAIN old : new[i] = old[i]
    <3>1. CASE ledger' = ledger
      BY <3>1
    <3>2. CASE \E b \in Alphas, to \in Words :
                  /\ ledger.file = "entries" /\ ledger'.file = "entries"
                  /\ ledger'.entries = Append(ledger.entries, [alpha |-> b, to |-> to])
      <4>1. PICK b \in Alphas, to \in Words :
                  /\ ledger.file = "entries" /\ ledger'.file = "entries"
                  /\ ledger'.entries = Append(ledger.entries, [alpha |-> b, to |-> to])
        BY <3>2
      <4>2. new = Append(old, [alpha |-> b, to |-> to])
        BY <4>1 DEF Entries
      <4>. HIDE DEF old, new, E
      <4>. QED  BY <2>2, <4>2
    <3>3. ledger.file # "malformed" /\ ledger'.file # "malformed"
      BY <1>1 DEF Readable
    <3>. QED  BY <1>1, <3>1, <3>2, <3>3, LedgerStep
  <2>4. StatusOf(a) = Derive(a, mine, old) /\ StatusOf(a)' = Derive(a, mine, new)
    BY <1>1 DEF StatusOf
  <2>. HIDE DEF old, new, E, mine
  <2>5. RANK[Derive(a, mine, new)] <= RANK[Derive(a, mine, old)]
    BY <2>2, <2>3, DecisionsNeverRaise
  <2>6. RANK[Derive(a, mine, new)] \in 0 .. 4 /\ RANK[Derive(a, mine, old)] \in 0 .. 4
    BY <2>2, StatusIsRanked
  <2>7. RANK[Derive(a, mine, new)] > RANK[Derive(a, mine, old)]
    BY <1>1, <2>4, Zenon
  <2>. QED  BY <2>5, <2>6, <2>7
<1>2. LedgerTyped /\ [Next]_vars =>
        [\A a \in Alphas :
           Readable /\ Readable' /\ RANK[StatusOf(a)'] > RANK[StatusOf(a)] =>
               Submissions(a)' # Submissions(a) \/ ledger'.file = "missing"]_vars
  BY <1>1
<1>. QED  BY <1>2, LedgerIsTyped, PTL DEF Spec, OnlyMeasurementRaises

------------------------------------------------------------------------------
(* What stands above proposed was declared before it was searched. *)

\* The last commit the run in progress can be said to have read.
Horizon == IF phase = "judging" THEN pin.sha ELSE Len(commits)

WasDeclared(a, d, upTo) == \E n \in 1 .. upTo : commits[n].declarations[a] = d

\* A declaration that was read as committed is the one some commit holds.
ReadWasDeclared ==
    phase # "idle" =>
        \A a \in Alphas : a \in plan /\ read[a].committed =>
            WasDeclared(a, read[a].declaration, Horizon)

\* A record covers what was searched, and says G1 only of a complete declaration
\* that git had by then.
Backed ==
    \A k \in DOMAIN records : records[k].readable =>
        /\ records[k].searched \subseteq records[k].declaration.points
        /\ "G1_preregistration" \in records[k].passed =>
               /\ records[k].declaration.file = "declared"
               /\ WasDeclared(k.alpha, records[k].declaration, k.run.sha)

DeclaredFirst == ReadWasDeclared /\ Backed

LEMMA BackedStays ==
  ASSUME Backed, Reproducible, [Next]_vars, NEW k \in DOMAIN records', k \in DOMAIN records,
         records'[k] = records[k], records'[k].readable
  PROVE  /\ records'[k].searched \subseteq records'[k].declaration.points
         /\ "G1_preregistration" \in records'[k].passed =>
                /\ records'[k].declaration.file = "declared"
                /\ \E n \in 1 .. k.run.sha :
                      commits'[n].declarations[k.alpha] = records'[k].declaration
<1>1. \A n \in 1 .. k.run.sha : commits'[n] = commits[n]
  BY TypedStep DEF Reproducible, ShasAreCommits
<1>. QED  BY <1>1 DEF Backed, WasDeclared

LEMMA DeclaredFirstWithoutRecords ==
  ASSUME DeclaredFirst, Reproducible, [Next]_vars, records' = records,
         \/ phase' = "idle"
         \/ /\ phase # "idle" /\ plan' \subseteq plan /\ UNCHANGED read
            /\ \/ phase # "judging" /\ phase' # "judging"
               \/ phase = "judging" /\ phase' = "judging" /\ pin' = pin
               \/ phase # "judging" /\ phase' = "judging" /\ pin'.sha = Len(commits)
  PROVE  DeclaredFirst'
<1>1. Backed'
  BY BackedStays DEF DeclaredFirst, Backed, WasDeclared
<1>2. CASE phase' = "idle"
  BY <1>1, <1>2 DEF DeclaredFirst, ReadWasDeclared
<1>3. CASE phase' # "idle"
  <2>0. phase # "idle" /\ plan' \subseteq plan /\ UNCHANGED read
    BY <1>3
  <2>1. /\ Len(commits) \in Nat /\ Len(commits') \in Nat /\ Len(commits) <= Len(commits')
        /\ \A n \in 1 .. Len(commits) : commits'[n] = commits[n]
    BY TypedStep DEF Reproducible
  <2>2. \A n \in 1 .. Horizon : n \in 1 .. Horizon' /\ commits'[n] = commits[n]
    <3>1. CASE phase # "judging" /\ phase' # "judging"
      BY <2>1, <3>1 DEF Horizon
    <3>2. CASE phase = "judging" /\ phase' = "judging" /\ pin' = pin
      BY <2>1, <3>2 DEF Horizon, Reproducible, PinIsACommit
    <3>3. CASE phase # "judging" /\ phase' = "judging" /\ pin'.sha = Len(commits)
      BY <2>1, <3>3 DEF Horizon
    <3>. QED  BY <1>3, <3>1, <3>2, <3>3
  <2>3. ASSUME NEW a \in Alphas, a \in plan', read'[a].committed
        PROVE  \E n \in 1 .. Horizon' : commits'[n].declarations[a] = read'[a].declaration
    <3>1. PICK n \in 1 .. Horizon : commits[n].declarations[a] = read[a].declaration
      BY <2>0, <2>3 DEF DeclaredFirst, ReadWasDeclared, WasDeclared
    <3>2. n \in 1 .. Horizon' /\ commits'[n] = commits[n]
      BY <2>2
    <3>. QED  BY <2>0, <3>1, <3>2
  <2>4. ReadWasDeclared'
    BY <2>3, Zenon DEF ReadWasDeclared, WasDeclared
  <2>. QED  BY <1>1, <2>4 DEF DeclaredFirst
<1>. QED  BY <1>2, <1>3

LEMMA DeclaredFirstPrepare ==
  ASSUME DeclaredFirst, Reproducible, [Next]_vars, NEW p \in Wanted, NEW allowDirty,
         Prepare(p, allowDirty)
  PROVE  DeclaredFirst'
<1>1. UNCHANGED <<tree, commits, records>> /\ phase' = "prepared" /\ plan' = DOMAIN p
  BY DEF Prepare, tracked
<1>2. Backed'
  BY <1>1, BackedStays DEF DeclaredFirst, Backed, WasDeclared
<1>3. Len(commits) \in 1 .. Len(commits)
  BY DEF Reproducible, Typed
<1>4. ASSUME NEW a \in Alphas, a \in plan', read'[a].committed
      PROVE  \E n \in 1 .. Horizon' : commits'[n].declarations[a] = read'[a].declaration
  <2>1. read'[a] = [declaration |-> tree.declarations[a], committed |-> TrackedAndClean(a)]
    BY <1>1, <1>4 DEF Prepare
  <2>2. commits[Len(commits)].declarations[a] = tree.declarations[a]
    <3>1. read'[a].committed = TrackedAndClean(a)
      BY <2>1
    <3>2. TrackedAndClean(a)
      BY <1>4, <3>1, Zenon
    <3>. QED  BY <3>2 DEF TrackedAndClean, HEAD
  <2>3. Horizon' = Len(commits)
    BY <1>1 DEF Horizon
  <2>. QED  BY <1>1, <1>3, <2>1, <2>2, <2>3
<1>5. ReadWasDeclared'
  BY <1>4, Zenon DEF ReadWasDeclared, WasDeclared
<1>. QED  BY <1>2, <1>5 DEF DeclaredFirst

LEMMA DeclaredFirstJudge ==
  ASSUME DeclaredFirst, Reproducible, [Next]_vars, NEW a \in Alphas, Judge(a), records' # records
  PROVE  DeclaredFirst'
<1>1. /\ phase = "judging" /\ a \in plan /\ plan' = plan \ {a}
      /\ UNCHANGED <<commits, phase, read, pin>>
      /\ WithinDeclaration(code[a].grid, read[a].declaration)
  BY DEF Judge
<1>2. PICK approved \in BOOLEAN, deflated \in {FALSE, desk.measured} :
           records' = Written(Key(pin, a), Record(a, approved, deflated))
  BY DEF Judge
<1>. DEFINE key == Key(pin, a)
            c == Record(a, approved, deflated)
<1>3. key.run.sha = pin.sha /\ key.alpha = a
  BY DEF Key, RunId
<1>4. /\ c.searched \subseteq c.declaration.points
      /\ "G1_preregistration" \in c.passed =>
             /\ c.declaration.file = "declared"
             /\ WasDeclared(a, c.declaration, pin.sha)
  <2>1. c.searched \subseteq c.declaration.points /\ c.declaration = read[a].declaration
    BY <1>1 DEF Record, WithinDeclaration
  <2>2. ASSUME "G1_preregistration" \in c.passed
        PROVE  read[a].declaration.file = "declared" /\ read[a].committed
    BY <2>2 DEF Record, Preregistered
  <2>3. read[a].committed => WasDeclared(a, read[a].declaration, pin.sha)
    BY <1>1 DEF DeclaredFirst, ReadWasDeclared, Horizon
  <2>. HIDE DEF c
  <2>. QED  BY <2>1, <2>2, <2>3
<1>. HIDE DEF key, c
<1>5. /\ DOMAIN records' = DOMAIN records \cup {key}
      /\ \A k \in DOMAIN records' : records'[k] = IF k = key THEN c ELSE records[k]
  BY <1>2 DEF Written, key, c
<1>6. ASSUME NEW k \in DOMAIN records', records'[k].readable
      PROVE  /\ records'[k].searched \subseteq records'[k].declaration.points
             /\ "G1_preregistration" \in records'[k].passed =>
                    /\ records'[k].declaration.file = "declared"
                    /\ \E n \in 1 .. k.run.sha :
                          commits'[n].declarations[k.alpha] = records'[k].declaration
  <2>1. CASE k = key
    BY <1>1, <1>3, <1>4, <1>5, <2>1 DEF WasDeclared
  <2>2. CASE k # key
    <3>1. k \in DOMAIN records /\ records'[k] = records[k]
      BY <1>5, <2>2
    <3>. QED  BY <1>6, <3>1, BackedStays DEF DeclaredFirst
  <2>. QED  BY <2>1, <2>2
<1>7. Backed'
  BY <1>6, Zenon DEF Backed, WasDeclared
<1>8. ReadWasDeclared'
  BY <1>1 DEF DeclaredFirst, ReadWasDeclared, WasDeclared, Horizon
<1>. QED  BY <1>7, <1>8 DEF DeclaredFirst

LEMMA DeclaredFirstStep ==
  ASSUME DeclaredFirst, Reproducible, [Next]_vars
  PROVE  DeclaredFirst'
<1>1. CASE UNCHANGED <<records, phase, plan, read, pin>>
  BY <1>1, DeclaredFirstWithoutRecords
<1>2. CASE /\ \/ \E a \in Alphas, d \in Declarations : EditDeclaration(a, d)
              \/ \E a \in Alphas, g \in Grids : EditCode(a, g)
              \/ Commit \/ SpoilLedger \/ LoseLedger
              \/ \E a \in Alphas, to \in Words : Decide(a, to)
              \/ EndUniverse \/ UNCHANGED vars
  BY <1>1, <1>2 DEF EditDeclaration, EditCode, Commit, SpoilLedger, LoseLedger, Decide,
                    EndUniverse, vars, job
<1>3. ASSUME NEW p \in Wanted, NEW allowDirty, Prepare(p, allowDirty)
      PROVE  DeclaredFirst'
  BY <1>3, DeclaredFirstPrepare
<1>4. CASE CountDesk
  BY <1>4, DeclaredFirstWithoutRecords DEF CountDesk
<1>5. ASSUME NEW held, Load(held)
      PROVE  DeclaredFirst'
  BY <1>5, DeclaredFirstWithoutRecords DEF Load, Stop
<1>6. CASE TakePin
  <2>1. records' = records /\ phase = "loaded"
    BY <1>6 DEF TakePin
  <2>2. CASE Stop("dirty")
    <3>1. phase' = "idle"
      BY <2>2 DEF Stop
    <3>. QED  BY <2>1, <3>1, DeclaredFirstWithoutRecords
  <2>3. CASE phase' = "judging" /\ pin' = Reading /\ UNCHANGED <<plan, read>>
    <3>1. pin'.sha = Len(commits)
      BY <2>3 DEF Reading
    <3>. QED  BY <2>1, <2>3, <3>1, DeclaredFirstWithoutRecords
  <2>. QED  BY <1>6, <2>2, <2>3 DEF TakePin
<1>7. ASSUME NEW u, StartUniverse(u)
      PROVE  DeclaredFirst'
  BY <1>7, DeclaredFirstWithoutRecords DEF StartUniverse, PinFor
<1>8. ASSUME NEW a \in Alphas, Judge(a)
      PROVE  DeclaredFirst'
  <2>1. phase = "judging" /\ plan' \subseteq plan /\ UNCHANGED <<phase, read, pin>>
    BY <1>8 DEF Judge
  <2>. QED  BY <1>8, <2>1, DeclaredFirstWithoutRecords, DeclaredFirstJudge
<1>9. ASSUME NEW a \in Alphas, DieWriting(a)
      PROVE  DeclaredFirst'
  <2>. DEFINE key == Key(pin, a)
  <2>. HIDE DEF key
  <2>1. phase' = "idle" /\ records' = Written(key, HalfARecord)
    BY <1>9 DEF DieWriting, Stop, key
  <2>2. \A k \in DOMAIN records' :
            records'[k].readable => k \in DOMAIN records /\ records'[k] = records[k]
    BY <2>1 DEF Written, HalfARecord
  <2>3. Backed'
    BY <2>2, BackedStays DEF DeclaredFirst, Backed, WasDeclared
  <2>. QED  BY <2>1, <2>3 DEF DeclaredFirst, ReadWasDeclared
<1>10. CASE Finish \/ Die
  BY <1>10, DeclaredFirstWithoutRecords DEF Finish, Die, Stop
<1>. QED
  BY <1>2, <1>3, <1>4, <1>5, <1>6, <1>7, <1>8, <1>9, <1>10 DEF Next

\* An alpha that stands above proposed has a cleared record.
LEMMA StandingIsCleared ==
  ASSUME LedgerTyped, NEW a \in Alphas, RANK[StatusOf(a)] > RANK["proposed"]
  PROVE  \E k \in DOMAIN records : /\ k.alpha = a /\ records[k].readable
                                   /\ Cleared(records[k])
<1>. DEFINE said == SaidAt(DOMAIN Entries(ledger), a, Entries(ledger))
            ev == Evidence(Submissions(a))
<1>1. StatusOf(a) = LowestOf(said, ev)
  BY EntriesType, DeriveIsLowestOf DEF StatusOf
<1>2. ev \in {"proposed", "gated", "paper"}
  BY EvidenceType
<1>3. ev # "proposed"
  <2>. HIDE DEF said, ev
  <2>. QED  BY <1>1, <1>2, Ranks DEF LowestOf
<1>4. \E s \in Submissions(a) : Cleared(s)
  BY <1>3 DEF Evidence
<1>. QED  BY <1>4 DEF Submissions

\* Nobody stands above proposed on a search that was not declared first
\* (core/alphas/lifecycle.py:92-103): whatever was edited, committed, overwritten
\* and lost since, behind the status is a record that passed, judged under a
\* complete declaration that some commit up to its own sha held.
THEOREM StandingWasDeclared == Spec => []EvidenceWasDeclared
<1>1. Init => DeclaredFirst
  <2>1. Init => DOMAIN records = {} /\ phase = "idle"
    BY DEF Init
  <2>. QED  BY <2>1 DEF DeclaredFirst, ReadWasDeclared, Backed
<1>2. DeclaredFirst /\ Reproducible /\ [Next]_vars => DeclaredFirst'
  BY DeclaredFirstStep
<1>3. ASSUME LedgerTyped, DeclaredFirst
      PROVE  EvidenceWasDeclared
  <2>1. SUFFICES ASSUME NEW a \in Alphas, RANK[StatusOf(a)] > RANK["proposed"]
                 PROVE  \E k \in DOMAIN records :
                          /\ k.alpha = a /\ records[k].readable /\ records[k].approved
                          /\ records[k].declaration.file = "declared"
                          /\ records[k].searched \subseteq records[k].declaration.points
                          /\ \E n \in 1 .. k.run.sha :
                                commits[n].declarations[a] = records[k].declaration
    BY DEF EvidenceWasDeclared
  <2>2. PICK k \in DOMAIN records : k.alpha = a /\ records[k].readable /\ Cleared(records[k])
    BY <1>3, <2>1, StandingIsCleared
  <2>3. /\ records[k].approved
        /\ records[k].searched \subseteq records[k].declaration.points
        /\ records[k].declaration.file = "declared"
        /\ WasDeclared(a, records[k].declaration, k.run.sha)
    BY <1>3, <2>2 DEF DeclaredFirst, Backed, Cleared
  <2>. QED  BY <2>2, <2>3 DEF WasDeclared
<1>4. LedgerTyped /\ DeclaredFirst => EvidenceWasDeclared
  BY <1>3
<1>. QED  BY <1>1, <1>2, <1>4, LedgerIsTyped, ReproducibleHolds, PTL DEF Spec

------------------------------------------------------------------------------
(* A run is never refused for its own output. *)

\* Until the pin is taken a run has written nothing: what is unfiled then, it has
\* seen.
UnfiledWasSeen ==
  phase \in {"prepared", "counted", "loaded"} /\ unfiled =>
      \E reading \in seen : reading.dirty

LEMMA UnfiledWasSeenStep ==
  ASSUME UnfiledWasSeen, [Next]_vars
  PROVE  UnfiledWasSeen'
<1>1. CASE (unfiled' => unfiled) /\ UNCHANGED <<phase, seen>>
  BY <1>1 DEF UnfiledWasSeen
<1>2. CASE phase' \in {"idle", "judging"}
  BY <1>2 DEF UnfiledWasSeen
<1>3. ASSUME NEW p, NEW allowDirty, Prepare(p, allowDirty)
      PROVE  UnfiledWasSeen'
  BY <1>3 DEF Prepare, tracked, UnfiledWasSeen, Reading, Dirty
<1>4. CASE CountDesk
  BY <1>4 DEF CountDesk, tracked, UnfiledWasSeen
<1>5. ASSUME NEW held, Load(held)
      PROVE  UnfiledWasSeen'
  BY <1>5 DEF Load, Stop, tracked, UnfiledWasSeen
<1>6. CASE \/ \E a \in Alphas, d \in Declarations : EditDeclaration(a, d)
           \/ \E a \in Alphas, g \in Grids : EditCode(a, g)
           \/ Commit \/ SpoilLedger \/ LoseLedger
           \/ \E a \in Alphas, to \in Words : Decide(a, to)
           \/ UNCHANGED vars
  <2>1. UNCHANGED <<phase, seen>>
    BY <1>6 DEF EditDeclaration, EditCode, Commit, Decide, SpoilLedger, LoseLedger, vars, job
  <2>2. unfiled' = unfiled \/ unfiled' = FALSE
    BY <1>6 DEF EditDeclaration, EditCode, Commit, Decide, SpoilLedger, LoseLedger, vars,
                tracked
  <2>3. unfiled' => unfiled
    BY <2>2, Zenon
  <2>. QED  BY <1>1, <2>1, <2>3
<1>7. CASE TakePin \/ (\E u \in Universes : StartUniverse(u)) \/ EndUniverse
  <2>1. phase' \in {"idle", "judging"}
    BY <1>7 DEF TakePin, StartUniverse, PinFor, EndUniverse, Stop
  <2>. QED  BY <1>2, <2>1
<1>8. CASE (\E a \in Alphas : Judge(a) \/ DieWriting(a)) \/ Finish \/ Die
  <2>1. phase' \in {"idle", "judging"}
    BY <1>8 DEF Judge, DieWriting, Finish, Die, Stop
  <2>. QED  BY <1>2, <2>1
<1>. QED
  BY <1>3, <1>4, <1>5, <1>6, <1>7, <1>8 DEF Next

\* Only the step that takes the pin refuses a tree as dirty.
LEMMA RefusedAtThePin ==
  ASSUME [Next]_vars, outcome' = "dirty", outcome # "dirty"
  PROVE  phase = "loaded" /\ Dirty
BY DEF Next, EditDeclaration, EditCode, Commit, Decide, SpoilLedger, LoseLedger, Prepare,
       CountDesk, Load, TakePin, StartUniverse, PinFor, EndUniverse, Judge, DieWriting, Finish,
       Die, Stop, vars

\* A run that is refused for a dirty tree saw it dirty before it wrote anything, or
\* somebody edits it (registry/decisions/ADR-0048, scripts/submit_alpha.py:736-740).
THEOREM OwnOutputIsNoRefusal == Spec => NotRefusedForItsOwnOutput
<1>1. Init => UnfiledWasSeen
  BY DEF Init, UnfiledWasSeen
<1>2. UnfiledWasSeen /\ [Next]_vars => UnfiledWasSeen'
  BY UnfiledWasSeenStep
<1>3. UnfiledWasSeen /\ [Next]_vars =>
        [outcome' = "dirty" /\ outcome # "dirty" =>
            tree # HEAD \/ \E reading \in seen : reading.dirty]_vars
  BY RefusedAtThePin DEF UnfiledWasSeen, Dirty
<1>. QED  BY <1>1, <1>2, <1>3, PTL DEF Spec, NotRefusedForItsOwnOutput

==============================================================================
