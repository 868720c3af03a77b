---------------------------- MODULE SnapshotProofs ----------------------------
(***************************************************************************)
(* For any symbols, markets, vendors, bars, windows and numbers of runs:   *)
(* an id names one claim, because everything a claim says follows from the *)
(* two things its id is made of (IInv says so of what is written and of    *)
(* what a run is about to write); and what a panel is made of, who served  *)
(* it, where its symbols start and which rows its bars are priced with     *)
(* (DInv, of the bars on disk, the report, the panels and the records).    *)
(***************************************************************************)
EXTENDS Snapshot, FiniteSetTheorems, WellFoundedInduction, TLAPS

Writing == {"index", "manifest", "smoke"}

ClaimOfId(id) == ClaimOf(id.digests, id.window)
ClaimsOfIndex(id) == [code \in DOMAIN id |-> ClaimOfId(id[code])]

ManifestsFollow ==
    \A id \in DOMAIN manifests : manifests[id] = Torn \/ manifests[id] = ClaimOfId(id)

IndexesFollow ==
    \A id \in DOMAIN indexes : indexes[id] = Torn \/ indexes[id] = ClaimsOfIndex(id)

FetchShape ==
    run.pc = "fetch" => DOMAIN run = {"pc", "vendor", "next", "written"}

PanelsFollow ==
    run.pc \in Writing =>
      /\ run = [pc |-> run.pc, panels |-> run.panels, todo |-> run.todo]
      /\ run.todo # {} /\ run.todo \subseteq DOMAIN run.panels
      /\ \A code \in DOMAIN run.panels :
           run.panels[code].claim = ClaimOfId(run.panels[code].id)

IInv == ManifestsFollow /\ IndexesFollow /\ FetchShape /\ PanelsFollow /\ refused = {}

-----------------------------------------------------------------------------
(* A panel that was loaded claims what its id says.                        *)
LEMMA LoadedPanelFollows ==
    ASSUME NEW chosen, NEW start, LoadPanel(chosen, start) # None
    PROVE  LoadPanel(chosen, start).claim = ClaimOfId(LoadPanel(chosen, start).id)
<1>1. LoadPanel(chosen, start)
        = [id |-> SnapshotId(chosen, start), claim |-> ClaimOf(chosen, start)]
  BY DEF LoadPanel
<1>2. /\ SnapshotId(chosen, start).digests = chosen
      /\ SnapshotId(chosen, start).window = start
  BY DEF SnapshotId
<1>. QED  BY <1>1, <1>2 DEF ClaimOfId

(* Writing an id's own claim, or a torn file, keeps the manifests true.    *)
LEMMA PutFollows ==
    ASSUME ManifestsFollow, NEW id, NEW m, m = Torn \/ m = ClaimOfId(id),
           manifests' = With(manifests, id, m)
    PROVE  ManifestsFollow'
<1>1. DOMAIN manifests' = {id} \cup DOMAIN manifests
  BY DEF With
<1>2. \A x \in DOMAIN manifests' : manifests'[x] = IF x = id THEN m ELSE manifests[x]
  BY <1>1 DEF With
<1>3. ASSUME NEW x \in DOMAIN manifests'
      PROVE  manifests'[x] = Torn \/ manifests'[x] = ClaimOfId(x)
  <2>1. CASE x = id
    BY <1>2, <2>1
  <2>2. CASE x # id
    BY <1>1, <1>2, <2>2 DEF ManifestsFollow
  <2>. QED  BY <2>1, <2>2
<1>4. \A x : ClaimOfId(x)' = ClaimOfId(x)
  BY DEF ClaimOfId, ClaimOf, Within, AllDates, CommonDates
<1>. QED  BY <1>3, <1>4 DEF ManifestsFollow

(* So does an index of its panels' claims.                                 *)
LEMMA IndexFollows ==
    ASSUME IndexesFollow, NEW id, NEW m, m = Torn \/ m = ClaimsOfIndex(id),
           indexes' = With(indexes, id, m)
    PROVE  IndexesFollow'
<1>1. DOMAIN indexes' = {id} \cup DOMAIN indexes
  BY DEF With
<1>2. \A x \in DOMAIN indexes' : indexes'[x] = IF x = id THEN m ELSE indexes[x]
  BY <1>1 DEF With
<1>3. ASSUME NEW x \in DOMAIN indexes'
      PROVE  indexes'[x] = Torn \/ indexes'[x] = ClaimsOfIndex(x)
  <2>1. CASE x = id
    BY <1>2, <2>1
  <2>2. CASE x # id
    BY <1>1, <1>2, <2>2 DEF IndexesFollow
  <2>. QED  BY <2>1, <2>2
<1>. QED  BY <1>3 DEF IndexesFollow

(* What follows its id is never refused: the comparison of write_manifest  *)
(* can only fail on a file that is torn.                                   *)
LEMMA NothingWholeIsRefused ==
    ASSUME ManifestsFollow, NEW p, p.claim = ClaimOfId(p.id), ~Accepts(p), refused = {},
           Refuse(p)
    PROVE  refused' = {}
<1>1. p.id \in DOMAIN manifests
  BY DEF Accepts
<1>2. manifests[p.id] = Torn
  BY <1>1 DEF Accepts, ReadBack, ManifestsFollow
<1>. QED  BY <1>2 DEF Refuse

LEMMA IndexIsTrue ==
    ASSUME PanelsFollow, run.pc = "index"
    PROVE  [code \in DOMAIN run.panels |-> run.panels[code].claim] = ClaimsOfIndex(IndexId)
<1>1. DOMAIN IndexId = DOMAIN run.panels
  BY DEF IndexId
<1>2. \A code \in DOMAIN run.panels : IndexId[code] = run.panels[code].id
  BY DEF IndexId
<1>3. \A code \in DOMAIN run.panels : run.panels[code].claim = ClaimOfId(IndexId[code])
  BY <1>2 DEF PanelsFollow, Writing
<1>. QED  BY <1>1, <1>3 DEF ClaimsOfIndex

-----------------------------------------------------------------------------
LEMMA InitHolds == Init => IInv
BY DEF Init, IInv, ManifestsFollow, IndexesFollow, FetchShape, PanelsFollow, Writing, Idle

LEMMA FilesKeep ==
    ASSUME IInv, UNCHANGED files
    PROVE  ManifestsFollow' /\ IndexesFollow' /\ refused' = {}
BY DEF IInv, files, ManifestsFollow, IndexesFollow,
       ClaimsOfIndex, ClaimOfId, ClaimOf, Within, AllDates, CommonDates

LEMMA IdleFollows ==
    ASSUME run' = Idle
    PROVE  FetchShape' /\ PanelsFollow'
BY DEF FetchShape, PanelsFollow, Writing, Idle

LEMMA FetchingFollows ==
    ASSUME run'.pc = "fetch", DOMAIN run' = {"pc", "vendor", "next", "written"}
    PROVE  FetchShape' /\ PanelsFollow'
BY DEF FetchShape, PanelsFollow, Writing

LEMMA WritingFollows ==
    ASSUME NEW pc \in Writing, NEW panels, NEW todo, todo # {}, todo \subseteq DOMAIN panels,
           \A code \in DOMAIN panels : panels[code].claim = ClaimOfId(panels[code].id),
           run' = [pc |-> pc, panels |-> panels, todo |-> todo]
    PROVE  FetchShape' /\ PanelsFollow'
<1>1. run'.pc = pc /\ run'.panels = panels /\ run'.todo = todo
  OBVIOUS
<1>2. FetchShape'
  BY <1>1 DEF FetchShape, Writing
<1>3. \A code \in DOMAIN run'.panels :
         (run'.panels[code]).claim = ClaimOfId((run'.panels[code]).id)
  BY <1>1
<1>. QED  BY <1>1, <1>2, <1>3 DEF PanelsFollow, ClaimOfId, ClaimOf, Within, AllDates, CommonDates

(* A process that goes on to its next file writes the same panels.         *)
LEMMA GoesOn ==
    ASSUME PanelsFollow, run.pc \in Writing, NEW pc \in Writing, run' = [run EXCEPT !.pc = pc]
    PROVE  FetchShape' /\ PanelsFollow'
<1>1. /\ run = [pc |-> run.pc, panels |-> run.panels, todo |-> run.todo]
      /\ run.todo # {} /\ run.todo \subseteq DOMAIN run.panels
      /\ \A c \in DOMAIN run.panels : run.panels[c].claim = ClaimOfId(run.panels[c].id)
  BY DEF PanelsFollow
<1>2. run' = [pc |-> pc, panels |-> run.panels, todo |-> run.todo]
  BY <1>1
<1>. QED  BY <1>1, <1>2, WritingFollows

LEMMA NextPanelFollows ==
    ASSUME PanelsFollow, run.pc \in Writing
    PROVE  LET p == run.panels[CHOOSE c \in run.todo : TRUE] IN p.claim = ClaimOfId(p.id)
<1>1. (CHOOSE c \in run.todo : TRUE) \in run.todo
  BY DEF PanelsFollow
<1>. QED  BY <1>1 DEF PanelsFollow

LEMMA ManifestsStay ==
    ASSUME ManifestsFollow, UNCHANGED manifests
    PROVE  ManifestsFollow'
BY DEF ManifestsFollow, ClaimOfId, ClaimOf, Within, AllDates, CommonDates

LEMMA IndexesStay ==
    ASSUME IndexesFollow, UNCHANGED indexes
    PROVE  IndexesFollow'
BY DEF IndexesFollow, ClaimsOfIndex, ClaimOfId, ClaimOf, Within, AllDates, CommonDates

LEMMA RunStays ==
    ASSUME FetchShape, PanelsFollow, UNCHANGED run
    PROVE  FetchShape' /\ PanelsFollow'
<1>1. FetchShape'
  BY DEF FetchShape
<1>2. CASE run.pc \in Writing
  <2>1. /\ run = [pc |-> run.pc, panels |-> run.panels, todo |-> run.todo]
        /\ run.todo # {} /\ run.todo \subseteq DOMAIN run.panels
        /\ \A c \in DOMAIN run.panels : run.panels[c].claim = ClaimOfId(run.panels[c].id)
    BY <1>2 DEF PanelsFollow
  <2>2. run' = [pc |-> run.pc, panels |-> run.panels, todo |-> run.todo]
    BY <2>1
  <2>. QED  BY <1>2, <2>1, <2>2, WritingFollows
<1>3. CASE run.pc \notin Writing
  BY <1>1, <1>3 DEF PanelsFollow, Writing
<1>. QED  BY <1>2, <1>3

(* A step that leaves what is on disk and the process as they are.         *)
LEMMA QuietKeeps ==
    ASSUME IInv, UNCHANGED <<files, run>>
    PROVE  IInv'
<1>1. UNCHANGED files /\ UNCHANGED run
  OBVIOUS
<1>. QED  BY <1>1, FilesKeep, RunStays DEF IInv

(* A snapshot that does not end at once has a panel of each market.        *)
Loaded(panels) ==
    /\ Markets # {} /\ \A code \in Markets : panels[code] # None
    /\ run' = [pc |-> IF Cardinality(Markets) > 1 THEN "index" ELSE "manifest",
               panels |-> panels, todo |-> Markets]

LEMMA SnapshotLoads ==
    ASSUME StartSnapshot
    PROVE  \E years \in Years :
             LET panels == [code \in Markets |-> PanelOf(code, years)]
             IN  run' = Idle \/ Loaded(panels)
<1>1. PICK years \in Years :
        LET panels == [code \in Markets |-> PanelOf(code, years)]
        IN  run' \in
              IF Markets = {} \/ \E code \in Markets : panels[code] = None THEN {Idle}
              ELSE {[pc |-> IF Cardinality(Markets) > 1 THEN "index" ELSE "manifest",
                     panels |-> panels, todo |-> Markets]}
                   \cup (IF Spanned # Discovered THEN {Idle} ELSE {})
  BY DEF StartSnapshot
<1>. DEFINE panels == [code \in Markets |-> PanelOf(code, years)]
            none == Markets = {} \/ \E code \in Markets : panels[code] = None
            next == [pc |-> IF Cardinality(Markets) > 1 THEN "index" ELSE "manifest",
                     panels |-> panels, todo |-> Markets]
<1>2. run' = Idle \/ (~none /\ run' = next)
  <2>1. run' \in IF none THEN {Idle}
                 ELSE {next} \cup (IF Spanned # Discovered THEN {Idle} ELSE {})
    BY <1>1
  <2>. HIDE DEF none, next
  <2>. QED  BY <2>1
<1>. QED  BY <1>2 DEF Loaded

LEMMA StepKeeps ==
    ASSUME IInv, [Next]_vars
    PROVE  IInv'
<1>1. CASE StartFetch
  <2>1. UNCHANGED files  BY <1>1 DEF StartFetch
  <2>2. FetchShape' /\ PanelsFollow'
    BY <1>1, FetchingFollows DEF StartFetch
  <2>. QED  BY <2>1, <2>2, FilesKeep DEF IInv
<1>2. CASE WriteBars
  <2>1. UNCHANGED files  BY <1>2 DEF WriteBars
  <2>2. run.pc = "fetch" /\ DOMAIN run = {"pc", "vendor", "next", "written"}
    BY <1>2 DEF WriteBars, Fetching, IInv, FetchShape
  <2>3. run' = [run EXCEPT !.next = @ + 1, !.written = @ \cup {Asked[run.next]}]
    BY <1>2 DEF WriteBars
  <2>4. DOMAIN run' = DOMAIN run /\ run'.pc = run.pc
    BY <2>2, <2>3
  <2>5. FetchShape' /\ PanelsFollow'  BY <2>2, <2>4, FetchingFollows
  <2>. QED  BY <2>1, <2>5, FilesKeep DEF IInv
<1>3. CASE SymbolFails
  <2>1. UNCHANGED files  BY <1>3 DEF SymbolFails
  <2>2. run.pc = "fetch" /\ DOMAIN run = {"pc", "vendor", "next", "written"}
    BY <1>3 DEF SymbolFails, Fetching, IInv, FetchShape
  <2>3. run' = [run EXCEPT !.next = @ + 1]
    BY <1>3 DEF SymbolFails
  <2>4. DOMAIN run' = DOMAIN run /\ run'.pc = run.pc
    BY <2>2, <2>3
  <2>5. FetchShape' /\ PanelsFollow'  BY <2>2, <2>4, FetchingFollows
  <2>. QED  BY <2>1, <2>5, FilesKeep DEF IInv
<1>4. CASE VendorDone
  <2>1. UNCHANGED files  BY <1>4 DEF VendorDone
  <2>2. run.pc = "fetch" /\ DOMAIN run = {"pc", "vendor", "next", "written"}
    BY <1>4 DEF VendorDone, IInv, FetchShape
  <2>3. run' = Idle \/ run' = [run EXCEPT !.vendor = @ + 1, !.next = 1, !.written = {}]
    BY <1>4 DEF VendorDone
  <2>4. CASE run' = Idle
    BY <2>1, <2>4, IdleFollows, FilesKeep DEF IInv
  <2>5. CASE run' = [run EXCEPT !.vendor = @ + 1, !.next = 1, !.written = {}]
    <3>1. DOMAIN run' = DOMAIN run /\ run'.pc = run.pc
      BY <2>2, <2>5
    <3>2. FetchShape' /\ PanelsFollow'  BY <2>2, <3>1, FetchingFollows
    <3>. QED  BY <2>1, <3>2, FilesKeep DEF IInv
  <2>. QED  BY <2>3, <2>4, <2>5
<1>5. CASE FetchDies
  <2>1. UNCHANGED files /\ run' = Idle  BY <1>5 DEF FetchDies
  <2>. QED  BY <2>1, IdleFollows, FilesKeep DEF IInv
<1>6. CASE FetchFactors
  BY <1>6, QuietKeeps DEF FetchFactors
<1>7. CASE StartSnapshot
  <2>1. UNCHANGED files  BY <1>7 DEF StartSnapshot
  <2>2. PICK years \in Years :
          LET panels == [code \in Markets |-> PanelOf(code, years)]
          IN  \/ run' = Idle
              \/ Loaded(panels)
    BY <1>7, SnapshotLoads
  <2>. DEFINE panels == [code \in Markets |-> PanelOf(code, years)]
  <2>3. CASE run' = Idle
    BY <2>1, <2>3, IdleFollows, FilesKeep DEF IInv
  <2>4. CASE Loaded(panels)
    <3>1. run' = [pc |-> IF Cardinality(Markets) > 1 THEN "index" ELSE "manifest",
                  panels |-> panels, todo |-> Markets]
      BY <2>4 DEF Loaded
    <3>2. Markets # {} /\ \A code \in Markets : panels[code] # None
      BY <2>4 DEF Loaded
    <3>3. ASSUME NEW code \in Markets
          PROVE  panels[code].claim = ClaimOfId(panels[code].id)
      <4>1. panels[code] = PanelOf(code, years) /\ PanelOf(code, years) # None
        BY <3>2
      <4>. QED  BY <4>1, LoadedPanelFollows DEF PanelOf
    <3>4. PICK pc \in Writing : run' = [pc |-> pc, panels |-> panels, todo |-> Markets]
      BY <3>1 DEF Writing
    <3>5. Markets \subseteq DOMAIN panels /\ DOMAIN panels \subseteq Markets
      OBVIOUS
    <3>. HIDE DEF panels
    <3>6. FetchShape' /\ PanelsFollow'
      BY <3>2, <3>3, <3>4, <3>5, WritingFollows
    <3>. QED  BY <2>1, <3>6, FilesKeep DEF IInv
  <2>. QED  BY <2>2, <2>3, <2>4
<1>8. CASE WriteIndex
  <2>. DEFINE mine == [code \in DOMAIN run.panels |-> run.panels[code].claim]
  <2>1. run.pc = "index" /\ UNCHANGED manifests
    BY <1>8 DEF WriteIndex
  <2>2. mine = ClaimsOfIndex(IndexId)
    BY <2>1, IndexIsTrue DEF IInv
  <2>3. CASE IndexId \in DOMAIN indexes /\ (indexes[IndexId] = Torn \/ indexes[IndexId] # mine)
    <3>1. /\ run' = Idle /\ UNCHANGED indexes
          /\ refused' = refused \cup (IF indexes[IndexId] = Torn THEN {} ELSE {IndexId})
      BY <1>8, <2>3 DEF WriteIndex
    <3>2. indexes[IndexId] = Torn
      BY <2>2, <2>3 DEF IInv, IndexesFollow
    <3>3. refused' = {}  BY <3>1, <3>2 DEF IInv
    <3>4. ManifestsFollow' /\ IndexesFollow'
      BY <2>1, <3>1 DEF IInv, ManifestsFollow, IndexesFollow, ClaimsOfIndex, ClaimOfId, ClaimOf,
                        Within, AllDates, CommonDates
    <3>. QED  BY <3>1, <3>3, <3>4, IdleFollows DEF IInv
  <2>4. CASE ~(IndexId \in DOMAIN indexes
               /\ (indexes[IndexId] = Torn \/ indexes[IndexId] # mine))
    <3>1. /\ indexes' = With(indexes, IndexId, mine)
          /\ run' = [run EXCEPT !.pc = "manifest"] /\ UNCHANGED refused
      BY <1>8, <2>4 DEF WriteIndex
    <3>2. IndexesFollow'
      BY <2>2, <3>1, IndexFollows DEF IInv
    <3>3. ManifestsFollow'
      BY <2>1, ManifestsStay DEF IInv
    <3>4. FetchShape' /\ PanelsFollow'
      BY <2>1, <3>1, GoesOn DEF IInv, Writing
    <3>. QED  BY <3>1, <3>2, <3>3, <3>4 DEF IInv
  <2>. QED  BY <2>3, <2>4
<1>9. CASE WriteManifest
  <2>. DEFINE code == CHOOSE c \in run.todo : TRUE
  <2>. DEFINE p == run.panels[code]
  <2>1. run.pc = "manifest" /\ UNCHANGED indexes
    BY <1>9 DEF WriteManifest
  <2>2. p.claim = ClaimOfId(p.id)
    BY <2>1, NextPanelFollows DEF IInv, Writing
  <2>3. IndexesFollow'
    BY <2>1, IndexesStay DEF IInv
  <2>4. CASE ~Accepts(p)
    <3>1. Refuse(p) /\ run' = Idle /\ UNCHANGED manifests
      BY <1>9, <2>4 DEF WriteManifest
    <3>2. refused' = {}
      BY <2>2, <2>4, <3>1, NothingWholeIsRefused DEF IInv
    <3>3. ManifestsFollow'
      BY <3>1, ManifestsStay DEF IInv
    <3>. QED  BY <2>3, <3>1, <3>2, <3>3, IdleFollows DEF IInv
  <2>5. CASE Accepts(p)
    <3>1. Put(p) /\ run' = [run EXCEPT !.pc = "smoke"] /\ UNCHANGED refused
      BY <1>9, <2>5 DEF WriteManifest
    <3>2. ManifestsFollow'
      BY <2>2, <3>1, PutFollows DEF IInv, Put
    <3>3. FetchShape' /\ PanelsFollow'
      BY <2>1, <3>1, GoesOn DEF IInv, Writing
    <3>. QED  BY <2>3, <3>1, <3>2, <3>3 DEF IInv
  <2>. QED  BY <2>4, <2>5
<1>10. CASE WriteSmoke
  <2>. DEFINE code == CHOOSE c \in run.todo : TRUE
  <2>1. run.pc = "smoke" /\ UNCHANGED <<manifests, indexes, refused>>
    BY <1>10 DEF WriteSmoke
  <2>2. ManifestsFollow' /\ IndexesFollow' /\ refused' = {}
    BY <2>1, ManifestsStay, IndexesStay DEF IInv
  <2>3. CASE run.todo = {code}
    <3>1. run' = Idle  BY <1>10, <2>3 DEF WriteSmoke
    <3>. QED  BY <2>2, <3>1, IdleFollows DEF IInv
  <2>4. CASE run.todo # {code}
    <3>1. run' = [run EXCEPT !.pc = "manifest", !.todo = @ \ {code}]
      BY <1>10, <2>4 DEF WriteSmoke
    <3>2. /\ run = [pc |-> run.pc, panels |-> run.panels, todo |-> run.todo]
          /\ run.todo # {} /\ run.todo \subseteq DOMAIN run.panels
          /\ \A c \in DOMAIN run.panels : run.panels[c].claim = ClaimOfId(run.panels[c].id)
      BY <2>1 DEF IInv, PanelsFollow, Writing
    <3>3. run' = [pc |-> "manifest", panels |-> run.panels, todo |-> run.todo \ {code}]
      BY <3>1, <3>2
    <3>4. code \in run.todo
      BY <3>2
    <3>5. run.todo \ {code} # {}
      BY <2>4, <3>4
    <3>6. FetchShape' /\ PanelsFollow'
      BY <3>2, <3>3, <3>5, WritingFollows DEF Writing
    <3>. QED  BY <2>2, <3>6 DEF IInv
  <2>. QED  BY <2>3, <2>4
<1>11. CASE SnapshotDies
  <2>. DEFINE p == run.panels[CHOOSE c \in run.todo : TRUE]
  <2>1. run' = Idle /\ UNCHANGED refused
    BY <1>11 DEF SnapshotDies
  <2>2. ManifestsFollow' /\ IndexesFollow'
    <3>1. CASE UNCHANGED <<manifests, indexes>>
      BY <3>1, ManifestsStay, IndexesStay DEF IInv
    <3>2. CASE indexes' = With(indexes, IndexId, Torn) /\ UNCHANGED manifests
      BY <3>2, IndexFollows, ManifestsStay DEF IInv
    <3>3. CASE manifests' = With(manifests, p.id, Torn) /\ UNCHANGED indexes
      BY <3>3, PutFollows, IndexesStay DEF IInv
    <3>. QED  BY <1>11, <3>1, <3>2, <3>3 DEF SnapshotDies
  <2>. QED  BY <2>1, <2>2, IdleFollows DEF IInv
<1>12. CASE Submit
  <2>1. UNCHANGED <<indexes, run>>
    BY <1>12 DEF Submit
  <2>2. PICK u \in Universes :
          LET p == LoadPanel([s \in u |-> data[s]], None)
          IN  /\ p # None
              /\ IF Accepts(p) THEN Put(p) /\ UNCHANGED refused
                 ELSE Refuse(p) /\ UNCHANGED manifests
    BY <1>12 DEF Submit
  <2>. DEFINE p == LoadPanel([s \in u |-> data[s]], None)
  <2>3. p.claim = ClaimOfId(p.id)
    BY <2>2, LoadedPanelFollows
  <2>4. IndexesFollow' /\ FetchShape' /\ PanelsFollow'
    BY <2>1, IndexesStay, RunStays DEF IInv
  <2>5. CASE Accepts(p)
    <3>1. Put(p) /\ UNCHANGED refused  BY <2>2, <2>5
    <3>2. ManifestsFollow'
      BY <2>3, <3>1, PutFollows DEF IInv, Put
    <3>. QED  BY <2>4, <3>1, <3>2 DEF IInv
  <2>6. CASE ~Accepts(p)
    <3>1. Refuse(p) /\ UNCHANGED manifests  BY <2>2, <2>6
    <3>2. refused' = {}
      BY <2>3, <2>6, <3>1, NothingWholeIsRefused DEF IInv
    <3>3. ManifestsFollow'
      BY <3>1, ManifestsStay DEF IInv
    <3>. QED  BY <2>4, <3>2, <3>3 DEF IInv
  <2>. QED  BY <2>5, <2>6
<1>13. CASE UNCHANGED vars
  BY <1>13, QuietKeeps DEF vars, files
<1>. QED
  BY <1>1, <1>2, <1>3, <1>4, <1>5, <1>6, <1>7, <1>8, <1>9, <1>10, <1>11, <1>12, <1>13 DEF Next

(* For any symbols, markets, vendors, bars, windows and number of runs:    *)
(* the id of a snapshot says all that its manifest claims, so no manifest  *)
(* or index that is whole is ever refused (_snapshot_id, write_manifest).  *)
THEOREM OneIdOneClaim == Spec => []SameReadSameClaim
<1>1. IInv => SameReadSameClaim
  BY DEF IInv, SameReadSameClaim
<1>. QED  BY InitHolds, StepKeeps, <1>1, PTL DEF Spec

-----------------------------------------------------------------------------
(* Days                                                                    *)

IsDays(days) == days \subseteq Int /\ IsFiniteSet(days) /\ days # {}

LEMMA LeastNatural ==
    ASSUME NEW S \in SUBSET Nat, S # {}
    PROVE  \E x \in S : \A y \in S : x <= y
<1>. DEFINE less == OpToRel(<, Nat)
<1>1. IsWellFoundedOn(less, Nat)
  BY NatLessThanWellFounded
<1>2. \A i, j \in Nat : i < j => <<i, j>> \in less
  BY Zenon DEF OpToRel
<1>. HIDE DEF less
<1>3. PICK x \in S : \A y \in S : <<y, x>> \notin less
  BY <1>1, WFMin
<1>4. ASSUME NEW y \in S
      PROVE  x <= y
  <2>1. x \in Nat /\ y \in Nat /\ ~(y < x)
    BY <1>2, <1>3, Zenon
  <2>. QED  BY <2>1
<1>. QED  BY <1>4

(* Days, being finitely many, have a first and a last one.                 *)
LEMMA DaysEnd ==
    ASSUME NEW S, IsDays(S)
    PROVE  \E x, z \in S : \A y \in S : x <= y /\ y <= z
<1>. DEFINE Ends(T) == \E x, z \in T : \A y \in T : x <= y /\ y <= z
            bad == {n \in Nat : \E T \in SUBSET S : T # {} /\ Cardinality(T) = n /\ ~Ends(T)}
<1>1. S \subseteq Int /\ IsFiniteSet(S) /\ S # {}
  BY DEF IsDays
<1>2. ASSUME ~Ends(S)
      PROVE  FALSE
  <2>1. Cardinality(S) \in bad
    BY <1>1, <1>2, FS_CardinalityType
  <2>2. PICK m \in bad : \A n \in bad : m <= n
    <3>. HIDE DEF bad
    <3>1. bad \in SUBSET Nat
      BY DEF bad
    <3>. QED  BY <2>1, <3>1, LeastNatural
  <2>3. PICK T \in SUBSET S : T # {} /\ Cardinality(T) = m /\ ~Ends(T)
    BY <2>2
  <2>4. PICK t \in T : TRUE
    BY <2>3
  <2>5. IsFiniteSet(T)
    BY <1>1, FS_Subset
  <2>6. IsFiniteSet(T \ {t}) /\ Cardinality(T \ {t}) = m - 1 /\ m \in Nat
    BY <2>2, <2>3, <2>4, <2>5, FS_RemoveElement
  <2>7. CASE T = {t}
    <3>1. t <= t
      BY <1>1, <2>4
    <3>. QED  BY <2>3, <2>7, <3>1
  <2>8. CASE T # {t}
    <3>1. T \ {t} # {} /\ T \ {t} \in SUBSET S
      BY <2>8
    <3>2. m - 1 \in Nat
      BY <2>6, FS_CardinalityType
    <3>3. Ends(T \ {t})
      <4>1. m - 1 \notin bad
        <5>. HIDE DEF bad
        <5>1. m - 1 \in bad => m <= m - 1
          BY <2>2
        <5>. QED  BY <2>6, <5>1
      <4>. QED  BY <2>6, <3>1, <3>2, <4>1
    <3>4. PICK x, z \in T \ {t} : \A y \in T \ {t} : x <= y /\ y <= z
      BY <3>3
    <3>5. x \in Int /\ z \in Int /\ t \in Int
      BY <1>1
    <3>. DEFINE low == IF t <= x THEN t ELSE x
                high == IF z <= t THEN t ELSE z
    <3>6. low \in T /\ high \in T
      OBVIOUS
    <3>7. ASSUME NEW y \in T
          PROVE  low <= y /\ y <= high
      <4>1. y \in Int
        BY <1>1
      <4>. QED  BY <3>4, <3>5, <4>1
    <3>. HIDE DEF low, high
    <3>8. \A y \in T : low <= y /\ y <= high
      BY <3>7
    <3>9. Ends(T)
      BY <3>6, <3>8
    <3>. QED  BY <2>3, <3>9
  <2>. QED  BY <2>7, <2>8
<1>. QED  BY <1>2

LEMMA FirstOfDays ==
    ASSUME NEW S, IsDays(S)
    PROVE  Min(S) \in S /\ Min(S) \in Int /\ \A y \in S : Min(S) <= y
<1>1. \E x \in S : \A y \in S : x <= y
  BY DaysEnd
<1>. QED  BY <1>1 DEF Min, IsDays

LEMMA LastOfDays ==
    ASSUME NEW S, IsDays(S)
    PROVE  Max(S) \in S /\ Max(S) \in Int /\ \A y \in S : y <= Max(S)
<1>1. \E x \in S : \A y \in S : x >= y
  BY DaysEnd DEF IsDays
<1>. QED  BY <1>1 DEF Max, IsDays

LEMMA ImageIsFinite ==
    ASSUME NEW f, f = [x \in DOMAIN f |-> f[x]], IsFiniteSet(DOMAIN f)
    PROVE  IsFiniteSet({f[x] : x \in DOMAIN f})
<1>. DEFINE T == {f[x] : x \in DOMAIN f}
<1>1. f \in [DOMAIN f -> T]
  OBVIOUS
<1>2. f \in Surjection(DOMAIN f, T)
  BY <1>1 DEF Surjection
<1>. QED  BY <1>2, FS_Surjection

LEMMA SymbolsAreFinite == IsFiniteSet(Symbols)
<1>1. Asked \in Seq(DOMAIN MarketOf)
  BY SnapshotAssumption
<1>2. DOMAIN Asked = 1 .. Len(Asked) /\ Len(Asked) \in Nat
  BY <1>1
<1>3. IsFiniteSet(DOMAIN Asked)
  BY <1>2, FS_Interval
<1>4. Asked = [i \in DOMAIN Asked |-> Asked[i]]
  BY <1>1
<1>. QED  BY <1>3, <1>4, ImageIsFinite DEF Symbols, ToSet

-----------------------------------------------------------------------------
(* What a panel is made of                                                 *)

BarsAreGood ==
    /\ DOMAIN data = Symbols /\ data = [s \in Symbols |-> data[s]]
    /\ DOMAIN source = Symbols /\ source = [s \in Symbols |-> source[s]]
    /\ \A s \in Symbols : data[s] \notin {None, Torn} => IsDays(data[s].days)

(* A market's window is a day some symbol's history reaches back to.       *)
LEMMA WindowIsReached ==
    ASSUME BarsAreGood, NEW code \in Markets, NEW years \in Years
    PROVE  /\ WindowOf(code, years) \in Int
           /\ HistoryScreen(GroupOf(code), WindowOf(code, years)) # {}
           /\ HistoryScreen(GroupOf(code), WindowOf(code, years)) \subseteq Spanned
<1>. DEFINE group == GroupOf(code)
            last == [s \in group |-> LastDay(data[s])]
            first == [s \in group |-> FirstDay(data[s])]
            lasts == {LastDay(data[s]) : s \in group}
            firsts == {FirstDay(data[s]) : s \in group}
            required == Max(lasts) - years
<1>1. group # {} /\ group \subseteq Spanned /\ group \subseteq Symbols
  BY DEF Markets, GroupOf, Spanned, Discovered
<1>2. IsFiniteSet(group)
  BY <1>1, SymbolsAreFinite, FS_Subset
<1>3. \A s \in group : IsDays(data[s].days)
  BY <1>1 DEF BarsAreGood, Spanned, Discovered
<1>4. \A s \in group : last[s] \in Int /\ first[s] \in Int
  BY <1>3, FirstOfDays, LastOfDays DEF LastDay, FirstDay
<1>5. IsDays(lasts) /\ IsDays(firsts)
  <2>1. IsFiniteSet(lasts) /\ IsFiniteSet(firsts)
    <3>1. /\ IsFiniteSet({last[s] : s \in DOMAIN last})
          /\ IsFiniteSet({first[s] : s \in DOMAIN first})
      BY <1>2, ImageIsFinite, Zenon
    <3>2. lasts = {last[s] : s \in DOMAIN last} /\ firsts = {first[s] : s \in DOMAIN first}
      OBVIOUS
    <3>. QED  BY <3>1, <3>2
  <2>2. lasts \subseteq Int /\ firsts \subseteq Int
    BY <1>4
  <2>3. lasts # {} /\ firsts # {}
    BY <1>1
  <2>. HIDE DEF lasts, firsts
  <2>. QED  BY <2>1, <2>2, <2>3 DEF IsDays
<1>6. \A s \in group : FirstDay(data[s]) \in firsts
  OBVIOUS
<1>7. WindowOf(code, years) =
        IF HistoryScreen(group, required) # {} THEN required ELSE Max(firsts)
  BY DEF WindowOf
<1>8. years \in Int
  <2>1. Years \subseteq Nat
    BY SnapshotAssumption, Zenon
  <2>. QED  BY <2>1
<1>. HIDE DEF lasts, firsts
<1>9. required \in Int
  BY <1>5, <1>8, LastOfDays
<1>10. HistoryScreen(group, WindowOf(code, years)) \subseteq Spanned
  BY <1>1 DEF HistoryScreen
<1>11. CASE HistoryScreen(group, required) # {}
  BY <1>7, <1>9, <1>10, <1>11
<1>12. CASE HistoryScreen(group, required) = {}
  <2>1. WindowOf(code, years) = Max(firsts)
    BY <1>7, <1>12
  <2>2. Max(firsts) \in Int /\ \A y \in firsts : y <= Max(firsts)
    BY <1>5, LastOfDays
  <2>3. \A s \in group : FirstDay(data[s]) <= Max(firsts)
    BY <1>6, <2>2
  <2>4. HistoryScreen(group, Max(firsts)) # {}
    BY <1>1, <2>3 DEF HistoryScreen
  <2>. QED  BY <1>10, <2>1, <2>2, <2>4
<1>. QED  BY <1>11, <1>12

PanelIsGood(p, bars, code) ==
    LET c == p.claim
    IN  /\ DOMAIN c.digests # {} /\ DOMAIN c.digests \subseteq Symbols
        /\ c.digests = p.id.digests
        /\ \A s \in DOMAIN c.digests : /\ c.digests[s] = bars[s]
                                       /\ IsDays(c.digests[s].days)
                                       /\ FirstDay(c.digests[s]) <= c.window
                                       /\ MarketOf[s] = code
        /\ c.window \in Int
        /\ c.dates \subseteq Int /\ IsFiniteSet(c.dates)

(* The panel of a market holds symbols whose history reaches its window,   *)
(* with the bytes that are on disk.                                        *)
LEMMA PanelOfMarket ==
    ASSUME BarsAreGood, NEW code \in Markets, NEW years \in Years, PanelOf(code, years) # None
    PROVE  PanelIsGood(PanelOf(code, years), data, code)
<1>. DEFINE window == WindowOf(code, years)
            kept == HistoryScreen(GroupOf(code), window)
            chosen == [s \in kept |-> data[s]]
            within == Within(chosen, window)
<1>1. window \in Int /\ kept # {} /\ kept \subseteq Spanned
  BY WindowIsReached
<1>2. PanelOf(code, years) = LoadPanel(chosen, window)
  BY DEF PanelOf
<1>3. LoadPanel(chosen, window)
        = [id |-> SnapshotId(chosen, window), claim |-> ClaimOf(chosen, window)]
  BY <1>2 DEF LoadPanel
<1>4. /\ PanelOf(code, years).claim.digests = chosen
      /\ PanelOf(code, years).id.digests = chosen
      /\ PanelOf(code, years).claim.window = window
      /\ PanelOf(code, years).claim.dates = CommonDates(within)
  BY <1>2, <1>3 DEF ClaimOf, SnapshotId
<1>5. \A s \in kept : /\ data[s] \notin {None, Torn} /\ s \in Symbols
                      /\ FirstDay(data[s]) <= window /\ MarketOf[s] = code
  BY <1>1 DEF Spanned, Discovered, HistoryScreen, GroupOf
<1>6. \A s \in kept : IsDays(data[s].days)
  BY <1>5 DEF BarsAreGood
<1>7. CommonDates(within) \subseteq Int /\ IsFiniteSet(CommonDates(within))
  <2>1. PICK s \in kept : TRUE
    BY <1>1
  <2>2. DOMAIN within = kept /\ within[s] \subseteq data[s].days
    BY <2>1 DEF Within
  <2>3. CommonDates(within) \subseteq data[s].days
    BY <2>1, <2>2 DEF CommonDates
  <2>. QED  BY <1>6, <2>1, <2>3, FS_Subset DEF IsDays
<1>. HIDE DEF window, kept, within
<1>8. DOMAIN chosen = kept /\ \A s \in kept : chosen[s] = data[s]
  OBVIOUS
<1>. HIDE DEF chosen
<1>. QED  BY <1>1, <1>4, <1>5, <1>6, <1>7, <1>8 DEF PanelIsGood

FactorsFit(dates, used, file) ==
    used.rows # None =>
      /\ used.rows = {d \in used.dates : \E e \in used.dates : e < d}
      /\ used.rows \subseteq file
      /\ used.dates \subseteq dates
      /\ (dates \ used.dates) \cap file = {}

LEMMA MatrixFits ==
    ASSUME NEW dates, dates \subseteq Int, IsFiniteSet(dates), NEW code
    PROVE  /\ FactorsFit(dates, FactorMatrix(dates, code), factors)
           /\ FactorMatrix(dates, code).rows # None => code = FRENCH_MARKET
<1>. DEFINE covered == dates \cap factors
            trimmed == {d \in dates : Min(covered) <= d /\ d <= Max(covered)}
<1>1. SUFFICES ASSUME FactorMatrix(dates, code).rows # None
               PROVE  /\ FactorsFit(dates, FactorMatrix(dates, code), factors)
                      /\ code = FRENCH_MARKET
  BY DEF FactorsFit
<1>2. /\ Cardinality(covered) >= 3 /\ code = FRENCH_MARKET /\ trimmed = covered /\ BarDays(trimmed) \subseteq factors
      /\ FactorMatrix(dates, code) = [dates |-> trimmed, rows |-> BarDays(trimmed)]
  BY <1>1 DEF FactorMatrix
<1>3. IsDays(trimmed)
  <2>1. IsFiniteSet(covered) /\ covered \subseteq Int
    BY FS_Intersection
  <2>2. covered # {}
    BY <1>2, FS_EmptySet
  <2>. QED  BY <1>2, <2>1, <2>2 DEF IsDays
<1>4. /\ Min(trimmed) \in trimmed /\ \A y \in trimmed : Min(trimmed) <= y
  BY <1>3, FirstOfDays
<1>5. trimmed \subseteq dates /\ (dates \ trimmed) \cap factors = {}
  BY <1>2
<1>6. trimmed \subseteq Int
  BY <1>5
<1>. HIDE DEF trimmed, covered
<1>7. BarDays(trimmed) = {d \in trimmed : \E e \in trimmed : e < d}
  <2>1. ASSUME NEW d \in trimmed
        PROVE  d # Min(trimmed) <=> \E e \in trimmed : e < d
    <3>1. PICK m \in trimmed : m = Min(trimmed) /\ \A y \in trimmed : m <= y
      BY <1>4
    <3>2. m \in Int /\ d \in Int
      BY <1>6
    <3>3. ASSUME d # m  PROVE  m < d
      BY <3>1, <3>2, <3>3
    <3>4. ASSUME NEW e \in trimmed, e < d  PROVE  d # m
      BY <1>6, <3>1, <3>2, <3>4
    <3>. QED  BY <3>1, <3>3, <3>4
  <2>. QED  BY <2>1 DEF BarDays
<1>. QED  BY <1>2, <1>5, <1>7 DEF FactorsFit

-----------------------------------------------------------------------------
(* The fetch and its report                                                *)

OneFetch ==
    run.pc = "fetch" =>
      /\ DOMAIN run = {"pc", "vendor", "next", "written"}
      /\ run.next \in Nat \ {0} /\ run.written \subseteq Symbols
      /\ ok = None
      /\ \A s \in run.written : data[s].by = Vendors[run.vendor] /\ source[s] = Vendors[run.vendor]

ReportIsTrue == ok # None => \A s \in Symbols : data[s].by = ok /\ source[s] = ok

PanelsAreGood ==
    run.pc \in Writing =>
      /\ \A code \in DOMAIN run.panels : PanelIsGood(run.panels[code], data, code)
      /\ place = "runner" => ok # None

ManifestsReach ==
    \A id \in Whole :
      LET claim == manifests[id]
      IN  claim.window # None =>
            /\ claim.window \in Int
            /\ \A s \in DOMAIN claim.digests : /\ IsDays(claim.digests[s].days)
                                               /\ FirstDay(claim.digests[s]) <= claim.window

OfOneVendor(id, record) ==
    /\ record.sources = {record.reported}
    /\ \A s \in DOMAIN id.digests : id.digests[s].by = record.reported

OfItsMarket(id, record) ==
    record.matrix.rows # None => \A s \in DOMAIN id.digests : MarketOf[s] = FRENCH_MARKET

RecordsAreHonest ==
    \A id \in DOMAIN smoke :
      /\ place = "runner" => OfOneVendor(id, smoke[id])
      /\ OfItsMarket(id, smoke[id])
      /\ FactorsFit(smoke[id].dates, smoke[id].matrix, factors)

Started ==
    /\ runs \in [{"fetch", "snapshot", "submit"} -> Nat]
    /\ run.pc \in Writing \/ DOMAIN smoke # {} => runs["snapshot"] # 0

DInv ==
    /\ BarsAreGood /\ OneFetch /\ ReportIsTrue /\ PanelsAreGood
    /\ ManifestsReach /\ RecordsAreHonest /\ Started

LEMMA InitIsGood == Init => DInv
BY DEF Init, DInv, BarsAreGood, OneFetch, ReportIsTrue, PanelsAreGood, ManifestsReach, Whole,
       RecordsAreHonest, Started, Idle, Writing

LEMMA ShapesAreDays ==
    ASSUME NEW s \in Symbols, NEW days \in Shapes[s], Cardinality(days) >= MinRows
    PROVE  IsDays(days) /\ \A e \in days : IsDays({d \in days : d <= e})
<1>1. days \subseteq Nat /\ IsFiniteSet(days) /\ MinRows \in Nat \ {0, 1}
  <2>1. \A t \in Symbols : \A d \in Shapes[t] : d \subseteq Nat /\ IsFiniteSet(d)
    BY SnapshotAssumption, Zenon
  <2>2. MinRows \in Nat \ {0, 1}
    BY SnapshotAssumption, Zenon
  <2>. QED  BY <2>1, <2>2
<1>2. days # {} /\ days \subseteq Int
  BY <1>1, FS_EmptySet
<1>3. ASSUME NEW e \in days
      PROVE  IsDays({d \in days : d <= e})
  <2>. DEFINE left == {d \in days : d <= e}
  <2>1. left \subseteq days /\ e \in left
    BY <1>2
  <2>. HIDE DEF left
  <2>2. IsFiniteSet(left) /\ left \subseteq Int /\ left # {}
    BY <1>1, <1>2, <2>1, FS_Subset
  <2>. QED  BY <2>2 DEF IsDays, left
<1>. QED  BY <1>1, <1>2, <1>3 DEF IsDays

(* What is on disk of earlier snapshots is not touched by a step that      *)
(* leaves the files and the factors alone.                                 *)
LEMMA FilesStayGood ==
    ASSUME DInv, UNCHANGED <<place, factors, manifests, smoke>>
    PROVE  ManifestsReach' /\ RecordsAreHonest'
BY DEF DInv, ManifestsReach, Whole, RecordsAreHonest, OfOneVendor, OfItsMarket, FactorsFit, FirstDay, IsDays

(* A step of a fetch: no panel is loaded then.                             *)
LEMMA FetchStepsStayGood ==
    ASSUME DInv, UNCHANGED <<place, factors, manifests, smoke>>,
           UNCHANGED runs \/ runs' = [runs EXCEPT !["fetch"] = @ + 1],
           run'.pc \notin Writing
    PROVE  PanelsAreGood' /\ ManifestsReach' /\ RecordsAreHonest' /\ Started'
<1>1. ManifestsReach' /\ RecordsAreHonest'
  BY FilesStayGood
<1>2. PanelsAreGood'
  BY DEF PanelsAreGood
<1>3. Started'
  BY DEF DInv, Started
<1>. QED  BY <1>1, <1>2, <1>3

(* A step of a fetch that leaves the bars alone.                           *)
LEMMA BarsStayGood ==
    ASSUME DInv, UNCHANGED <<data, source>>
    PROVE  BarsAreGood' /\ (UNCHANGED ok => ReportIsTrue')
BY DEF DInv, BarsAreGood, ReportIsTrue, IsDays

LEMMA StartFetchKeepsDays ==
    ASSUME DInv, StartFetch
    PROVE  DInv'
<1>1. /\ UNCHANGED <<place, factors, manifests, smoke>> /\ ok' = None
      /\ run' = [pc |-> "fetch", vendor |-> 1, next |-> 1, written |-> {}]
      /\ runs' = [runs EXCEPT !["fetch"] = @ + 1]
  BY DEF StartFetch, files
<1>2. PanelsAreGood' /\ ManifestsReach' /\ RecordsAreHonest' /\ Started'
  BY <1>1, FetchStepsStayGood DEF Writing
<1>3. BarsAreGood'
  <2>1. CASE UNCHANGED <<data, source>>
    BY <2>1, BarsStayGood
  <2>2. CASE data' = [s \in Symbols |-> None] /\ source' = [s \in Symbols |-> None]
    BY <2>2 DEF BarsAreGood
  <2>. QED  BY <2>1, <2>2 DEF StartFetch
<1>4. OneFetch' /\ ReportIsTrue'
  BY <1>1 DEF OneFetch, ReportIsTrue
<1>. QED  BY <1>2, <1>3, <1>4 DEF DInv

(* The symbol a fetch is at is one of those asked for.                     *)
LEMMA AskedIsSymbol ==
    ASSUME DInv, Fetching
    PROVE  Asked[run.next] \in Symbols
<1>1. run.next \in Nat \ {0} /\ run.next <= Len(Asked)
  BY DEF DInv, OneFetch, Fetching
<1>2. Asked \in Seq(DOMAIN MarketOf)
  BY SnapshotAssumption, Zenon
<1>. QED  BY <1>1, <1>2 DEF Symbols, ToSet

LEMMA WriteBarsKeepsDays ==
    ASSUME DInv, WriteBars
    PROVE  DInv'
<1>. DEFINE s == Asked[run.next]
<1>1. s \in Symbols /\ Fetching
  BY AskedIsSymbol DEF WriteBars
<1>2. PICK days \in Shapes[s] :
        /\ Cardinality(days) >= MinRows
        /\ data' = [data EXCEPT ![s] = [days |-> days, by |-> Vendor]]
        /\ source' = [source EXCEPT ![s] = Vendor]
  BY DEF WriteBars
<1>3. /\ UNCHANGED <<place, factors, manifests, smoke, runs, ok>>
      /\ run' = [run EXCEPT !.next = @ + 1, !.written = @ \cup {s}]
  BY DEF WriteBars, files
<1>0. DOMAIN run = {"pc", "vendor", "next", "written"} /\ run.pc = "fetch"
  BY <1>1 DEF DInv, OneFetch, Fetching
<1>4. /\ run.next \in Nat \ {0} /\ run.written \subseteq Symbols
      /\ ok = None
      /\ \A t \in run.written : data[t].by = Vendor /\ source[t] = Vendor
  BY <1>1 DEF DInv, OneFetch, Fetching, Vendor
<1>. HIDE DEF s
<1>5. /\ DOMAIN run' = DOMAIN run /\ run'.pc = "fetch" /\ run'.vendor = run.vendor
      /\ run'.next = run.next + 1 /\ run'.written = run.written \cup {s}
  BY <1>0, <1>3
<1>6. IsDays(days)
  BY <1>1, <1>2, ShapesAreDays
<1>7. DOMAIN data = Symbols /\ DOMAIN source = Symbols
  BY DEF DInv, BarsAreGood
<1>8. \A t \in Symbols :
        /\ data'[t] = IF t = s THEN [days |-> days, by |-> Vendor] ELSE data[t]
        /\ source'[t] = IF t = s THEN Vendor ELSE source[t]
  BY <1>2, <1>7
<1>9. BarsAreGood'
  <2>1. \A t \in Symbols : data[t] \notin {None, Torn} => IsDays(data[t].days)
    BY DEF DInv, BarsAreGood
  <2>2. \A t \in Symbols : data'[t] \notin {None, Torn} => IsDays((data'[t]).days)
    BY <1>6, <1>8, <2>1
  <2>3. /\ DOMAIN data' = Symbols /\ data' = [t \in Symbols |-> data'[t]]
        /\ DOMAIN source' = Symbols /\ source' = [t \in Symbols |-> source'[t]]
    BY <1>2, <1>7
  <2>. QED  BY <2>2, <2>3 DEF BarsAreGood, IsDays
<1>10. OneFetch'
  <2>1. run'.next \in Nat \ {0} /\ run'.written \subseteq Symbols /\ ok' = None
    BY <1>1, <1>3, <1>4, <1>5
  <2>2. \A t \in run'.written : (data'[t]).by = Vendor /\ source'[t] = Vendor
    BY <1>1, <1>4, <1>5, <1>8
  <2>. QED  BY <1>0, <1>5, <2>1, <2>2 DEF OneFetch, Vendor
<1>11. ReportIsTrue'
  BY <1>3, <1>4 DEF ReportIsTrue
<1>12. run'.pc \notin Writing
  BY <1>5 DEF Writing
<1>. QED
  BY <1>3, <1>9, <1>10, <1>11, <1>12, FetchStepsStayGood DEF DInv

LEMMA SymbolFailsKeepsDays ==
    ASSUME DInv, SymbolFails
    PROVE  DInv'
<1>1. /\ UNCHANGED <<place, factors, manifests, smoke, runs, ok>> /\ UNCHANGED <<data, source>>
      /\ run' = [run EXCEPT !.next = @ + 1]
  BY DEF SymbolFails, files
<1>2. /\ DOMAIN run = {"pc", "vendor", "next", "written"} /\ run.pc = "fetch"
      /\ run.next \in Nat \ {0} /\ run.written \subseteq Symbols
      /\ ok = None
      /\ \A t \in run.written : data[t].by = Vendors[run.vendor] /\ source[t] = Vendors[run.vendor]
  BY DEF DInv, OneFetch, SymbolFails, Fetching
<1>3. /\ DOMAIN run' = DOMAIN run /\ run'.pc = "fetch" /\ run'.vendor = run.vendor
      /\ run'.next = run.next + 1 /\ run'.written = run.written
  BY <1>1, <1>2
<1>4. OneFetch' /\ run'.pc \notin Writing
  BY <1>1, <1>2, <1>3 DEF OneFetch, Writing
<1>. QED
  BY <1>1, <1>4, BarsStayGood, FetchStepsStayGood DEF DInv

(* A report is made of the symbols one vendor wrote, all of them.          *)
LEMMA VendorDoneKeepsDays ==
    ASSUME DInv, VendorDone
    PROVE  DInv'
<1>1. UNCHANGED <<place, factors, manifests, smoke, runs>> /\ UNCHANGED <<data, source>>
  BY DEF VendorDone, files
<1>2. /\ DOMAIN run = {"pc", "vendor", "next", "written"} /\ run.pc = "fetch"
      /\ ok = None
      /\ \A t \in run.written : data[t].by = Vendor /\ source[t] = Vendor
  BY DEF DInv, OneFetch, VendorDone, Vendor
<1>3. BarsAreGood'
  BY <1>1, BarsStayGood
<1>4. CASE run.written = Symbols
  <2>1. ok' = Vendor /\ run' = Idle
    BY <1>4 DEF VendorDone
  <2>2. OneFetch' /\ run'.pc \notin Writing
    BY <2>1 DEF OneFetch, Idle, Writing
  <2>3. ReportIsTrue'
    BY <1>1, <1>2, <1>4, <2>1 DEF ReportIsTrue
  <2>. QED  BY <1>1, <1>3, <2>2, <2>3, FetchStepsStayGood DEF DInv
<1>5. CASE run.written # Symbols
  <2>1. ok' = ok /\ run' \in {Idle, [run EXCEPT !.vendor = @ + 1, !.next = 1, !.written = {}]}
    BY <1>5 DEF VendorDone
  <2>2. ReportIsTrue'
    BY <1>1, <2>1, BarsStayGood
  <2>3. OneFetch' /\ run'.pc \notin Writing
    <3>1. CASE run' = Idle
      BY <3>1 DEF OneFetch, Idle, Writing
    <3>2. CASE run' = [run EXCEPT !.vendor = @ + 1, !.next = 1, !.written = {}]
      <4>1. /\ DOMAIN run' = DOMAIN run /\ run'.pc = "fetch"
            /\ run'.next = 1 /\ run'.written = {}
        BY <1>2, <3>2
      <4>. QED  BY <1>2, <2>1, <4>1 DEF OneFetch, Writing
    <3>. QED  BY <2>1, <3>1, <3>2
  <2>. QED  BY <1>1, <1>3, <2>2, <2>3, FetchStepsStayGood DEF DInv
<1>. QED  BY <1>4, <1>5

LEMMA FetchDiesKeepsDays ==
    ASSUME DInv, FetchDies
    PROVE  DInv'
<1>. DEFINE s == Asked[run.next]
<1>1. /\ UNCHANGED <<place, factors, manifests, smoke, runs>> /\ UNCHANGED source
      /\ run' = Idle /\ ok' = ok /\ Fetching
  BY DEF FetchDies, files
<1>2. OneFetch' /\ run'.pc \notin Writing
  BY <1>1 DEF OneFetch, Idle, Writing
<1>3. ok = None
  BY <1>1 DEF DInv, OneFetch, Fetching
<1>4. ReportIsTrue'
  BY <1>1, <1>3 DEF ReportIsTrue
<1>5. BarsAreGood'
  <2>1. CASE UNCHANGED data
    BY <1>1, <2>1, BarsStayGood
  <2>2. ASSUME NEW left, left = Torn \/ IsDays(left.days), data' = [data EXCEPT ![s] = left]
        PROVE  BarsAreGood'
    <3>1. /\ DOMAIN data = Symbols /\ DOMAIN source = Symbols
          /\ source = [t \in Symbols |-> source[t]]
          /\ \A t \in Symbols : data[t] \notin {None, Torn} => IsDays(data[t].days)
      BY DEF DInv, BarsAreGood
    <3>. HIDE DEF s
    <3>2. \A t \in Symbols : data'[t] = IF t = s THEN left ELSE data[t]
      BY <2>2, <3>1
    <3>3. \A t \in Symbols : data'[t] \notin {None, Torn} => IsDays((data'[t]).days)
      BY <2>2, <3>1, <3>2
    <3>4. DOMAIN data' = Symbols /\ data' = [t \in Symbols |-> data'[t]]
      BY <2>2, <3>1
    <3>. QED  BY <1>1, <3>1, <3>3, <3>4 DEF BarsAreGood, IsDays
  <2>3. ASSUME ~UNCHANGED data
        PROVE  \E left : (left = Torn \/ IsDays(left.days)) /\ data' = [data EXCEPT ![s] = left]
    <3>1. PICK days \in Shapes[s] :
            /\ Cardinality(days) >= MinRows
            /\ \E left \in {Torn} \cup {[days |-> {d \in days : d <= e}, by |-> Vendor] : e \in days} :
                  data' = [data EXCEPT ![s] = left]
      BY <2>3 DEF FetchDies
    <3>2. PICK left \in {Torn} \cup {[days |-> {d \in days : d <= e}, by |-> Vendor] : e \in days} :
            data' = [data EXCEPT ![s] = left]
      BY <3>1
    <3>3. \A e \in days : IsDays({d \in days : d <= e})
      BY <1>1, <3>1, AskedIsSymbol, ShapesAreDays
    <3>4. CASE left = Torn
      BY <3>2, <3>4
    <3>5. CASE left # Torn
      <4>1. PICK e \in days : left = [days |-> {d \in days : d <= e}, by |-> Vendor]
        BY <3>2, <3>5
      <4>2. left.days = {d \in days : d <= e}
        BY <4>1
      <4>3. IsDays(left.days)
        BY <3>3, <4>2
      <4>. QED  BY <3>2, <4>3
    <3>. QED  BY <3>4, <3>5
  <2>. QED  BY <2>1, <2>2, <2>3
<1>. QED
  BY <1>1, <1>2, <1>4, <1>5, FetchStepsStayGood DEF DInv

-----------------------------------------------------------------------------
(* The snapshot                                                            *)

Reaches(claim) ==
    claim.window # None =>
      /\ claim.window \in Int
      /\ \A s \in DOMAIN claim.digests : /\ IsDays(claim.digests[s].days)
                                         /\ FirstDay(claim.digests[s]) <= claim.window

LEMMA PutReaches ==
    ASSUME ManifestsReach, NEW id, NEW m, m = Torn \/ Reaches(m),
           manifests' = With(manifests, id, m)
    PROVE  ManifestsReach'
<1>1. DOMAIN manifests' = {id} \cup DOMAIN manifests
  BY DEF With
<1>2. \A x \in DOMAIN manifests' : manifests'[x] = IF x = id THEN m ELSE manifests[x]
  BY <1>1 DEF With
<1>3. \A x \in DOMAIN manifests : manifests[x] = Torn \/ Reaches(manifests[x])
  BY DEF ManifestsReach, Whole, Reaches
<1>4. \A x \in DOMAIN manifests' : manifests'[x] = Torn \/ Reaches(manifests'[x])
  BY <1>1, <1>2, <1>3
<1>. QED  BY <1>4 DEF ManifestsReach, Whole, Reaches, IsDays, FirstDay

(* A step of a snapshot after its panels are loaded, but for its records.  *)
LEMMA WritingStaysGood ==
    ASSUME DInv, UNCHANGED <<place, data, source, factors, ok, runs>>, run.pc \in Writing,
           run' = Idle \/ (run'.pc \in Writing /\ run'.panels = run.panels)
    PROVE  /\ BarsAreGood' /\ OneFetch' /\ ReportIsTrue' /\ PanelsAreGood' /\ Started'
           /\ UNCHANGED smoke => RecordsAreHonest'
<1>1. BarsAreGood' /\ ReportIsTrue'
  BY BarsStayGood
<1>2. OneFetch'
  BY DEF OneFetch, Idle, Writing
<1>3. Started'
  BY DEF DInv, Started
<1>4. UNCHANGED smoke => RecordsAreHonest'
  BY DEF DInv, RecordsAreHonest, OfOneVendor, OfItsMarket, FactorsFit
<1>5. PanelsAreGood'
  <2>1. CASE run' = Idle
    BY <2>1 DEF PanelsAreGood, Idle, Writing
  <2>2. CASE run'.pc \in Writing /\ run'.panels = run.panels
    <3>1. /\ \A code \in DOMAIN run.panels : PanelIsGood(run.panels[code], data, code)
          /\ place = "runner" => ok # None
      BY DEF DInv, PanelsAreGood
    <3>2. \A code \in DOMAIN run'.panels : PanelIsGood((run'.panels)[code], data', code)
      BY <2>2, <3>1
    <3>. QED  BY <3>1, <3>2 DEF PanelsAreGood, PanelIsGood, IsDays, FirstDay
  <2>. QED  BY <2>1, <2>2
<1>. QED  BY <1>1, <1>2, <1>3, <1>4, <1>5

(* The panel a snapshot is at is one it loaded.                            *)
LEMMA NextPanelIsGood ==
    ASSUME IInv, DInv, run.pc \in Writing
    PROVE  LET code == CHOOSE c \in run.todo : TRUE
           IN  PanelIsGood(run.panels[code], data, code)
<1>1. run.todo # {} /\ run.todo \subseteq DOMAIN run.panels
  BY DEF IInv, PanelsFollow
<1>2. (CHOOSE c \in run.todo : TRUE) \in run.todo
  BY <1>1
<1>. QED  BY <1>1, <1>2 DEF DInv, PanelsAreGood

LEMMA GoodPanelReaches ==
    ASSUME NEW p, NEW code, PanelIsGood(p, data, code)
    PROVE  Reaches(p.claim)
BY DEF PanelIsGood, Reaches

(* [run EXCEPT !.pc = pc] has the panels of run.                           *)
LEMMA SamePanels ==
    ASSUME IInv, run.pc \in Writing, NEW pc \in Writing,
           run' = [run EXCEPT !.pc = pc]
             \/ (\E code : run' = [run EXCEPT !.pc = pc, !.todo = @ \ {code}])
    PROVE  run'.pc \in Writing /\ run'.panels = run.panels
<1>1. run = [pc |-> run.pc, panels |-> run.panels, todo |-> run.todo]
  BY DEF IInv, PanelsFollow
<1>2. DOMAIN run = {"pc", "panels", "todo"}
  BY <1>1
<1>. QED  BY <1>2

LEMMA StartSnapshotKeepsDays ==
    ASSUME DInv, StartSnapshot
    PROVE  DInv'
<1>1. /\ UNCHANGED <<place, factors, manifests, smoke>> /\ UNCHANGED <<data, source>>
      /\ UNCHANGED ok
      /\ runs' = [runs EXCEPT !["snapshot"] = @ + 1]
      /\ place = "runner" => ok # None
  BY DEF StartSnapshot, files
<1>2. ManifestsReach' /\ RecordsAreHonest'
  BY <1>1, FilesStayGood
<1>3. BarsAreGood' /\ ReportIsTrue'
  BY <1>1, BarsStayGood
<1>4. Started'
  <2>1. runs["snapshot"] \in Nat /\ runs \in [{"fetch", "snapshot", "submit"} -> Nat]
    BY DEF DInv, Started
  <2>2. /\ runs' \in [{"fetch", "snapshot", "submit"} -> Nat]
        /\ runs'["snapshot"] = runs["snapshot"] + 1
    BY <1>1, <2>1
  <2>3. runs'["snapshot"] # 0
    BY <2>1, <2>2
  <2>. QED  BY <2>2, <2>3 DEF Started
<1>5. PICK years \in Years :
        LET panels == [code \in Markets |-> PanelOf(code, years)]
        IN  run' = Idle \/ Loaded(panels)
  BY SnapshotLoads
<1>. DEFINE panels == [code \in Markets |-> PanelOf(code, years)]
<1>6. CASE run' = Idle
  <2>1. OneFetch' /\ PanelsAreGood'
    BY <1>6 DEF OneFetch, PanelsAreGood, Idle, Writing
  <2>. QED  BY <1>2, <1>3, <1>4, <2>1 DEF DInv
<1>7. CASE Loaded(panels)
  <2>1. run' = [pc |-> IF Cardinality(Markets) > 1 THEN "index" ELSE "manifest",
                panels |-> panels, todo |-> Markets]
    BY <1>7 DEF Loaded
  <2>2. \A code \in Markets : PanelIsGood(panels[code], data, code)
    <3>1. BarsAreGood
      BY DEF DInv
    <3>2. ASSUME NEW code \in Markets
          PROVE  PanelIsGood(panels[code], data, code)
      <4>1. panels[code] = PanelOf(code, years) /\ PanelOf(code, years) # None
        BY <1>7 DEF Loaded
      <4>. QED  BY <3>1, <4>1, PanelOfMarket
    <3>. QED  BY <3>2
  <2>3. run'.panels = panels /\ run'.pc \in Writing /\ DOMAIN panels = Markets
    BY <2>1 DEF Writing
  <2>. HIDE DEF panels
  <2>4. \A code \in DOMAIN run'.panels : PanelIsGood((run'.panels)[code], data', code)
    BY <1>1, <2>2, <2>3
  <2>5. PanelsAreGood'
    BY <1>1, <2>4 DEF PanelsAreGood, PanelIsGood, IsDays, FirstDay
  <2>6. OneFetch'
    BY <2>3 DEF OneFetch, Writing
  <2>. QED  BY <1>2, <1>3, <1>4, <2>5, <2>6 DEF DInv
<1>. QED  BY <1>5, <1>6, <1>7

LEMMA WriteIndexKeepsDays ==
    ASSUME IInv, DInv, WriteIndex
    PROVE  DInv'
<1>1. /\ UNCHANGED <<place, data, source, factors, ok, runs>> /\ UNCHANGED <<manifests, smoke>>
      /\ run.pc \in Writing
      /\ run' = Idle \/ run' = [run EXCEPT !.pc = "manifest"]
  BY DEF WriteIndex, Writing
<1>2. run' = Idle \/ (run'.pc \in Writing /\ run'.panels = run.panels)
  BY <1>1, SamePanels DEF Writing
<1>3. ManifestsReach'
  BY <1>1, FilesStayGood
<1>. QED  BY <1>1, <1>2, <1>3, WritingStaysGood DEF DInv

LEMMA WriteManifestKeepsDays ==
    ASSUME IInv, DInv, WriteManifest
    PROVE  DInv'
<1>. DEFINE p == run.panels[CHOOSE c \in run.todo : TRUE]
<1>1. /\ UNCHANGED <<place, data, source, factors, ok, runs>> /\ UNCHANGED smoke
      /\ run.pc \in Writing
      /\ \/ run' = Idle /\ UNCHANGED manifests
         \/ run' = [run EXCEPT !.pc = "smoke"] /\ manifests' = With(manifests, p.id, p.claim)
  BY DEF WriteManifest, Writing, Put
<1>2. run' = Idle \/ (run'.pc \in Writing /\ run'.panels = run.panels)
  BY <1>1, SamePanels DEF Writing
<1>3. Reaches(p.claim)
  BY <1>1, NextPanelIsGood, GoodPanelReaches
<1>4. ManifestsReach'
  <2>1. CASE UNCHANGED manifests
    BY <1>1, <2>1, FilesStayGood
  <2>2. CASE manifests' = With(manifests, p.id, p.claim)
    BY <1>3, <2>2, PutReaches DEF DInv
  <2>. QED  BY <1>1, <2>1, <2>2
<1>. QED  BY <1>1, <1>2, <1>4, WritingStaysGood DEF DInv

(* The record of a run over a panel: its vendors are those on disk, and    *)
(* on the runner that is the one the fetch reported.                       *)
LEMMA WriteSmokeKeepsDays ==
    ASSUME IInv, DInv, WriteSmoke
    PROVE  DInv'
<1>. DEFINE code == CHOOSE c \in run.todo : TRUE
            p == run.panels[code]
            record == [dates |-> p.claim.dates, matrix |-> FactorMatrix(p.claim.dates, code),
                       sources |-> {source[s] : s \in DOMAIN p.claim.digests} \ {None},
                       reported |-> ok]
<1>1. /\ UNCHANGED <<place, data, source, factors, ok, runs>> /\ UNCHANGED manifests
      /\ run.pc \in Writing /\ run.pc = "smoke"
      /\ smoke' = With(smoke, p.id, record)
      /\ run' = IF run.todo = {code} THEN Idle
                ELSE [run EXCEPT !.pc = "manifest", !.todo = @ \ {code}]
  BY DEF WriteSmoke, Writing
<1>2. run' = Idle \/ (run'.pc \in Writing /\ run'.panels = run.panels)
  BY <1>1, SamePanels DEF Writing
<1>3. ManifestsReach'
  BY <1>1 DEF DInv, ManifestsReach, Whole, IsDays, FirstDay
<1>4. PanelIsGood(p, data, code)
  BY <1>1, NextPanelIsGood
<1>5. FactorsFit(record.dates, record.matrix, factors) /\ OfItsMarket(p.id, record)
  <2>1. /\ FactorsFit(record.dates, record.matrix, factors)
        /\ record.matrix.rows # None => code = FRENCH_MARKET
    BY <1>4, MatrixFits DEF PanelIsGood
  <2>. QED  BY <1>4, <2>1 DEF PanelIsGood, OfItsMarket
<1>6. ASSUME place = "runner"
      PROVE  OfOneVendor(p.id, record)
  <2>1. ok # None /\ \A s \in Symbols : data[s].by = ok /\ source[s] = ok
    BY <1>1, <1>6 DEF DInv, PanelsAreGood, ReportIsTrue
  <2>2. /\ DOMAIN p.claim.digests # {} /\ DOMAIN p.claim.digests \subseteq Symbols
        /\ p.id.digests = p.claim.digests
        /\ \A s \in DOMAIN p.claim.digests : p.claim.digests[s] = data[s]
    BY <1>4 DEF PanelIsGood
  <2>3. record.sources = {ok}
    BY <2>1, <2>2
  <2>. QED  BY <2>1, <2>2, <2>3 DEF OfOneVendor
<1>7. RecordsAreHonest'
  <2>. HIDE DEF record, p
  <2>1. DOMAIN smoke' = DOMAIN smoke \cup {p.id}
    BY <1>1 DEF With
  <2>2. \A id \in DOMAIN smoke' : smoke'[id] = IF id = p.id THEN record ELSE smoke[id]
    BY <1>1, <2>1 DEF With
  <2>3. \A id \in DOMAIN smoke :
          /\ place = "runner" => OfOneVendor(id, smoke[id])
          /\ OfItsMarket(id, smoke[id])
          /\ FactorsFit(smoke[id].dates, smoke[id].matrix, factors)
    BY DEF DInv, RecordsAreHonest
  <2>4. \A id \in DOMAIN smoke' :
          /\ place = "runner" => OfOneVendor(id, smoke'[id])
          /\ OfItsMarket(id, smoke'[id])
          /\ FactorsFit((smoke'[id]).dates, (smoke'[id]).matrix, factors)
    BY <1>5, <1>6, <2>1, <2>2, <2>3
  <2>. QED  BY <1>1, <2>4 DEF RecordsAreHonest, OfOneVendor, OfItsMarket, FactorsFit
<1>8. BarsAreGood' /\ OneFetch' /\ ReportIsTrue' /\ PanelsAreGood'
  BY <1>1, <1>2, WritingStaysGood
<1>9. Started'
  BY <1>1 DEF DInv, Started
<1>. QED  BY <1>3, <1>7, <1>8, <1>9 DEF DInv

LEMMA SnapshotDiesKeepsDays ==
    ASSUME IInv, DInv, SnapshotDies
    PROVE  DInv'
<1>. DEFINE p == run.panels[CHOOSE c \in run.todo : TRUE]
<1>1. /\ UNCHANGED <<place, data, source, factors, ok, runs>> /\ UNCHANGED smoke
      /\ run.pc \in Writing /\ run' = Idle
      /\ UNCHANGED manifests \/ manifests' = With(manifests, p.id, Torn)
  BY DEF SnapshotDies, Writing
<1>2. ManifestsReach'
  <2>1. CASE UNCHANGED manifests
    BY <1>1, <2>1, FilesStayGood
  <2>2. CASE manifests' = With(manifests, p.id, Torn)
    BY <2>2, PutReaches DEF DInv
  <2>. QED  BY <1>1, <2>1, <2>2
<1>. QED  BY <1>1, <1>2, WritingStaysGood DEF DInv

(* A submission's manifest has no window.                                  *)
LEMMA SubmitKeepsDays ==
    ASSUME DInv, Submit
    PROVE  DInv'
<1>1. /\ UNCHANGED <<place, data, source, factors, ok>> /\ UNCHANGED <<smoke, run>>
      /\ runs' = [runs EXCEPT !["submit"] = @ + 1] /\ run = Idle
  BY DEF Submit
<1>2. PICK u \in Universes :
        LET p == LoadPanel([s \in u |-> data[s]], None)
        IN  /\ p # None
            /\ IF Accepts(p) THEN Put(p) /\ UNCHANGED refused
               ELSE Refuse(p) /\ UNCHANGED manifests
  BY DEF Submit
<1>. DEFINE p == LoadPanel([s \in u |-> data[s]], None)
<1>3. p.claim.window = None
  BY <1>2 DEF LoadPanel, ClaimOf
<1>4. ManifestsReach'
  <2>1. Reaches(p.claim)
    BY <1>3 DEF Reaches
  <2>2. CASE Put(p)
    BY <2>1, <2>2, PutReaches DEF Put, DInv
  <2>3. CASE UNCHANGED manifests
    BY <1>1, <2>3, FilesStayGood
  <2>. QED  BY <1>2, <2>2, <2>3
<1>5. RecordsAreHonest'
  BY <1>1 DEF DInv, RecordsAreHonest, OfOneVendor, OfItsMarket, FactorsFit
<1>6. BarsAreGood' /\ ReportIsTrue'
  BY <1>1, BarsStayGood
<1>7. OneFetch' /\ PanelsAreGood'
  BY <1>1 DEF OneFetch, PanelsAreGood, Idle, Writing
<1>8. Started'
  BY <1>1 DEF DInv, Started
<1>. QED  BY <1>4, <1>5, <1>6, <1>7, <1>8 DEF DInv

(* The factors are fetched before any snapshot is.                         *)
LEMMA FetchFactorsKeepsDays ==
    ASSUME DInv, FetchFactors
    PROVE  DInv'
<1>1. /\ UNCHANGED <<place, data, source, ok, manifests, smoke, run, runs>>
      /\ run = Idle /\ runs["snapshot"] = 0
  BY DEF FetchFactors, files
<1>2. DOMAIN smoke = {}
  BY <1>1 DEF DInv, Started
<1>3. RecordsAreHonest'
  BY <1>1, <1>2 DEF RecordsAreHonest
<1>4. ManifestsReach'
  BY <1>1 DEF DInv, ManifestsReach, Whole, IsDays, FirstDay
<1>5. BarsAreGood' /\ ReportIsTrue'
  BY <1>1, BarsStayGood
<1>6. OneFetch' /\ PanelsAreGood' /\ Started'
  BY <1>1 DEF DInv, OneFetch, PanelsAreGood, Started, Idle, Writing
<1>. QED  BY <1>3, <1>4, <1>5, <1>6 DEF DInv

LEMMA QuietKeepsDays ==
    ASSUME DInv, UNCHANGED vars
    PROVE  DInv'
<1>1. /\ UNCHANGED <<place, data, source, ok, manifests, smoke, run, runs>> /\ UNCHANGED factors
  BY DEF vars, files
<1>2. ManifestsReach' /\ RecordsAreHonest'
  BY <1>1, FilesStayGood
<1>3. BarsAreGood' /\ ReportIsTrue'
  BY <1>1, BarsStayGood
<1>4. OneFetch' /\ PanelsAreGood' /\ Started'
  BY <1>1 DEF DInv, OneFetch, PanelsAreGood, Started, PanelIsGood, IsDays, FirstDay
<1>. QED  BY <1>2, <1>3, <1>4 DEF DInv

LEMMA StepKeepsDays ==
    ASSUME IInv, DInv, [Next]_vars
    PROVE  DInv'
BY StartFetchKeepsDays, WriteBarsKeepsDays, SymbolFailsKeepsDays, VendorDoneKeepsDays,
   FetchDiesKeepsDays, FetchFactorsKeepsDays, StartSnapshotKeepsDays, WriteIndexKeepsDays,
   WriteManifestKeepsDays, WriteSmokeKeepsDays, SnapshotDiesKeepsDays, SubmitKeepsDays,
   QuietKeepsDays DEF Next

LEMMA DaysAreKept == Spec => [](IInv /\ DInv)
<1>1. Init => IInv /\ DInv
  BY InitHolds, InitIsGood
<1>2. IInv /\ DInv /\ [Next]_vars => IInv' /\ DInv'
  BY StepKeeps, StepKeepsDays
<1>. QED  BY <1>1, <1>2, PTL DEF Spec

(* For any symbols, vendors, bars and number of runs: on the runner, every *)
(* file of a panel a verdict was computed over came from the one vendor    *)
(* the fetch reported, whatever vendors failed, and whenever a process     *)
(* died, before it (fetch_prices.py:230-262, data_snapshot.py).            *)
THEOREM PanelsAreOneVendors == Spec => []OnePanelOneVendor
<1>1. DInv => OnePanelOneVendor
  BY DEF DInv, RecordsAreHonest, OfOneVendor, OnePanelOneVendor
<1>. QED  BY <1>1, DaysAreKept, PTL

(* For any markets, histories and windows: a windowed manifest names only  *)
(* symbols whose first bar is no later than any bar the window shows of    *)
(* any of them (data_snapshot.py, the choice of symbols and window).       *)
THEOREM WindowsStartTogether == Spec => []NobodyStartsLate
<1>1. ASSUME DInv
      PROVE  NobodyStartsLate
  <2>1. SUFFICES ASSUME NEW id \in Whole, manifests[id].window # None,
                        NEW s \in DOMAIN manifests[id].digests,
                        NEW t \in DOMAIN manifests[id].digests,
                        NEW d \in manifests[id].digests[t].days, d >= manifests[id].window
                 PROVE  FirstDay(manifests[id].digests[s]) <= d
    BY DEF NobodyStartsLate
  <2>. DEFINE window == manifests[id].window
              first == FirstDay(manifests[id].digests[s])
  <2>2. /\ window \in Int /\ IsDays(manifests[id].digests[s].days) /\ first <= window
        /\ IsDays(manifests[id].digests[t].days)
    BY <1>1, <2>1 DEF DInv, ManifestsReach
  <2>3. first \in Int /\ d \in Int
    BY <2>2, FirstOfDays DEF IsDays, FirstDay
  <2>4. d >= window
    BY <2>1
  <2>. HIDE DEF window, first
  <2>5. first <= d
    BY <2>2, <2>3, <2>4
  <2>. QED  BY <2>5 DEF first
<1>. QED  BY <1>1, DaysAreKept, PTL

(* For any factor file and any panel: a verdict with factors regresses     *)
(* each of its bars on the row of the day the bar closed, leaves out no    *)
(* day the file has, and is of a book of the market the file describes     *)
(* (core/data/factors.py:36-39, scripts/data_snapshot.py:151-159).         *)
THEOREM BarsArePricedOnTheirDay == Spec => []FactorsPriceEveryBar
<1>1. DInv => FactorsPriceEveryBar
  BY DEF DInv, RecordsAreHonest, OfItsMarket, FactorsFit, FactorsPriceEveryBar
<1>. QED  BY <1>1, DaysAreKept, PTL
=============================================================================
