----------------------- MODULE PublishGeneratedProofs -----------------------
(***************************************************************************)
(* Theorems about PublishGenerated, for any jobs, files, steps and bounds. *)
(***************************************************************************)
EXTENDS PublishGenerated, FiniteSetTheorems, SequenceTheorems, TLAPS

(* Taking files of a path from another tree gives a tree.                  *)
LEMMA OverlayTree ==
  ASSUME NEW tree \in Tree, NEW other \in Tree, NEW path
  PROVE  Overlay(tree, other, path) \in Tree
BY DEF Overlay, Tree

(* The latest commit of a non-empty history carries a tree.                *)
LEMMA TopTree ==
  ASSUME NEW history \in Seq(Commit), Len(history) > 0
  PROVE  Top(history) \in Tree
<1>1. Len(history) \in 1 .. Len(history)
  OBVIOUS
<1>2. history[Len(history)] \in Commit
  BY <1>1
<1>. QED
  BY <1>2 DEF Top, Commit

(* A job's current step is one of its steps.                               *)
LEMMA CurrentStepType ==
  ASSUME TypeOK, NEW r \in Runs
  PROVE  CurrentStep(r) \in StepType
BY ConstantsAssumption DEF TypeOK, CurrentStep

(* Ending the script keeps the job's bookkeeping well typed.               *)
LEMMA AdvanceType ==
  ASSUME TypeOK, NEW r \in Runs, Advance(r)
  PROVE  /\ keep' \in [Runs -> Tree]
         /\ attempt' \in [Runs -> 1 .. Attempts]
         /\ began' \in [Runs -> Nat]
         /\ step' \in [Runs -> Nat]
         /\ \A q \in Runs : step'[q] \in 1 .. Len(Steps[q])
         /\ pc' \in [Runs -> Location]
<1>1. NoFiles \in Tree
  BY DEF NoFiles, Tree
<1>2. /\ keep' \in [Runs -> Tree]
      /\ attempt' \in [Runs -> 1 .. Attempts]
      /\ began' \in [Runs -> Nat]
  BY <1>1, ConstantsAssumption DEF TypeOK, Advance
<1>3. \A q \in Runs : Len(Steps[q]) \in Nat
  BY ConstantsAssumption
<1>4. /\ step \in [Runs -> Nat] /\ pc \in [Runs -> Location]
      /\ \A q \in Runs : step[q] \in 1 .. Len(Steps[q])
  BY DEF TypeOK
<1>5. CASE step[r] < Len(Steps[r])
  <2>1. step' = [step EXCEPT ![r] = @ + 1] /\ pc' = [pc EXCEPT ![r] = "generate"]
    BY <1>5 DEF Advance
  <2>2. pc' \in [Runs -> Location] /\ step' \in [Runs -> Nat]
    BY <1>4, <2>1 DEF Location
  <2>3. ASSUME NEW q \in Runs PROVE step'[q] \in 1 .. Len(Steps[q])
    <3>1. CASE q = r
      BY <1>3, <1>4, <1>5, <2>1, <3>1
    <3>2. CASE q # r
      BY <1>4, <2>1, <3>2
    <3>. QED
      BY <3>1, <3>2
  <2>. QED
    BY <1>2, <2>2, <2>3
<1>6. CASE ~(step[r] < Len(Steps[r]))
  <2>1. step' = step /\ pc' = [pc EXCEPT ![r] = "done"]
    BY <1>6 DEF Advance
  <2>2. pc' \in [Runs -> Location]
    BY <1>4, <2>1 DEF Location
  <2>. QED
    BY <1>2, <1>4, <2>1, <2>2
<1>. QED
  BY <1>5, <1>6

(* The type invariant holds at the start.                                  *)
LEMMA InitType == Init => TypeOK
<1>. SUFFICES ASSUME Init PROVE TypeOK
  OBVIOUS
<1>1. NoFiles \in Tree
  BY DEF NoFiles, Tree
<1>2. gen \in Tree
  BY DEF Init, Tree
<1>3. branch \in Seq(Commit) /\ Len(branch) > 0
  BY <1>2 DEF Init, Commit, Tree
<1>4. \A r \in Runs : Len(Steps[r]) \in Nat /\ Len(Steps[r]) > 0
  BY ConstantsAssumption
<1>5. step \in [Runs -> Nat] /\ \A r \in Runs : step[r] \in 1 .. Len(Steps[r])
  BY <1>4 DEF Init
<1>6. clone \in [Runs -> Seq(Commit)] /\ \A r \in Runs : Len(clone[r]) > 0
  BY <1>3 DEF Init
<1>7. /\ pc \in [Runs -> Location] /\ attempt \in [Runs -> 1 .. Attempts]
      /\ failed \in [Runs -> BOOLEAN] /\ began \in [Runs -> Nat]
      /\ merges \in 0 .. MaxMerges /\ faults \in 0 .. MaxFaults
  BY ConstantsAssumption DEF Init, Location
<1>8. /\ work \in [Runs -> Tree] /\ keep \in [Runs -> Tree]
      /\ made \in [Runs -> Tree]
  BY <1>1 DEF Init
<1>. QED
  BY <1>2, <1>3, <1>5, <1>6, <1>7, <1>8 DEF TypeOK

(* Each step preserves the type invariant.                                 *)
LEMMA NextType == TypeOK /\ [Next]_vars => TypeOK'
<1>. SUFFICES ASSUME TypeOK, [Next]_vars PROVE TypeOK'
  OBVIOUS
<1>1. Top(branch) \in Tree
  BY TopTree DEF TypeOK
<1>2. ASSUME NEW r \in Runs PROVE HeadTree(r) \in Tree
  BY TopTree DEF TypeOK, HeadTree
<1>3. NoFiles \in Tree
  BY DEF NoFiles, Tree
<1>a. ASSUME NEW r \in Runs, Checkout(r) PROVE TypeOK'
  BY <1>1, <1>a DEF TypeOK, Checkout, Location
<1>b. ASSUME NEW r \in Runs, Generate(r) PROVE TypeOK'
  <2>. DEFINE contents == [f \in Files |-> NewContent(f)]
  <2>1. contents \in Tree
    BY DEF TypeOK, NewContent, Tree
  <2>2. PICK written \in SUBSET CurrentStep(r).writes, ok \in BOOLEAN :
          /\ work' = [work EXCEPT ![r] = Overlay(work[r], contents, written)]
          /\ made' = [made EXCEPT ![r] = Overlay(made[r], contents, written)]
          /\ gen' = Overlay(gen, contents, written)
          /\ failed' = [failed EXCEPT ![r] = ~ok /\ ~CurrentStep(r).tolerant]
    BY <1>b DEF Generate
  <2>3. /\ Overlay(work[r], contents, written) \in Tree
        /\ Overlay(made[r], contents, written) \in Tree
        /\ Overlay(gen, contents, written) \in Tree
    BY <2>1, OverlayTree DEF TypeOK
  <2>4. failed' \in [Runs -> BOOLEAN]
    BY <2>2 DEF TypeOK
  <2>5. /\ work' \in [Runs -> Tree] /\ made' \in [Runs -> Tree] /\ gen' \in Tree
    BY <2>2, <2>3 DEF TypeOK
  <2>. QED
    BY <1>b, <2>4, <2>5 DEF TypeOK, Generate, Location
<1>c. ASSUME NEW r \in Runs, SkipGenerate(r) PROVE TypeOK'
  BY <1>c DEF TypeOK, SkipGenerate, runner, Location
<1>d. ASSUME NEW r \in Runs, SkipScript(r) \/ NothingToPublish(r) PROVE TypeOK'
  <2>1. Advance(r) /\ UNCHANGED <<branch, clone, work, failed, gen, made, merges, faults>>
    BY <1>d DEF SkipScript, NothingToPublish
  <2>. QED
    BY <2>1, AdvanceType DEF TypeOK
<1>e. ASSUME NEW r \in Runs, KeepCopy(r) PROVE TypeOK'
  <2>1. Overlay(NoFiles, work[r], CurrentStep(r).path) \in Tree
    BY <1>3, OverlayTree DEF TypeOK
  <2>. QED
    BY <1>e, <2>1, ConstantsAssumption DEF TypeOK, KeepCopy, Location
<1>f. ASSUME NEW r \in Runs, CommitPath(r) PROVE TypeOK'
  <2>. DEFINE next == [tree |-> Overlay(HeadTree(r), work[r], CurrentStep(r).path),
                       by |-> r]
  <2>1. next \in Commit
    BY <1>2, OverlayTree DEF TypeOK, Commit
  <2>2. clone' = [clone EXCEPT ![r] = Append(@, next)] \/ clone' = clone
    BY <1>f DEF CommitPath
  <2>3. Append(clone[r], next) \in Seq(Commit) /\ Len(Append(clone[r], next)) > 0
    BY <2>1 DEF TypeOK
  <2>4. clone' \in [Runs -> Seq(Commit)] /\ \A q \in Runs : Len(clone'[q]) > 0
    BY <2>2, <2>3 DEF TypeOK
  <2>. QED
    BY <1>f, <2>4 DEF TypeOK, CommitPath, Location
<1>g. ASSUME NEW r \in Runs, Push(r) PROVE TypeOK'
  BY <1>g, AdvanceType DEF TypeOK, Push
<1>h. ASSUME NEW r \in Runs, PushRejected(r) PROVE TypeOK'
  BY <1>h DEF TypeOK, PushRejected, runner, Location
<1>i. ASSUME NEW r \in Runs, PushBreaks(r) PROVE TypeOK'
  BY <1>i, ConstantsAssumption DEF TypeOK, PushBreaks, FaultLeft, runner, Location
<1>j. ASSUME NEW r \in Runs, Rebuild(r) PROVE TypeOK'
  <2>1. ResetTree(r) \in Tree
    BY <1>1 DEF TypeOK, ResetTree, Tree
  <2>2. Unpack(ResetTree(r), keep[r]) \in Tree
    BY <2>1 DEF TypeOK, Unpack, Tree
  <2>3. /\ clone' \in [Runs -> Seq(Commit)] /\ \A q \in Runs : Len(clone'[q]) > 0
        /\ work' \in [Runs -> Tree]
    BY <1>j, <2>2 DEF TypeOK, Rebuild, RebuildUpTo
  <2>4. CASE attempt[r] < Attempts
    <3>1. /\ attempt' = [attempt EXCEPT ![r] = @ + 1]
          /\ pc' = [pc EXCEPT ![r] = "commit"]
          /\ UNCHANGED <<branch, keep, step, failed, began, gen, made, merges, faults>>
      BY <1>j, <2>4 DEF Rebuild, RebuildUpTo
    <3>2. attempt[r] + 1 \in 1 .. Attempts
      BY <2>4, ConstantsAssumption DEF TypeOK
    <3>3. attempt' \in [Runs -> 1 .. Attempts] /\ pc' \in [Runs -> Location]
      BY <3>1, <3>2 DEF TypeOK, Location
    <3>. QED
      BY <2>3, <3>1, <3>3 DEF TypeOK
  <2>5. CASE ~(attempt[r] < Attempts)
    <3>1. /\ Advance(r) /\ failed' = [failed EXCEPT ![r] = TRUE]
          /\ UNCHANGED <<branch, gen, made, merges, faults>>
      BY <1>j, <2>5 DEF Rebuild, RebuildUpTo
    <3>2. failed' \in [Runs -> BOOLEAN]
      BY <3>1 DEF TypeOK
    <3>. QED
      BY <2>3, <3>1, <3>2, AdvanceType DEF TypeOK
  <2>. QED
    BY <2>4, <2>5
<1>k. ASSUME NEW r \in Runs, FetchBreaks(r) PROVE TypeOK'
  <2>1. /\ Advance(r) /\ failed' = [failed EXCEPT ![r] = TRUE]
        /\ faults < MaxFaults /\ faults' = faults + 1
        /\ UNCHANGED <<branch, clone, work, gen, made, merges>>
    BY <1>k DEF FetchBreaks, FaultLeft
  <2>2. failed' \in [Runs -> BOOLEAN] /\ faults' \in 0 .. MaxFaults
    BY <2>1, ConstantsAssumption DEF TypeOK
  <2>. QED
    BY <2>1, <2>2, AdvanceType DEF TypeOK
<1>l. ASSUME NEW r \in Runs, RunnerDies(r) PROVE TypeOK'
  BY <1>l, ConstantsAssumption DEF TypeOK, RunnerDies, FaultLeft, runner, Location
<1>m. CASE Merge
  <2>1. [tree |-> Top(branch), by |-> Owner] \in Commit
    BY <1>1 DEF Commit
  <2>2. branch' \in Seq(Commit) /\ Len(branch') > 0
    BY <1>m, <2>1 DEF TypeOK, Merge
  <2>. QED
    BY <1>m, <2>2, ConstantsAssumption DEF TypeOK, Merge, runner
<1>n. CASE UNCHANGED vars
  BY <1>n DEF TypeOK, vars
<1>. QED
  BY <1>a, <1>b, <1>c, <1>d, <1>e, <1>f, <1>g, <1>h, <1>i, <1>j, <1>k, <1>l,
     <1>m, <1>n DEF Next, Work, Fault

(* Every reachable state is well typed, whatever the jobs are.             *)
THEOREM TypeCorrect == Spec => []TypeOK
BY InitType, NextType, PTL DEF Spec

-----------------------------------------------------------------------------

(* Fast-forwarding is reflexive and transitive.                            *)
LEMMA AncestorReflexive ==
  ASSUME NEW history \in Seq(Commit)
  PROVE  IsAncestor(history, history)
BY DEF IsAncestor

LEMMA AncestorTransitive ==
  ASSUME NEW a \in Seq(Commit), NEW b \in Seq(Commit), NEW c \in Seq(Commit),
         IsAncestor(a, b), IsAncestor(b, c)
  PROVE  IsAncestor(a, c)
<1>1. Len(a) \in Nat /\ Len(b) \in Nat /\ Len(c) \in Nat
  OBVIOUS
<1>2. \A i \in 1 .. Len(a) : i \in 1 .. Len(b) /\ a[i] = b[i] /\ b[i] = c[i]
  BY <1>1 DEF IsAncestor
<1>. QED
  BY <1>1, <1>2 DEF IsAncestor

(* Whatever the step, main is fast-forwarded or left alone.                *)
LEMMA BranchGrows ==
  ASSUME TypeOK, [Next]_vars
  PROVE  IsAncestor(branch, branch')
<1>1. CASE branch' = branch
  BY <1>1, AncestorReflexive DEF TypeOK
<1>2. CASE Merge
  <2>. DEFINE commit == [tree |-> Top(branch), by |-> Owner]
  <2>1. branch' = Append(branch, commit) /\ branch \in Seq(Commit)
    BY <1>2 DEF Merge, TypeOK
  <2>2. commit \in Commit
    BY TopTree DEF TypeOK, Commit
  <2>. HIDE DEF commit
  <2>3. /\ Len(branch') = Len(branch) + 1
        /\ \A i \in 1 .. Len(branch) : branch'[i] = branch[i]
    BY <2>1, <2>2
  <2>. QED
    BY <2>1, <2>3 DEF IsAncestor
<1>3. ASSUME NEW r \in Runs, Push(r) \/ PushBreaks(r)
      PROVE  IsAncestor(branch, branch')
  BY <1>1, <1>3 DEF Push, PushBreaks, Accepts
<1>4. \/ branch' = branch
      \/ Merge
      \/ \E r \in Runs : Push(r) \/ PushBreaks(r)
  BY DEF Next, Work, Fault, vars, Checkout, Generate, SkipGenerate, SkipScript,
         NothingToPublish, KeepCopy, CommitPath, PushRejected, Rebuild,
         RebuildUpTo, FetchBreaks, RunnerDies
<1>. QED
  BY <1>1, <1>2, <1>3, <1>4

(* No interleaving of jobs, retries and broken connections rewrites main.  *)
THEOREM HistoryIsNeverRewritten == Spec => HistoryOnlyGrows
<1>1. TypeOK /\ [Next]_vars => [IsAncestor(branch, branch')]_vars
  BY BranchGrows
<1>. QED
  BY <1>1, TypeCorrect, PTL DEF Spec, HistoryOnlyGrows

(* A step leaves every HEAD but the acting job's alone, and takes the      *)
(* acting job to the next script without failure only from a published     *)
(* HEAD.                                                                   *)
Between(r) == pc[r] \in {"generate", "script", "done"} /\ ~failed[r]

LEMMA HeadStaysPublished ==
  ASSUME TypeOK, HeadIsPublished, [Next]_vars, NEW r \in Runs, Between(r)'
  PROVE  \/ clone'[r] = clone[r] /\ Between(r)
         \/ clone'[r] = branch'
<1>. USE DEF Between
<1>1. CASE Merge \/ UNCHANGED vars
  BY <1>1 DEF Merge, runner, vars
<1>2. ASSUME NEW q \in Runs, q # r, Work(q) \/ Fault(q)
      PROVE  clone'[r] = clone[r] /\ Between(r)
  BY <1>2
  DEF TypeOK, Work, Fault, Checkout, Generate, SkipGenerate, SkipScript,
      NothingToPublish, KeepCopy, CommitPath, Push, PushRejected, PushBreaks,
      Rebuild, RebuildUpTo, FetchBreaks, RunnerDies, Advance, runner
<1>3. CASE Checkout(r) \/ Push(r)
  BY <1>3 DEF TypeOK, Checkout, Push
<1>4. CASE Generate(r) \/ SkipGenerate(r)
  BY <1>4 DEF TypeOK, Generate, SkipGenerate, runner
<1>5. CASE SkipScript(r) \/ NothingToPublish(r)
  BY <1>5 DEF TypeOK, SkipScript, NothingToPublish, Advance
<1>6. CASE KeepCopy(r) \/ CommitPath(r) \/ PushRejected(r) \/ PushBreaks(r)
           \/ RunnerDies(r)
  BY <1>6 DEF TypeOK, KeepCopy, CommitPath, PushRejected, PushBreaks, RunnerDies
<1>7. CASE Rebuild(r) \/ FetchBreaks(r)
  BY <1>7 DEF TypeOK, Rebuild, RebuildUpTo, FetchBreaks
<1>. QED
  BY <1>1, <1>2, <1>3, <1>4, <1>5, <1>6, <1>7 DEF Next, Work, Fault

(* The commit a pin names is on main.                                      *)
THEOREM PinnedHeadIsPublished == Spec => []HeadIsPublished
<1>1. Init => HeadIsPublished
  BY DEF Init, HeadIsPublished
<1>2. TypeOK /\ TypeOK' /\ HeadIsPublished /\ [Next]_vars => HeadIsPublished'
  <2>. SUFFICES ASSUME TypeOK, TypeOK', HeadIsPublished, [Next]_vars,
                       NEW r \in Runs, Between(r)'
                PROVE  IsAncestor(clone[r], branch)'
    BY DEF HeadIsPublished, Between
  <2>1. IsAncestor(branch, branch')
    BY BranchGrows
  <2>2. CASE clone'[r] = clone[r] /\ Between(r)
    <3>1. IsAncestor(clone[r], branch)
      BY <2>2 DEF HeadIsPublished, Between
    <3>2. IsAncestor(clone[r], branch')
      BY <2>1, <3>1, AncestorTransitive DEF TypeOK
    <3>. QED
      BY <2>2, <3>2 DEF IsAncestor
  <2>3. CASE clone'[r] = branch'
    BY <2>3, AncestorReflexive DEF TypeOK, IsAncestor
  <2>. QED
    BY <2>2, <2>3, HeadStaysPublished
<1>. QED
  BY <1>1, <1>2, TypeCorrect, PTL DEF Spec

-----------------------------------------------------------------------------
(* Nothing generated is lost on the way to main                            *)

(* Some commit of the history holds f in generation n.                     *)
HeldIn(history, f, n) ==
  \E i \in 1 .. Len(history) : history[i].tree[f] = n

(* What job r has written and its earlier scripts have not published.      *)
Written(r) ==
  IF pc[r] = "generate" THEN LeftBehind(r, step[r] - 1)
  ELSE LeftBehind(r, step[r] - 1) \cup CurrentStep(r).writes

InScript(r) == pc[r] \in {"commit", "push", "rebuild"}

(* Before its first step a job has made nothing.                           *)
Fresh(r) == pc[r] = "queued" => step[r] = 1 /\ made[r] = NoFiles

(* The archive holds files of the path alone.                              *)
OnlyThePath(r) ==
  InScript(r) => \A f \in Files : f \notin CurrentStep(r).path => keep[r][f] = 0

(* A sealed file is there or not; it has no second generation.             *)
SealedOnce(r) ==
  \A f \in Sealed : /\ HeadTree(r)[f] \in {0, 1} /\ work[r][f] \in {0, 1}
                    /\ made[r][f] \in {0, 1} /\ keep[r][f] \in {0, 1}

MainSealedOnce == \A f \in Sealed : Top(branch)[f] \in {0, 1}

Tidy(r) == Fresh(r) /\ OnlyThePath(r) /\ SealedOnce(r)

(* HEAD holds f in a generation main has held: any file, but for those of  *)
(* the path in a commit that has not been pushed.                          *)
HeadKnown(r, f) ==
  \/ pc[r] \in {"generate", "script", "commit"}
  \/ pc[r] \in {"push", "rebuild"} /\ f \notin CurrentStep(r).path
  => HeldIn(branch, f, HeadTree(r)[f])

(* The work tree is HEAD's, but for what was written and not committed     *)
(* and what was unpacked after a reset.                                    *)
Clean(r, f) ==
  \/ pc[r] \in {"generate", "script"} /\ f \notin Written(r)
  \/ pc[r] = "commit" /\ f \notin Written(r) /\ f \notin CurrentStep(r).path
  \/ pc[r] \in {"push", "rebuild"} /\ (f \notin Written(r) \/ f \in CurrentStep(r).path)
  => work[r][f] = HeadTree(r)[f]

(* What was made and main has not held yet is in the work tree, and in the *)
(* archive while its path is being published.                              *)
Kept(r, f) ==
  made[r][f] # 0 /\ ~HeldIn(branch, f, made[r][f])
    => /\ pc[r] # "done" /\ f \in Written(r) /\ work[r][f] = made[r][f]
       /\ InScript(r) /\ f \in CurrentStep(r).path => keep[r][f] = made[r][f]

Careful(r) ==
  ~failed[r] /\ pc[r] \notin {"queued", "dead"} =>
    \A f \in Files : HeadKnown(r, f) /\ Clean(r, f) /\ Kept(r, f)

(* What no step up to the last left, and what that step wrote, less its    *)
(* path, is what is left behind it.                                        *)
LEMMA LeftBehindStep ==
  ASSUME NEW r \in Runs, NEW i \in 1 .. Len(Steps[r])
  PROVE  LeftBehind(r, i) = {f \in LeftBehind(r, i - 1) \cup Steps[r][i].writes :
                               f \notin Steps[r][i].path}
<1>1. Len(Steps[r]) \in Nat /\ Steps[r][i] \in StepType /\ Steps[r][i].writes \subseteq Files
  <2>1. Steps[r] \in Seq(StepType)
    BY ConstantsAssumption
  <2>2. Len(Steps[r]) \in Nat /\ Steps[r][i] \in StepType
    BY <2>1
  <2>. QED
    BY <2>2 DEF StepType
<1>2. ASSUME NEW f \in Files
      PROVE  f \in LeftBehind(r, i)
               <=> (f \in LeftBehind(r, i - 1) \cup Steps[r][i].writes /\ f \notin Steps[r][i].path)
  <2>1. ASSUME f \in LeftBehind(r, i)
        PROVE  f \in LeftBehind(r, i - 1) \cup Steps[r][i].writes /\ f \notin Steps[r][i].path
    <3>1. PICK k \in 1 .. i :
            f \in Steps[r][k].writes /\ \A j \in k .. i : f \notin Steps[r][j].path
      BY <2>1 DEF LeftBehind
    <3>2. i \in k .. i
      BY <1>1
    <3>3. CASE k = i
      BY <3>1, <3>2, <3>3
    <3>4. CASE k # i
      <4>1. k \in 1 .. i - 1 /\ \A j \in k .. i - 1 : j \in k .. i
        BY <1>1, <3>4
      <4>2. f \in LeftBehind(r, i - 1)
        BY <3>1, <4>1 DEF LeftBehind
      <4>. QED
        BY <3>1, <3>2, <4>2
    <3>. QED
      BY <3>3, <3>4
  <2>2. ASSUME f \in Steps[r][i].writes, f \notin Steps[r][i].path
        PROVE  f \in LeftBehind(r, i)
    <3>1. i \in 1 .. i /\ \A j \in i .. i : j = i
      BY <1>1
    <3>. QED
      BY <2>2, <3>1 DEF LeftBehind
  <2>3. ASSUME f \in LeftBehind(r, i - 1), f \notin Steps[r][i].path
        PROVE  f \in LeftBehind(r, i)
    <3>1. PICK k \in 1 .. i - 1 :
            f \in Steps[r][k].writes /\ \A j \in k .. i - 1 : f \notin Steps[r][j].path
      BY <2>3 DEF LeftBehind
    <3>2. k \in 1 .. i /\ \A j \in k .. i : j \in k .. i - 1 \/ j = i
      BY <1>1
    <3>. QED
      BY <2>3, <3>1, <3>2 DEF LeftBehind
  <2>. QED
    BY <2>1, <2>2, <2>3
<1>3. LeftBehind(r, i) \subseteq Files /\ LeftBehind(r, i - 1) \subseteq Files
  BY DEF LeftBehind
<1>. QED
  BY <1>1, <1>2, <1>3

LEMMA NothingLeftAtFirst ==
  ASSUME NEW r \in Runs
  PROVE  LeftBehind(r, 0) = {}
BY DEF LeftBehind

(* What main has held it holds for good.                                   *)
LEMMA MainKeeps ==
  ASSUME TypeOK, TypeOK', IsAncestor(branch, branch'), NEW f, NEW n,
         HeldIn(branch, f, n)
  PROVE  HeldIn(branch', f, n)
<1>1. PICK i \in 1 .. Len(branch) : branch[i].tree[f] = n
  BY DEF HeldIn
<1>2. Len(branch) \in Nat /\ Len(branch') \in Nat
  BY DEF TypeOK
<1>3. i \in 1 .. Len(branch') /\ branch'[i] = branch[i]
  BY <1>2 DEF IsAncestor
<1>. QED
  BY <1>1, <1>3 DEF HeldIn

LEMMA TopIsHeld ==
  ASSUME NEW history \in Seq(Commit), Len(history) > 0, NEW f
  PROVE  HeldIn(history, f, Top(history)[f])
<1>1. Len(history) \in 1 .. Len(history)
  OBVIOUS
<1>. QED
  BY <1>1 DEF HeldIn, Top

(* A step that is not job r's own leaves what belongs to it alone.         *)
LEMMA OthersLeaveAlone ==
  ASSUME TypeOK, [Next]_vars, NEW r \in Runs, ~Work(r), ~Fault(r)
  PROVE  /\ clone'[r] = clone[r] /\ work'[r] = work[r] /\ keep'[r] = keep[r]
         /\ pc'[r] = pc[r] /\ step'[r] = step[r] /\ failed'[r] = failed[r]
         /\ made'[r] = made[r] /\ attempt'[r] = attempt[r] /\ began'[r] = began[r]
<1>1. CASE Merge \/ UNCHANGED vars
  BY <1>1 DEF Merge, runner, vars
<1>2. ASSUME NEW q \in Runs, q # r, Work(q) \/ Fault(q)
      PROVE  /\ clone'[r] = clone[r] /\ work'[r] = work[r] /\ keep'[r] = keep[r]
             /\ pc'[r] = pc[r] /\ step'[r] = step[r] /\ failed'[r] = failed[r]
             /\ made'[r] = made[r] /\ attempt'[r] = attempt[r]
             /\ began'[r] = began[r]
  BY <1>2
  DEF TypeOK, Work, Fault, Checkout, Generate, SkipGenerate, SkipScript,
      NothingToPublish, KeepCopy, CommitPath, Push, PushRejected, PushBreaks,
      Rebuild, RebuildUpTo, FetchBreaks, RunnerDies, Advance, runner
<1>. QED
  BY <1>1, <1>2 DEF Next

(* What holds of a job goes on holding while others act.                   *)
LEMMA CarefulMeanwhile ==
  ASSUME TypeOK, TypeOK', [Next]_vars, NEW r \in Runs, ~Work(r), ~Fault(r),
         Tidy(r), Careful(r)
  PROVE  Tidy(r)' /\ Careful(r)'
<1>1. \A f, n : HeldIn(branch, f, n) => HeldIn(branch', f, n)
  BY MainKeeps, BranchGrows
<1>2. /\ clone'[r] = clone[r] /\ work'[r] = work[r] /\ keep'[r] = keep[r]
      /\ pc'[r] = pc[r] /\ step'[r] = step[r] /\ failed'[r] = failed[r]
      /\ made'[r] = made[r]
  BY OthersLeaveAlone
<1>3. /\ HeadTree(r)' = HeadTree(r) /\ CurrentStep(r)' = CurrentStep(r)
      /\ Written(r)' = Written(r) /\ InScript(r)' = InScript(r)
  BY <1>2 DEF HeadTree, CurrentStep, Written, InScript
<1>4. Tidy(r)'
  BY <1>2, <1>3 DEF Tidy, Fresh, OnlyThePath, SealedOnce
<1>5. ASSUME NEW f \in Files, HeadKnown(r, f), Clean(r, f), Kept(r, f)
      PROVE  HeadKnown(r, f)' /\ Clean(r, f)' /\ Kept(r, f)'
  <2>1. HeadKnown(r, f)'
    BY <1>1, <1>2, <1>3, <1>5 DEF HeadKnown
  <2>2. Clean(r, f)'
    BY <1>2, <1>3, <1>5 DEF Clean
  <2>3. Kept(r, f)'
    BY <1>1, <1>2, <1>3, <1>5 DEF Kept
  <2>. QED
    BY <2>1, <2>2, <2>3
<1>. QED
  BY <1>2, <1>4, <1>5 DEF Careful

(* A job's own step: what holds whether or not it has failed.              *)
LEMMA StaysTidy ==
  ASSUME TypeOK, TypeOK', MainSealedOnce, NEW r \in Runs, Tidy(r),
         Work(r) \/ Fault(r)
  PROVE  Tidy(r)'
<1>. USE DEF Tidy, Fresh, OnlyThePath, SealedOnce, InScript
<1>1. HeadTree(r)' = Top(clone'[r])
  BY DEF HeadTree
<1>2. Sealed \subseteq Files
  BY ConstantsAssumption
<1>3. ASSUME Advance(r), made'[r] = made[r], work'[r] = work[r], clone'[r] = clone[r]
      PROVE  Tidy(r)'
  BY <1>1, <1>3, <1>2 DEF TypeOK, Advance, HeadTree, NoFiles
<1>4. CASE Checkout(r)
  BY <1>1, <1>4 DEF TypeOK, Checkout, MainSealedOnce
<1>5. CASE Generate(r)
  <2>1. PICK written \in SUBSET CurrentStep(r).writes :
          /\ work'[r] = Overlay(work[r], [f \in Files |-> NewContent(f)], written)
          /\ made'[r] = Overlay(made[r], [f \in Files |-> NewContent(f)], written)
    BY <1>5 DEF TypeOK, Generate
  <2>2. \A f \in Sealed : work'[r][f] \in {0, 1} /\ made'[r][f] \in {0, 1}
    BY <1>2, <2>1 DEF Overlay, NewContent
  <2>. QED
    BY <1>5, <2>2 DEF TypeOK, Generate, HeadTree
<1>6. CASE SkipGenerate(r) \/ PushRejected(r) \/ PushBreaks(r) \/ RunnerDies(r)
  BY <1>6 DEF TypeOK, SkipGenerate, PushRejected, PushBreaks, RunnerDies, runner,
              HeadTree, CurrentStep
<1>7. CASE SkipScript(r) \/ NothingToPublish(r) \/ Push(r) \/ FetchBreaks(r)
  BY <1>3, <1>7 DEF SkipScript, NothingToPublish, Push, FetchBreaks
<1>8. CASE KeepCopy(r)
  BY <1>2, <1>8 DEF TypeOK, KeepCopy, HeadTree, CurrentStep, Overlay, NoFiles
<1>9. CASE CommitPath(r)
  <2>. DEFINE next == [tree |-> Overlay(HeadTree(r), work[r], CurrentStep(r).path),
                       by |-> r]
  <2>1. clone'[r] = Append(clone[r], next) \/ clone'[r] = clone[r]
    BY <1>9 DEF TypeOK, CommitPath
  <2>2. next \in Commit
    BY OverlayTree, TopTree DEF TypeOK, Commit, HeadTree
  <2>3. Top(Append(clone[r], next)) = next.tree
    <3>. HIDE DEF next
    <3>. QED
      BY <2>2 DEF TypeOK, Top
  <2>4. ASSUME NEW f \in Sealed PROVE Top(clone'[r])[f] \in {0, 1}
    <3>1. HeadTree(r)[f] \in {0, 1} /\ work[r][f] \in {0, 1} /\ f \in Files
      BY <1>2
    <3>2. next.tree[f] \in {0, 1}
      BY <3>1 DEF Overlay
    <3>. HIDE DEF next
    <3>. QED
      BY <2>1, <2>3, <3>1, <3>2 DEF HeadTree
  <2>. QED
    BY <1>1, <1>9, <2>4 DEF TypeOK, CommitPath, CurrentStep
<1>a. CASE Rebuild(r)
  <2>1. /\ HeadTree(r)' = Top(branch)
        /\ work'[r] = Unpack(ResetTree(r), keep[r]) /\ made'[r] = made[r]
    BY <1>1, <1>a DEF TypeOK, Rebuild, RebuildUpTo
  <2>2. \A f \in Sealed : work'[r][f] \in {0, 1} /\ HeadTree(r)'[f] \in {0, 1}
    BY <1>2, <2>1 DEF MainSealedOnce, Unpack, ResetTree
  <2>3. CASE attempt[r] < Attempts
    BY <1>a, <2>1, <2>2, <2>3 DEF TypeOK, Rebuild, RebuildUpTo, CurrentStep
  <2>4. CASE ~(attempt[r] < Attempts)
    BY <1>2, <1>a, <2>1, <2>2, <2>4 DEF TypeOK, Rebuild, RebuildUpTo, Advance, NoFiles
  <2>. QED
    BY <2>3, <2>4
<1>. QED
  BY <1>4, <1>5, <1>6, <1>7, <1>8, <1>9, <1>a DEF Work, Fault

(* A script that ends with its path on main leaves behind only what the    *)
(* steps so far leave behind.                                              *)
LEMMA MovesOn ==
  ASSUME TypeOK, TypeOK', [Next]_vars, NEW r \in Runs, Careful(r), ~failed[r],
         pc[r] \in {"script", "push"}, Advance(r),
         clone'[r] = clone[r], work'[r] = work[r], made'[r] = made[r],
         \A f \in CurrentStep(r).path : work[r][f] = HeadTree(r)[f],
         \A f \in Files : HeldIn(branch', f, HeadTree(r)[f])
  PROVE  Careful(r)'
<1>1. HeadTree(r)' = HeadTree(r)
  BY DEF HeadTree
<1>2. /\ step[r] \in 1 .. Len(Steps[r]) /\ Len(Steps[r]) \in Nat
      /\ CurrentStep(r) = Steps[r][step[r]]
  BY ConstantsAssumption DEF TypeOK, CurrentStep
<1>3. /\ LeftBehind(r, step[r]) =
           {f \in LeftBehind(r, step[r] - 1) \cup CurrentStep(r).writes :
              f \notin CurrentStep(r).path}
      /\ step[r] = Len(Steps[r]) => LeftBehind(r, step[r]) = {}
  <2>1. LeftBehind(r, step[r]) =
          {f \in LeftBehind(r, step[r] - 1) \cup Steps[r][step[r]].writes :
             f \notin Steps[r][step[r]].path}
    BY <1>2, LeftBehindStep
  <2>2. LeftBehind(r, Len(Steps[r])) = {}
    BY StepsAssumption
  <2>. QED
    BY <1>2, <2>1, <2>2
<1>4. \/ /\ pc'[r] = "generate" /\ step'[r] = step[r] + 1
      \/ /\ pc'[r] = "done" /\ step[r] = Len(Steps[r])
  BY <1>2 DEF TypeOK, Advance
<1>5. ASSUME NEW f \in Files
      PROVE  HeadKnown(r, f)' /\ Clean(r, f)' /\ Kept(r, f)'
  <2>1. HeadKnown(r, f)'
    BY <1>1 DEF HeadKnown
  <2>2. Clean(r, f) /\ Kept(r, f)
    BY <1>5 DEF Careful
  <2>3. pc'[r] = "generate" => Written(r)' = LeftBehind(r, step[r])
    BY <1>2, <1>4 DEF Written, LeftBehind
  <2>4. Written(r) = IF pc[r] = "generate" THEN LeftBehind(r, step[r] - 1)
                     ELSE LeftBehind(r, step[r] - 1) \cup CurrentStep(r).writes
    BY DEF Written
  <2>5. f \in Written(r) => f \in CurrentStep(r).path \/ f \in LeftBehind(r, step[r])
    BY <1>3, <2>4
  <2>6. Clean(r, f)'
    <3>1. pc'[r] = "generate" /\ f \notin LeftBehind(r, step[r])
            => f \notin Written(r) \/ f \in CurrentStep(r).path
      BY <2>5
    <3>. QED
      BY <1>1, <1>4, <2>2, <2>3, <3>1 DEF Clean
  <2>7. Kept(r, f)'
    <3>. SUFFICES ASSUME made[r][f] # 0, ~HeldIn(branch', f, made[r][f])
                  PROVE  /\ pc'[r] # "done" /\ f \in Written(r)' /\ work[r][f] = made[r][f]
                         /\ ~InScript(r)'
      BY DEF Kept
    <3>1. ~HeldIn(branch, f, made[r][f])
      BY MainKeeps, BranchGrows
    <3>2. f \in Written(r) /\ work[r][f] = made[r][f]
      BY <2>2, <3>1 DEF Kept
    <3>3. f \notin CurrentStep(r).path
      BY <1>5, <3>2
    <3>4. f \in LeftBehind(r, step[r])
      BY <2>5, <3>2, <3>3
    <3>. QED
      BY <1>3, <1>4, <2>3, <3>2, <3>4 DEF InScript
  <2>. QED
    BY <2>1, <2>6, <2>7
<1>. QED
  BY <1>5 DEF Careful

(* A job's own step, as long as no step of the job has failed.             *)
LEMMA StaysCareful ==
  ASSUME TypeOK, TypeOK', [Next]_vars, MainSealedOnce, NEW r \in Runs, Tidy(r),
         Careful(r), Work(r) \/ Fault(r)
  PROVE  Careful(r)'
<1>. SUFFICES ASSUME ~failed'[r], pc'[r] \notin {"queued", "dead"}
              PROVE  Careful(r)'
  BY DEF Careful
<1>1. HeadTree(r)' = Top(clone'[r])
  BY DEF HeadTree
<1>2. \A f, n : HeldIn(branch, f, n) => HeldIn(branch', f, n)
  BY MainKeeps, BranchGrows
<1>3. /\ step'[r] = step[r] =>
           /\ CurrentStep(r)' = CurrentStep(r)
           /\ Written(r)' = IF pc'[r] = "generate" THEN LeftBehind(r, step[r] - 1)
                            ELSE LeftBehind(r, step[r] - 1) \cup CurrentStep(r).writes
      /\ Written(r) = IF pc[r] = "generate" THEN LeftBehind(r, step[r] - 1)
                      ELSE LeftBehind(r, step[r] - 1) \cup CurrentStep(r).writes
  BY DEF CurrentStep, Written, LeftBehind
<1>4. CASE Checkout(r)
  <2>1. /\ pc[r] = "queued" /\ pc'[r] = "generate" /\ step'[r] = step[r]
        /\ HeadTree(r)' = Top(branch) /\ work'[r] = Top(branch)
        /\ made'[r] = made[r] /\ branch' = branch
    BY <1>1, <1>4 DEF TypeOK, Checkout
  <2>2. \A f \in Files : made[r][f] = 0
    BY <2>1 DEF Tidy, Fresh, NoFiles
  <2>3. \A f : HeldIn(branch, f, Top(branch)[f])
    BY TopIsHeld DEF TypeOK
  <2>4. \A f \in Files : HeadKnown(r, f)' /\ Clean(r, f)' /\ Kept(r, f)'
    BY <2>1, <2>2, <2>3 DEF HeadKnown, Clean, Kept
  <2>. QED
    BY <2>4 DEF Careful
<1>5. CASE Generate(r)
  <2>1. /\ pc[r] = "generate" /\ pc'[r] = "script" /\ step'[r] = step[r] /\ ~failed[r]
        /\ HeadTree(r)' = HeadTree(r) /\ branch' = branch
    BY <1>5 DEF TypeOK, Generate, HeadTree
  <2>2. PICK written \in SUBSET CurrentStep(r).writes :
          /\ work'[r] = Overlay(work[r], [f \in Files |-> NewContent(f)], written)
          /\ made'[r] = Overlay(made[r], [f \in Files |-> NewContent(f)], written)
    BY <1>5 DEF TypeOK, Generate
  <2>3. ASSUME NEW f \in Files
        PROVE  HeadKnown(r, f)' /\ Clean(r, f)' /\ Kept(r, f)'
    <3>1. HeadKnown(r, f) /\ Clean(r, f) /\ Kept(r, f)
      BY <2>1 DEF Careful
    <3>2. CASE f \in written
      <4>1. work'[r][f] = made'[r][f] /\ f \in Written(r)'
        BY <1>3, <2>1, <2>2, <3>2 DEF Overlay
      <4>. QED
        BY <2>1, <3>1, <4>1 DEF HeadKnown, Clean, Kept, InScript
    <3>3. CASE f \notin written
      <4>1. /\ work'[r][f] = work[r][f] /\ made'[r][f] = made[r][f]
            /\ f \in Written(r) => f \in Written(r)'
        BY <1>3, <2>1, <2>2, <3>3 DEF Overlay
      <4>. QED
        BY <2>1, <3>1, <4>1 DEF HeadKnown, Clean, Kept, InScript
    <3>. QED
      BY <3>2, <3>3
  <2>. QED
    BY <2>3 DEF Careful
<1>6. CASE SkipGenerate(r) \/ SkipScript(r) \/ FetchBreaks(r) \/ RunnerDies(r)
  BY <1>6 DEF TypeOK, SkipGenerate, SkipScript, FetchBreaks, RunnerDies, runner
<1>7. CASE NothingToPublish(r)
  <2>1. /\ pc[r] = "script" /\ Advance(r) /\ ~failed[r]
        /\ clone'[r] = clone[r] /\ work'[r] = work[r] /\ made'[r] = made[r]
        /\ \A f \in CurrentStep(r).path : work[r][f] = HeadTree(r)[f]
    BY <1>7 DEF NothingToPublish, Changed
  <2>2. \A f \in Files : HeldIn(branch', f, HeadTree(r)[f])
    BY <1>2, <2>1 DEF Careful, HeadKnown
  <2>. QED
    BY <2>1, <2>2, MovesOn
<1>8. CASE KeepCopy(r)
  <2>1. /\ pc[r] = "script" /\ pc'[r] = "commit" /\ step'[r] = step[r] /\ ~failed[r]
        /\ work'[r] = work[r] /\ made'[r] = made[r] /\ branch' = branch
        /\ HeadTree(r)' = HeadTree(r)
        /\ keep'[r] = Overlay(NoFiles, work[r], CurrentStep(r).path)
    BY <1>8 DEF TypeOK, KeepCopy, HeadTree
  <2>2. ASSUME NEW f \in Files
        PROVE  HeadKnown(r, f)' /\ Clean(r, f)' /\ Kept(r, f)'
    <3>1. HeadKnown(r, f) /\ Clean(r, f) /\ Kept(r, f)
      BY <2>1 DEF Careful
    <3>2. f \in CurrentStep(r).path => keep'[r][f] = work[r][f]
      BY <2>1 DEF Overlay
    <3>3. Written(r)' = Written(r) /\ CurrentStep(r)' = CurrentStep(r)
      BY <1>3, <2>1
    <3>. QED
      BY <2>1, <3>1, <3>2, <3>3 DEF HeadKnown, Clean, Kept
  <2>. QED
    BY <2>2 DEF Careful
<1>9. CASE CommitPath(r)
  <2>. DEFINE next == [tree |-> Overlay(HeadTree(r), work[r], CurrentStep(r).path),
                       by |-> r]
  <2>1. /\ pc[r] = "commit" /\ pc'[r] = "push" /\ step'[r] = step[r] /\ ~failed[r]
        /\ work'[r] = work[r] /\ made'[r] = made[r] /\ branch' = branch
        /\ keep'[r] = keep[r]
        /\ \/ clone'[r] = Append(clone[r], next)
           \/ clone'[r] = clone[r] /\ ~Changed(r, CurrentStep(r).path)
    BY <1>9 DEF TypeOK, CommitPath
  <2>2. next \in Commit
    BY OverlayTree, TopTree DEF TypeOK, Commit, HeadTree
  <2>3. Top(Append(clone[r], next)) = next.tree
    <3>. HIDE DEF next
    <3>. QED
      BY <2>2 DEF TypeOK, Top
  <2>4. \A f \in Files : Top(clone'[r])[f] =
          IF f \in CurrentStep(r).path THEN work[r][f] ELSE HeadTree(r)[f]
    BY <2>1, <2>3 DEF Overlay, HeadTree, Changed
  <2>5. ASSUME NEW f \in Files
        PROVE  HeadKnown(r, f)' /\ Clean(r, f)' /\ Kept(r, f)'
    <3>1. HeadKnown(r, f) /\ Clean(r, f) /\ Kept(r, f)
      BY <2>1 DEF Careful
    <3>2. /\ Written(r)' = Written(r) /\ CurrentStep(r)' = CurrentStep(r)
          /\ InScript(r)' = InScript(r)
      BY <1>3, <2>1 DEF InScript
    <3>3. HeadTree(r)'[f] = IF f \in CurrentStep(r).path THEN work[r][f] ELSE HeadTree(r)[f]
      BY <1>1, <2>4
    <3>. QED
      BY <2>1, <3>1, <3>2, <3>3 DEF HeadKnown, Clean, Kept
  <2>. QED
    BY <2>5 DEF Careful
<1>a. CASE Push(r)
  <2>1. /\ pc[r] = "push" /\ Advance(r) /\ ~failed[r] /\ branch' = clone[r]
        /\ clone'[r] = clone[r] /\ work'[r] = work[r] /\ made'[r] = made[r]
    BY <1>a DEF Push
  <2>2. \A f \in Files : HeldIn(branch', f, HeadTree(r)[f])
    BY <2>1, TopIsHeld DEF TypeOK, HeadTree
  <2>3. CurrentStep(r).path \subseteq Files
    BY CurrentStepType DEF StepType
  <2>4. \A f \in CurrentStep(r).path : work[r][f] = HeadTree(r)[f]
    BY <2>1, <2>3 DEF Careful, Clean
  <2>. QED
    BY <2>1, <2>2, <2>4, MovesOn
<1>b. CASE PushRejected(r) \/ PushBreaks(r)
  <2>1. /\ pc[r] = "push" /\ pc'[r] = "rebuild" /\ step'[r] = step[r] /\ ~failed[r]
        /\ work'[r] = work[r] /\ made'[r] = made[r] /\ keep'[r] = keep[r]
        /\ HeadTree(r)' = HeadTree(r)
    BY <1>b DEF TypeOK, PushRejected, PushBreaks, runner, HeadTree
  <2>2. ASSUME NEW f \in Files
        PROVE  HeadKnown(r, f)' /\ Clean(r, f)' /\ Kept(r, f)'
    <3>1. HeadKnown(r, f) /\ Clean(r, f) /\ Kept(r, f)
      BY <2>1 DEF Careful
    <3>2. /\ Written(r)' = Written(r) /\ CurrentStep(r)' = CurrentStep(r)
          /\ InScript(r)' = InScript(r)
      BY <1>3, <2>1 DEF InScript
    <3>3. HeadKnown(r, f)'
      BY <1>2, <2>1, <3>1, <3>2 DEF HeadKnown
    <3>4. Clean(r, f)'
      BY <2>1, <3>1, <3>2 DEF Clean
    <3>5. Kept(r, f)'
      BY <1>2, <2>1, <3>1, <3>2 DEF Kept
    <3>. QED
      BY <3>3, <3>4, <3>5
  <2>. QED
    BY <2>2 DEF Careful
<1>c. CASE Rebuild(r)
  <2>1. attempt[r] < Attempts
    BY <1>c DEF TypeOK, Rebuild, RebuildUpTo
  <2>2. /\ pc[r] = "rebuild" /\ pc'[r] = "commit" /\ step'[r] = step[r] /\ ~failed[r]
        /\ HeadTree(r)' = Top(branch) /\ branch' = branch
        /\ work'[r] = Unpack(ResetTree(r), keep[r])
        /\ made'[r] = made[r] /\ keep'[r] = keep[r]
    BY <1>1, <1>c, <2>1 DEF TypeOK, Rebuild, RebuildUpTo
  <2>3. ASSUME NEW f \in Files
        PROVE  HeadKnown(r, f)' /\ Clean(r, f)' /\ Kept(r, f)'
    <3>1. HeadKnown(r, f) /\ Clean(r, f) /\ Kept(r, f)
      BY <2>2 DEF Careful
    <3>2. /\ Written(r)' = Written(r) /\ CurrentStep(r)' = CurrentStep(r)
          /\ InScript(r)' = InScript(r)
      BY <1>3, <2>2 DEF InScript
    <3>3. HeldIn(branch, f, Top(branch)[f])
      BY TopIsHeld DEF TypeOK
    <3>4. f \notin CurrentStep(r).path =>
            /\ keep[r][f] = 0
            /\ work'[r][f] = IF HeadTree(r)[f] # 0 \/ Top(branch)[f] # 0
                             THEN Top(branch)[f] ELSE work[r][f]
      BY <2>2 DEF Tidy, OnlyThePath, InScript, Unpack, ResetTree
    <3>5. HeadKnown(r, f)'
      BY <2>2, <3>3 DEF HeadKnown
    <3>6. Clean(r, f)'
      BY <2>2, <3>1, <3>2, <3>4 DEF Clean
    <3>7. Kept(r, f)'
      <4>. SUFFICES ASSUME made[r][f] # 0, ~HeldIn(branch, f, made[r][f])
                    PROVE  /\ f \in Written(r) /\ work'[r][f] = made[r][f]
                           /\ f \in CurrentStep(r).path => keep[r][f] = made[r][f]
        BY <2>2, <3>2 DEF Kept
      <4>1. /\ f \in Written(r) /\ work[r][f] = made[r][f]
            /\ f \in CurrentStep(r).path => keep[r][f] = made[r][f]
        BY <2>2, <3>1 DEF Kept, InScript
      <4>2. CASE f \in CurrentStep(r).path
        BY <2>2, <4>1, <4>2 DEF Unpack
      <4>3. CASE f \notin CurrentStep(r).path
        <5>1. step[r] \in 1 .. Len(Steps[r]) /\ CurrentStep(r) = Steps[r][step[r]]
          BY DEF TypeOK, CurrentStep
        <5>2. f \in LeftBehind(r, step[r])
          BY <1>3, <2>2, <4>1, <4>3, <5>1, LeftBehindStep
        <5>3. f \in Sealed
          BY <5>1, <5>2, StepsAssumption
        <5>4. /\ made[r][f] \in {0, 1} /\ HeadTree(r)[f] \in {0, 1}
              /\ Top(branch)[f] \in {0, 1}
          BY <5>3 DEF Tidy, SealedOnce, MainSealedOnce
        <5>5. HeldIn(branch, f, HeadTree(r)[f])
          BY <2>2, <3>1, <4>3 DEF HeadKnown
        <5>6. HeadTree(r)[f] = 0 /\ Top(branch)[f] = 0
          BY <3>3, <5>4, <5>5
        <5>. QED
          BY <3>4, <4>1, <4>3, <5>6
      <4>. QED
        BY <4>2, <4>3
    <3>. QED
      BY <3>5, <3>6, <3>7
  <2>. QED
    BY <2>3 DEF Careful
<1>. QED
  BY <1>4, <1>5, <1>6, <1>7, <1>8, <1>9, <1>a, <1>b, <1>c DEF Work, Fault

NothingGetsLost ==
  MainSealedOnce /\ \A r \in Runs : Tidy(r) /\ Careful(r)

LEMMA NothingIsLost == Spec => []NothingGetsLost
<1>1. Init => NothingGetsLost
  <2>. SUFFICES ASSUME Init PROVE NothingGetsLost
    OBVIOUS
  <2>1. MainSealedOnce /\ \A r \in Runs : SealedOnce(r)
    BY ConstantsAssumption DEF Init, MainSealedOnce, SealedOnce, Top, HeadTree, NoFiles
  <2>2. \A r \in Runs : Fresh(r) /\ OnlyThePath(r) /\ Careful(r)
    BY DEF Init, Fresh, OnlyThePath, InScript, Careful
  <2>. QED
    BY <2>1, <2>2 DEF NothingGetsLost, Tidy
<1>2. TypeOK /\ TypeOK' /\ NothingGetsLost /\ [Next]_vars => NothingGetsLost'
  <2>. SUFFICES ASSUME TypeOK, TypeOK', NothingGetsLost, [Next]_vars
                PROVE  NothingGetsLost'
    OBVIOUS
  <2>1. ASSUME NEW r \in Runs PROVE Tidy(r)' /\ Careful(r)'
    <3>1. MainSealedOnce /\ Tidy(r) /\ Careful(r)
      BY DEF NothingGetsLost
    <3>2. CASE Work(r) \/ Fault(r)
      BY <3>1, <3>2, StaysTidy, StaysCareful
    <3>3. CASE ~Work(r) /\ ~Fault(r)
      BY <3>1, <3>3, CarefulMeanwhile
    <3>. QED
      BY <3>2, <3>3
  <2>2. MainSealedOnce'
    <3>1. CASE branch' = branch
      BY <3>1 DEF NothingGetsLost, MainSealedOnce
    <3>2. ASSUME NEW r \in Runs, branch' = clone[r]
          PROVE  MainSealedOnce'
      BY <3>2 DEF NothingGetsLost, MainSealedOnce, Tidy, SealedOnce, HeadTree
    <3>3. CASE Merge
      <4>. DEFINE commit == [tree |-> Top(branch), by |-> Owner]
      <4>1. branch' = Append(branch, commit) /\ commit \in Commit
        BY <3>3, TopTree DEF Merge, TypeOK, Commit
      <4>2. Top(branch') = commit.tree
        <5>. HIDE DEF commit
        <5>. QED
          BY <4>1 DEF TypeOK, Top
      <4>. QED
        BY <4>2 DEF NothingGetsLost, MainSealedOnce
    <3>4. branch' = branch \/ Merge \/ \E r \in Runs : branch' = clone[r]
      BY DEF Next, Work, Fault, vars, Checkout, Generate, SkipGenerate, SkipScript,
             NothingToPublish, KeepCopy, CommitPath, Push, PushRejected, PushBreaks,
             Rebuild, RebuildUpTo, FetchBreaks, RunnerDies
    <3>. QED
      BY <3>1, <3>2, <3>3, <3>4
  <2>. QED
    BY <2>1, <2>2 DEF NothingGetsLost
<1>. QED
  BY <1>1, <1>2, TypeCorrect, PTL DEF Spec

(* A job that ends green has everything it generated on main, in the       *)
(* generation it made, whatever raced, broke or was retried.               *)
THEOREM GreenIsPublished == Spec => []GreenMeansPublished
<1>1. NothingGetsLost => GreenMeansPublished
  BY DEF NothingGetsLost, Careful, Kept, HeldIn, GreenMeansPublished
<1>. QED
  BY <1>1, NothingIsLost, PTL

(* A step that pins finds the tree as HEAD has it.                         *)
THEOREM PinsFindACleanTree == Spec => []CleanWhenPinning
<1>1. TypeOK /\ NothingGetsLost => CleanWhenPinning
  <2>. SUFFICES ASSUME TypeOK, NothingGetsLost, NEW r \in Runs,
                       pc[r] = "generate", ~failed[r], CurrentStep(r).pins
                PROVE  work[r] = HeadTree(r)
    BY DEF CleanWhenPinning
  <2>1. LeftBehind(r, step[r] - 1) = {}
    BY StepsAssumption DEF TypeOK, CurrentStep
  <2>2. \A f \in Files : work[r][f] = HeadTree(r)[f]
    BY <2>1 DEF NothingGetsLost, Careful, Clean, Written
  <2>3. work[r] \in Tree /\ HeadTree(r) \in Tree
    BY TopTree DEF TypeOK, HeadTree
  <2>. QED
    BY <2>2, <2>3 DEF Tree
<1>. QED
  BY <1>1, NothingIsLost, TypeCorrect, PTL

-----------------------------------------------------------------------------
(* Main is a store whose files only their own job replaces                 *)

Going == {"generate", "script", "commit", "push", "rebuild"}

Ordered(history) ==
  \A i \in 1 .. Len(history), j \in 1 .. Len(history), f \in OwnFiles :
    i <= j => history[i].tree[f] <= history[j].tree[f]

(* No tree holds a generation nobody has made.                             *)
Counted ==
  \A f \in Files : /\ Top(branch)[f] <= gen[f]
                   /\ \A r \in Runs : HeadTree(r)[f] <= gen[f] /\ work[r][f] <= gen[f]

(* A concurrency group has one job going.                                  *)
OneOfAGroup ==
  \A r, q \in Runs :
    pc[r] \in Going /\ pc[q] \in Going /\ Group[q] = Group[r] => q = r

(* The work tree is never behind HEAD or main in a file of the job's.      *)
NeverBehind(r) ==
  \A f \in Reach(r) \cap OwnFiles :
    Top(branch)[f] <= work[r][f] /\ HeadTree(r)[f] <= work[r][f]

(* The archive repeats the work tree.                                      *)
Repeats(r) ==
  InScript(r) => \A f \in Files : keep[r][f] # 0 => keep[r][f] = work[r][f]

(* A file the job does not generate is as in HEAD, and under the job's     *)
(* paths as on main.                                                       *)
LeavesOthers(r) ==
  \A f \in OwnFiles \ Outputs[r] :
    work[r][f] = HeadTree(r)[f] /\ (f \in Reach(r) => HeadTree(r)[f] = Top(branch)[f])

(* Since its history left main's, the job has changed what it generates.   *)
Forks(r, history, main) ==
  \E m \in 1 .. Len(main) :
    /\ m <= Len(history)
    /\ \A i \in 1 .. m : history[i] = main[i]
    /\ \A i \in m .. Len(history) : \A f \in OwnFiles \ Outputs[r] :
         history[i].tree[f] = history[m].tree[f]

InOrder(r) ==
  /\ NeverBehind(r) /\ Repeats(r) /\ LeavesOthers(r)
  /\ Ordered(clone[r]) /\ Forks(r, clone[r], branch)

StoreInv ==
  /\ Ordered(branch) /\ Counted /\ OneOfAGroup
  /\ \A r \in Runs : pc[r] \in Going => InOrder(r)

LEMMA OwnFilesAreFiles == OwnFiles \subseteq Files /\ OwnFiles' = OwnFiles
BY DEF OwnFiles

LEMMA NumbersOfFiles ==
  ASSUME TypeOK, NEW r \in Runs, NEW f \in Files
  PROVE  /\ work[r][f] \in Nat /\ keep[r][f] \in Nat /\ gen[f] \in Nat
         /\ HeadTree(r)[f] \in Nat /\ Top(branch)[f] \in Nat
<1>1. HeadTree(r) \in Tree /\ Top(branch) \in Tree
  BY TopTree DEF TypeOK, HeadTree
<1>. QED
  BY <1>1 DEF TypeOK, Tree

LEMMA NumbersOfHistories ==
  ASSUME NEW history \in Seq(Commit), NEW i \in 1 .. Len(history), NEW f \in Files
  PROVE  history[i].tree[f] \in Nat
<1>1. history[i] \in Commit
  OBVIOUS
<1>. QED
  BY <1>1 DEF Commit, Tree

LEMMA OutputsOfStep ==
  ASSUME TypeOK, NEW r \in Runs
  PROVE  /\ CurrentStep(r).writes \subseteq Outputs[r]
         /\ CurrentStep(r).path \subseteq Reach(r)
         /\ Outputs[r] \subseteq Reach(r)
         /\ Reach(r) \subseteq Files
<1>1. step[r] \in 1 .. Len(Steps[r]) /\ CurrentStep(r) = Steps[r][step[r]]
  BY DEF TypeOK, CurrentStep
<1>2. Outputs[r] = UNION {Steps[r][i].writes : i \in 1 .. Len(Steps[r])}
  BY DEF Outputs
<1>3. \A i \in 1 .. Len(Steps[r]) : Steps[r][i].writes \subseteq Files
  <2>1. Steps[r] \in Seq(StepType)
    BY ConstantsAssumption
  <2>2. \A i \in 1 .. Len(Steps[r]) : Steps[r][i] \in StepType
    BY <2>1
  <2>. QED
    BY <2>2 DEF StepType
<1>4. CurrentStep(r).path \subseteq Files
  BY CurrentStepType DEF StepType
<1>. QED
  BY <1>1, <1>2, <1>3, <1>4 DEF Reach

(* A commit that is nowhere behind keeps a history in order.               *)
LEMMA OrderedAppend ==
  ASSUME NEW h \in Seq(Commit), Len(h) > 0, NEW c \in Commit, Ordered(h),
         \A f \in OwnFiles : Top(h)[f] <= c.tree[f]
  PROVE  Ordered(Append(h, c))
<1>. DEFINE g == Append(h, c)
<1>1. /\ Len(h) \in Nat /\ g \in Seq(Commit) /\ Len(g) = Len(h) + 1
      /\ \A i \in 1 .. Len(h) : g[i] = h[i]
      /\ g[Len(h) + 1] = c
  OBVIOUS
<1>. HIDE DEF g
<1>2. SUFFICES ASSUME NEW i \in 1 .. Len(g), NEW j \in 1 .. Len(g), NEW f \in OwnFiles, i <= j
               PROVE  g[i].tree[f] <= g[j].tree[f]
  BY DEF Ordered, g
<1>3. CASE j <= Len(h)
  BY <1>1, <1>2, <1>3 DEF Ordered
<1>4. CASE i = Len(h) + 1
  <2>1. j = i
    BY <1>1, <1>2, <1>4
  <2>2. g[i].tree[f] \in Nat
    BY <1>1, NumbersOfHistories, OwnFilesAreFiles
  <2>. QED
    BY <2>1, <2>2
<1>5. CASE i <= Len(h) /\ j = Len(h) + 1
  <2>1. h[i].tree[f] <= h[Len(h)].tree[f] /\ h[Len(h)].tree[f] <= c.tree[f]
    BY <1>1, <1>2, <1>5 DEF Ordered, Top
  <2>2. h[i].tree[f] \in Nat /\ h[Len(h)].tree[f] \in Nat
    BY <1>1, <1>2, <1>5, NumbersOfHistories, OwnFilesAreFiles
  <2>3. c.tree[f] \in Nat
    BY OwnFilesAreFiles DEF Commit, Tree
  <2>. QED
    BY <1>1, <1>5, <2>1, <2>2, <2>3
<1>. QED
  BY <1>1, <1>3, <1>4, <1>5

(* A push that fast-forwards main replaces files of the job's by newer     *)
(* ones.                                                                   *)
LEMMA PushReplaces ==
  ASSUME TypeOK, NEW r \in Runs, InOrder(r), IsAncestor(branch, clone[r]), NEW f \in OwnFiles
  PROVE  /\ Top(branch)[f] <= Top(clone[r])[f]
         /\ f \notin Outputs[r] => Top(branch)[f] = Top(clone[r])[f]
<1>1. PICK m \in 1 .. Len(branch) :
        /\ m <= Len(clone[r])
        /\ \A i \in m .. Len(clone[r]) : \A g \in OwnFiles \ Outputs[r] :
             clone[r][i].tree[g] = clone[r][m].tree[g]
  BY DEF InOrder, Forks
<1>2. /\ Len(branch) \in Nat /\ Len(clone[r]) \in Nat /\ Len(branch) > 0
      /\ Len(branch) <= Len(clone[r])
      /\ branch[Len(branch)] = clone[r][Len(branch)]
  BY DEF TypeOK, IsAncestor
<1>3. Top(branch) = clone[r][Len(branch)].tree /\ Top(clone[r]) = clone[r][Len(clone[r])].tree
  BY <1>2 DEF Top
<1>4. Len(branch) \in m .. Len(clone[r]) /\ Len(clone[r]) \in m .. Len(clone[r])
  BY <1>1, <1>2
<1>5. f \notin Outputs[r] => Top(branch)[f] = Top(clone[r])[f]
  BY <1>1, <1>3, <1>4
<1>6. Top(branch)[f] <= Top(clone[r])[f]
  BY <1>2, <1>3 DEF InOrder, Ordered
<1>. QED
  BY <1>5, <1>6
(* A history has left itself nowhere; one that has left main has left what *)
(* main grows into.                                                        *)
LEMMA ForksSelf ==
  ASSUME NEW h \in Seq(Commit), Len(h) > 0, NEW r
  PROVE  Forks(r, h, h)
<1>1. Len(h) \in Nat /\ Len(h) \in 1 .. Len(h) /\ \A i \in Len(h) .. Len(h) : i = Len(h)
  OBVIOUS
<1>2. /\ Len(h) <= Len(h)
      /\ \A i \in 1 .. Len(h) : h[i] = h[i]
      /\ \A i \in Len(h) .. Len(h) : \A f \in OwnFiles \ Outputs[r] :
           h[i].tree[f] = h[Len(h)].tree[f]
  BY <1>1
<1>. QED
  BY <1>1, <1>2 DEF Forks

LEMMA ForksOn ==
  ASSUME NEW h, NEW main \in Seq(Commit), NEW other \in Seq(Commit), NEW r,
         IsAncestor(main, other), Forks(r, h, main)
  PROVE  Forks(r, h, other)
<1>1. PICK m \in 1 .. Len(main) :
        /\ m <= Len(h)
        /\ \A i \in 1 .. m : h[i] = main[i]
        /\ \A i \in m .. Len(h) : \A f \in OwnFiles \ Outputs[r] :
             h[i].tree[f] = h[m].tree[f]
  BY DEF Forks
<1>2. /\ Len(main) \in Nat /\ Len(other) \in Nat /\ Len(main) <= Len(other)
      /\ \A i \in 1 .. Len(main) : main[i] = other[i]
  BY DEF IsAncestor
<1>3. m \in 1 .. Len(other) /\ \A i \in 1 .. m : h[i] = other[i]
  BY <1>1, <1>2
<1>. QED
  BY <1>1, <1>3 DEF Forks

LEMMA ForksAppend ==
  ASSUME NEW h \in Seq(Commit), Len(h) > 0, NEW main \in Seq(Commit), NEW r,
         Forks(r, h, main), NEW c \in Commit,
         \A f \in OwnFiles \ Outputs[r] : c.tree[f] = Top(h)[f]
  PROVE  Forks(r, Append(h, c), main)
<1>. DEFINE g == Append(h, c)
<1>1. /\ Len(h) \in Nat /\ Len(g) = Len(h) + 1
      /\ \A i \in 1 .. Len(h) : g[i] = h[i]
      /\ g[Len(h) + 1] = c
  OBVIOUS
<1>. HIDE DEF g
<1>2. PICK m \in 1 .. Len(main) :
        /\ m <= Len(h)
        /\ \A i \in 1 .. m : h[i] = main[i]
        /\ \A i \in m .. Len(h) : \A f \in OwnFiles \ Outputs[r] :
             h[i].tree[f] = h[m].tree[f]
  BY DEF Forks
<1>3. m \in Nat /\ m >= 1 /\ m <= Len(g) /\ \A i \in 1 .. m : g[i] = main[i]
  BY <1>1, <1>2
<1>4. ASSUME NEW i \in m .. Len(g), NEW f \in OwnFiles \ Outputs[r]
      PROVE  g[i].tree[f] = g[m].tree[f]
  <2>1. g[m] = h[m] /\ h[Len(h)].tree[f] = h[m].tree[f]
    BY <1>1, <1>2, <1>3
  <2>2. CASE i <= Len(h)
    BY <1>1, <1>2, <1>3, <2>1, <2>2
  <2>3. CASE i = Len(h) + 1
    BY <1>1, <2>1, <2>3 DEF Top
  <2>. QED
    BY <1>1, <1>3, <2>2, <2>3
<1>5. Forks(r, g, main)
  BY <1>2, <1>3, <1>4 DEF Forks
<1>. QED
  BY <1>5 DEF g

LEMMA ReachIsConstant ==
  ASSUME NEW r \in Runs
  PROVE  Reach(r)' = Reach(r) /\ Outputs[r]' = Outputs[r] /\ OwnFiles' = OwnFiles
BY DEF Reach, Outputs, OwnFiles

(* What is on main changes with a push alone.                              *)
LEMMA MainChanges ==
  ASSUME TypeOK, [Next]_vars
  PROVE  \/ Top(branch') = Top(branch)
         \/ \E q \in Runs : /\ Push(q) \/ PushBreaks(q)
                            /\ pc[q] = "push" /\ branch' = clone[q]
                            /\ IsAncestor(branch, clone[q])
<1>1. CASE Merge
  <2>. DEFINE commit == [tree |-> Top(branch), by |-> Owner]
  <2>1. branch' = Append(branch, commit) /\ commit \in Commit
    BY <1>1, TopTree DEF Merge, TypeOK, Commit
  <2>2. Top(branch') = commit.tree
    <3>. HIDE DEF commit
    <3>. QED
      BY <2>1 DEF TypeOK, Top
  <2>. QED
    BY <2>2
<1>2. CASE branch' = branch
  BY <1>2
<1>3. ASSUME NEW q \in Runs, Push(q) \/ PushBreaks(q), branch' # branch
      PROVE  pc[q] = "push" /\ branch' = clone[q] /\ IsAncestor(branch, clone[q])
  BY <1>3 DEF Push, PushBreaks, Accepts
<1>4. branch' = branch \/ Merge \/ \E q \in Runs : Push(q) \/ PushBreaks(q)
  BY DEF Next, Work, Fault, vars, Checkout, Generate, SkipGenerate, SkipScript,
         NothingToPublish, KeepCopy, CommitPath, PushRejected, Rebuild,
         RebuildUpTo, FetchBreaks, RunnerDies
<1>. QED
  BY <1>1, <1>2, <1>3, <1>4

(* Others leave what is under a job's paths alone while it is going.       *)
LEMMA OthersKeepOff ==
  ASSUME TypeOK, TypeOK', StoreInv, [Next]_vars, NEW r \in Runs,
         pc[r] \in Going, ~Work(r), ~Fault(r)
  PROVE  InOrder(r)'
<1>1. ASSUME NEW f \in Reach(r) \cap OwnFiles
      PROVE  Top(branch')[f] = Top(branch)[f]
  <2>1. ASSUME NEW q \in Runs, Push(q) \/ PushBreaks(q), pc[q] = "push",
               branch' = clone[q], IsAncestor(branch, clone[q])
        PROVE  Top(branch')[f] = Top(branch)[f]
    <3>1. q # r
      BY <2>1 DEF Work, Fault
    <3>2. pc[q] \in Going
      BY <2>1 DEF Going
    <3>3. Group[q] # Group[r] /\ InOrder(q)
      BY <3>1, <3>2 DEF StoreInv, OneOfAGroup
    <3>4. f \notin Outputs[q]
      BY <3>3 DEF OwnFiles
    <3>. QED
      BY <2>1, <3>3, <3>4, PushReplaces
  <2>. QED
    BY <2>1, MainChanges
<1>2. /\ clone'[r] = clone[r] /\ work'[r] = work[r] /\ keep'[r] = keep[r] /\ pc'[r] = pc[r]
  BY OthersLeaveAlone
<1>3. InOrder(r)
  BY DEF StoreInv
<1>4. HeadTree(r)' = HeadTree(r) /\ InScript(r)' = InScript(r)
  BY <1>2 DEF HeadTree, InScript
<1>5. NeverBehind(r)'
  BY <1>1, <1>2, <1>3, <1>4, ReachIsConstant DEF InOrder, NeverBehind
<1>6. Repeats(r)'
  BY <1>2, <1>3, <1>4 DEF InOrder, Repeats
<1>7. LeavesOthers(r)'
  BY <1>1, <1>2, <1>3, <1>4, ReachIsConstant DEF InOrder, LeavesOthers
<1>8. Ordered(clone[r])'
  BY <1>2, <1>3 DEF InOrder, Ordered
<1>9. Forks(r, clone'[r], branch')
  BY <1>2, <1>3, ForksOn, BranchGrows DEF InOrder, TypeOK
<1>. QED
  BY <1>5, <1>6, <1>7, <1>8, <1>9, ReachIsConstant DEF InOrder, Forks

(* A step that changes neither tree nor history of the job.                *)
LEMMA StandsStill ==
  ASSUME TypeOK, TypeOK', NEW r \in Runs, InOrder(r), Repeats(r)',
         clone'[r] = clone[r], work'[r] = work[r],
         branch' = branch \/ branch' = clone[r]
  PROVE  InOrder(r)'
<1>1. HeadTree(r)' = HeadTree(r) /\ Top(clone[r]) = HeadTree(r)
  BY DEF HeadTree
<1>2. NeverBehind(r)'
  BY <1>1, ReachIsConstant DEF InOrder, NeverBehind
<1>3. LeavesOthers(r)'
  BY <1>1, ReachIsConstant DEF InOrder, LeavesOthers
<1>4. Ordered(clone[r])'
  BY DEF InOrder, Ordered
<1>5. Forks(r, clone'[r], branch')
  BY ForksSelf DEF InOrder, TypeOK
<1>. QED
  BY <1>2, <1>3, <1>4, <1>5, ReachIsConstant DEF InOrder, Forks

(* A job's own step keeps its trees and its history in order.              *)
LEMMA StaysInOrder ==
  ASSUME TypeOK, TypeOK', StoreInv, MainSealedOnce, NEW r \in Runs, Tidy(r),
         Work(r) \/ Fault(r), pc'[r] \in Going
  PROVE  InOrder(r)'
<1>1. HeadTree(r)' = Top(clone'[r]) /\ InScript(r)' = (pc'[r] \in {"commit", "push", "rebuild"})
  BY DEF HeadTree, InScript
<1>2. pc[r] # "queued" => pc[r] \in Going /\ InOrder(r)
  BY DEF StoreInv, Going, TypeOK, Location, Work, Fault, Checkout, Generate,
     SkipGenerate, SkipScript, NothingToPublish, KeepCopy, CommitPath, Push,
     PushRejected, PushBreaks, Rebuild, RebuildUpTo, FetchBreaks, RunnerDies
<1>3. CASE Checkout(r)
  <2>1. /\ clone'[r] = branch /\ work'[r] = Top(branch) /\ branch' = branch
        /\ pc'[r] = "generate"
    BY <1>3 DEF TypeOK, Checkout
  <2>2. HeadTree(r)' = Top(branch)
    BY <1>1, <2>1
  <2>3. NeverBehind(r)'
    BY <2>1, <2>2, ReachIsConstant, NumbersOfFiles, OutputsOfStep DEF NeverBehind
  <2>4. LeavesOthers(r)'
    BY <2>1, <2>2 DEF LeavesOthers
  <2>5. Repeats(r)'
    BY <1>1, <2>1 DEF Repeats
  <2>6. Ordered(clone[r])'
    BY <2>1 DEF StoreInv, Ordered
  <2>7. Forks(r, clone'[r], branch')
    BY <2>1, ForksSelf DEF TypeOK
  <2>. QED
    BY <2>3, <2>4, <2>5, <2>6, <2>7, ReachIsConstant DEF InOrder, Forks
<1>4. CASE Generate(r)
  <2>1. PICK written \in SUBSET CurrentStep(r).writes :
          work'[r] = Overlay(work[r], [f \in Files |-> NewContent(f)], written)
    BY <1>4 DEF TypeOK, Generate
  <2>2. /\ clone'[r] = clone[r] /\ branch' = branch /\ pc'[r] = "script"
        /\ pc[r] = "generate" /\ HeadTree(r)' = HeadTree(r)
    BY <1>4 DEF TypeOK, Generate, HeadTree
  <2>3. InOrder(r)
    BY <1>2, <2>2
  <2>4. \A f \in Files : work'[r][f] = IF f \in written THEN NewContent(f) ELSE work[r][f]
    BY <2>1 DEF Overlay
  <2>5. written \subseteq Outputs[r]
    BY OutputsOfStep
  <2>6. ASSUME NEW f \in Files
        PROVE  Top(branch)[f] <= NewContent(f) /\ HeadTree(r)[f] <= NewContent(f)
    <3>1. CASE f \in Sealed
      BY <3>1 DEF NewContent, MainSealedOnce, Tidy, SealedOnce
    <3>2. CASE f \notin Sealed
      <4>1. Top(branch)[f] <= gen[f] /\ HeadTree(r)[f] <= gen[f]
        BY DEF StoreInv, Counted
      <4>. QED
        BY <3>2, <4>1, NumbersOfFiles DEF NewContent
    <3>. QED
      BY <3>1, <3>2
  <2>7. NeverBehind(r)'
    BY <2>2, <2>3, <2>4, <2>6, ReachIsConstant, OwnFilesAreFiles DEF InOrder, NeverBehind
  <2>8. LeavesOthers(r)'
    BY <2>2, <2>3, <2>4, <2>5, ReachIsConstant, OwnFilesAreFiles
    DEF InOrder, LeavesOthers
  <2>9. Repeats(r)' /\ Ordered(clone[r])'
    BY <1>1, <2>2, <2>3 DEF Repeats, InOrder, Ordered
  <2>10. Forks(r, clone'[r], branch')
    BY <2>2, <2>3 DEF InOrder
  <2>. QED
    BY <2>7, <2>8, <2>9, <2>10, ReachIsConstant DEF InOrder, Forks
<1>5. CASE SkipGenerate(r) \/ SkipScript(r) \/ NothingToPublish(r) \/ FetchBreaks(r)
  <2>1. /\ clone'[r] = clone[r] /\ work'[r] = work[r] /\ branch' = branch
        /\ pc'[r] \notin {"commit", "push", "rebuild"} /\ pc[r] # "queued"
    BY <1>5 DEF TypeOK, SkipGenerate, SkipScript, NothingToPublish, FetchBreaks,
                Advance, runner
  <2>2. Repeats(r)'
    BY <1>1, <2>1 DEF Repeats
  <2>. QED
    BY <1>2, <2>1, <2>2, StandsStill
<1>6. CASE KeepCopy(r)
  <2>1. /\ clone'[r] = clone[r] /\ work'[r] = work[r] /\ branch' = branch
        /\ keep'[r] = Overlay(NoFiles, work[r], CurrentStep(r).path)
        /\ pc[r] # "queued"
    BY <1>6 DEF TypeOK, KeepCopy
  <2>2. Repeats(r)'
    BY <2>1 DEF Repeats, Overlay, NoFiles
  <2>. QED
    BY <1>2, <2>1, <2>2, StandsStill
<1>7. CASE Push(r)
  <2>1. /\ clone'[r] = clone[r] /\ work'[r] = work[r] /\ branch' = clone[r]
        /\ pc'[r] \notin {"commit", "push", "rebuild"} /\ pc[r] # "queued"
    BY <1>7 DEF TypeOK, Push, Advance
  <2>2. Repeats(r)'
    BY <1>1, <2>1 DEF Repeats
  <2>. QED
    BY <1>2, <2>1, <2>2, StandsStill
<1>8. CASE PushRejected(r) \/ PushBreaks(r)
  <2>1. /\ clone'[r] = clone[r] /\ work'[r] = work[r] /\ keep'[r] = keep[r]
        /\ branch' = branch \/ branch' = clone[r]
        /\ pc[r] = "push"
    BY <1>8 DEF PushRejected, PushBreaks, runner
  <2>2. InOrder(r)
    BY <1>2, <2>1
  <2>3. Repeats(r)'
    BY <2>1, <2>2 DEF InOrder, Repeats, InScript
  <2>. QED
    BY <2>1, <2>2, <2>3, StandsStill
<1>9. CASE CommitPath(r)
  <2>. DEFINE next == [tree |-> Overlay(HeadTree(r), work[r], CurrentStep(r).path),
                       by |-> r]
  <2>1. /\ work'[r] = work[r] /\ keep'[r] = keep[r] /\ branch' = branch
        /\ pc[r] = "commit" /\ pc'[r] = "push"
        /\ clone'[r] = Append(clone[r], next) \/ clone'[r] = clone[r]
    BY <1>9 DEF TypeOK, CommitPath
  <2>2. InOrder(r)
    BY <1>2, <2>1
  <2>3. Repeats(r)'
    BY <2>1, <2>2 DEF InOrder, Repeats, InScript
  <2>4. CASE clone'[r] = clone[r]
    BY <2>1, <2>2, <2>3, <2>4, StandsStill
  <2>5. CASE clone'[r] = Append(clone[r], next)
    <3>1. next \in Commit
      BY OverlayTree, TopTree DEF TypeOK, Commit, HeadTree
    <3>2. \A f \in Files : next.tree[f] =
            IF f \in CurrentStep(r).path THEN work[r][f] ELSE HeadTree(r)[f]
      BY DEF Overlay
    <3>. HIDE DEF next
    <3>3. HeadTree(r)' = next.tree
      BY <1>1, <2>5, <3>1 DEF TypeOK, Top
    <3>4. \A f \in Reach(r) \cap OwnFiles : HeadTree(r)[f] <= work[r][f] /\ Top(branch)[f] <= work[r][f]
      BY <2>2 DEF InOrder, NeverBehind
    <3>5. ASSUME NEW f \in OwnFiles
          PROVE  /\ HeadTree(r)[f] <= next.tree[f]
                 /\ f \in Reach(r) => next.tree[f] <= work[r][f]
                 /\ f \notin Outputs[r] => next.tree[f] = HeadTree(r)[f]
      <4>1. CASE f \in CurrentStep(r).path
        BY <2>2, <3>2, <3>4, <4>1, OutputsOfStep, NumbersOfFiles, OwnFilesAreFiles
        DEF InOrder, LeavesOthers
      <4>2. CASE f \notin CurrentStep(r).path
        BY <3>2, <3>4, <4>2, NumbersOfFiles, OwnFilesAreFiles
      <4>. QED
        BY <4>1, <4>2
    <3>6. NeverBehind(r)'
      BY <2>1, <3>3, <3>4, <3>5, ReachIsConstant, OutputsOfStep DEF NeverBehind
    <3>7. LeavesOthers(r)'
      BY <2>1, <2>2, <3>3, <3>5, ReachIsConstant DEF InOrder, LeavesOthers
    <3>8. Ordered(clone'[r])
      BY <2>2, <2>5, <3>1, <3>5, OrderedAppend DEF InOrder, TypeOK, HeadTree
    <3>9. Forks(r, clone'[r], branch)
      BY <2>2, <2>5, <3>1, <3>5, ForksAppend DEF InOrder, TypeOK, HeadTree
    <3>. QED
      BY <2>1, <2>3, <3>6, <3>7, <3>8, <3>9, ReachIsConstant DEF InOrder, Forks, Ordered
  <2>. QED
    BY <2>1, <2>4, <2>5
<1>a. CASE Rebuild(r)
  <2>1. /\ pc[r] = "rebuild" /\ branch' = branch /\ clone'[r] = branch
        /\ work'[r] = Unpack(ResetTree(r), keep[r])
        /\ \/ pc'[r] = "commit" /\ keep'[r] = keep[r]
           \/ pc'[r] \notin {"commit", "push", "rebuild"}
    BY <1>a DEF TypeOK, Rebuild, RebuildUpTo, Advance
  <2>2. InOrder(r) /\ HeadTree(r)' = Top(branch)
    BY <1>1, <1>2, <2>1
  <2>3. \A f \in Files : work'[r][f] =
          IF keep[r][f] # 0 THEN keep[r][f]
          ELSE IF HeadTree(r)[f] # 0 \/ Top(branch)[f] # 0 THEN Top(branch)[f]
          ELSE work[r][f]
    BY <2>1 DEF Unpack, ResetTree
  <2>4. \A f \in Files : keep[r][f] # 0 => keep[r][f] = work[r][f] /\ f \in Reach(r)
    BY <2>1, <2>2, OutputsOfStep DEF InOrder, Repeats, Tidy, OnlyThePath, InScript
  <2>5. \A f \in Reach(r) \cap OwnFiles : Top(branch)[f] <= work[r][f]
    BY <2>2 DEF InOrder, NeverBehind
  <2>6. NeverBehind(r)'
    BY <2>1, <2>2, <2>3, <2>4, <2>5, ReachIsConstant, OutputsOfStep, NumbersOfFiles
    DEF NeverBehind
  <2>7. LeavesOthers(r)'
    <3>1. ASSUME NEW f \in OwnFiles \ Outputs[r]
          PROVE  work'[r][f] = Top(branch)[f]
      BY <2>2, <2>3, <2>4, OwnFilesAreFiles DEF InOrder, LeavesOthers
    <3>. QED
      BY <2>1, <2>2, <3>1, ReachIsConstant DEF LeavesOthers
  <2>8. Repeats(r)'
    BY <1>1, <2>1, <2>3 DEF Repeats
  <2>9. Ordered(clone[r])'
    BY <2>1 DEF StoreInv, Ordered
  <2>10. Forks(r, clone'[r], branch')
    BY <2>1, ForksSelf DEF TypeOK
  <2>. QED
    BY <2>6, <2>7, <2>8, <2>9, <2>10, ReachIsConstant DEF InOrder, Forks
<1>b. CASE RunnerDies(r)
  BY <1>b DEF TypeOK, RunnerDies, Going
<1>. QED
  BY <1>3, <1>4, <1>5, <1>6, <1>7, <1>8, <1>9, <1>a, <1>b DEF Work, Fault
LEMMA StoreInit == Init => StoreInv
<1>. SUFFICES ASSUME Init PROVE StoreInv
  OBVIOUS
<1>1. /\ Len(branch) = 1
      /\ \A f \in Files : branch[1].tree[f] = gen[f] /\ gen[f] \in {0, 1}
  BY DEF Init
<1>2. Ordered(branch)
  BY <1>1, OwnFilesAreFiles DEF Ordered
<1>3. \A f \in Files : Top(branch)[f] = gen[f]
  BY <1>1 DEF Top
<1>4. Counted
  <2>1. \A r \in Runs : HeadTree(r) = Top(branch) /\ work[r] = NoFiles
    BY DEF Init, HeadTree
  <2>2. \A f \in Files : Top(branch)[f] <= gen[f] /\ NoFiles[f] <= gen[f]
    BY <1>1, <1>3 DEF NoFiles
  <2>. QED
    BY <2>1, <2>2 DEF Counted
<1>5. \A r \in Runs : pc[r] \notin Going
  BY DEF Init, Going
<1>. QED
  BY <1>2, <1>4, <1>5 DEF StoreInv, OneOfAGroup

(* Only a checkout sets a job going, and one of its group at a time.       *)
LEMMA OneGoes ==
  ASSUME TypeOK, StoreInv, [Next]_vars
  PROVE  OneOfAGroup'
<1>1. ASSUME NEW r \in Runs, pc'[r] \in Going
      PROVE  pc[r] \in Going \/ Checkout(r)
  <2>1. CASE ~Work(r) /\ ~Fault(r)
    BY <1>1, <2>1, OthersLeaveAlone
  <2>2. CASE Work(r) \/ Fault(r)
    BY <2>2 DEF Going, Work, Fault, Generate, SkipGenerate, SkipScript,
       NothingToPublish, KeepCopy, CommitPath, Push, PushRejected, PushBreaks,
       Rebuild, RebuildUpTo, FetchBreaks, RunnerDies, TypeOK, Location
  <2>. QED
    BY <2>1, <2>2
<1>2. ASSUME NEW r \in Runs, NEW q \in Runs, Checkout(r), q # r, Group[q] = Group[r]
      PROVE  pc'[q] \notin Going
  BY <1>2 DEF Checkout, Going, TypeOK
<1>3. SUFFICES ASSUME NEW r \in Runs, NEW q \in Runs, pc'[r] \in Going, pc'[q] \in Going,
                      Group[q] = Group[r], q # r
               PROVE  FALSE
  BY DEF OneOfAGroup, Going
<1>4. pc[r] \in Going /\ pc[q] \in Going
  BY <1>1, <1>2, <1>3
<1>. QED
  BY <1>3, <1>4 DEF StoreInv, OneOfAGroup

(* No step puts into a tree what nobody has made.                          *)
LEMMA StaysCounted ==
  ASSUME TypeOK, TypeOK', StoreInv, NothingGetsLost, [Next]_vars
  PROVE  Counted'
<1>1. Counted
  BY DEF StoreInv
<1>2. \A f \in Files : Top(branch')[f] = Top(branch)[f]
                       \/ \E q \in Runs : Top(branch')[f] = HeadTree(q)[f]
  BY MainChanges DEF HeadTree
<1>3. ASSUME NEW r \in Runs, Generate(r)
      PROVE  Counted'
  <2>1. PICK written \in SUBSET CurrentStep(r).writes :
          /\ work' = [work EXCEPT ![r] = Overlay(work[r], [f \in Files |-> NewContent(f)], written)]
          /\ gen' = Overlay(gen, [f \in Files |-> NewContent(f)], written)
    BY <1>3 DEF Generate
  <2>2. branch' = branch /\ clone' = clone
    BY <1>3 DEF Generate
  <2>3. ASSUME NEW f \in Files
        PROVE  /\ Top(branch)[f] <= gen'[f]
               /\ \A q \in Runs : HeadTree(q)[f] <= gen'[f] /\ work'[q][f] <= gen'[f]
    <3>1. CASE f \notin written
      <4>1. gen'[f] = gen[f] /\ \A q \in Runs : work'[q][f] = work[q][f]
        BY <2>1, <3>1 DEF Overlay, TypeOK
      <4>. QED
        BY <1>1, <4>1 DEF Counted
    <3>2. CASE f \in written
      <4>1. /\ gen'[f] = NewContent(f)
            /\ \A q \in Runs : work'[q][f] = work[q][f] \/ work'[q][f] = NewContent(f)
        BY <2>1, <3>2 DEF Overlay, TypeOK
      <4>2. NewContent(f) \in Nat
        BY NumbersOfFiles DEF NewContent
      <4>3. /\ Top(branch)[f] <= NewContent(f)
            /\ \A q \in Runs : HeadTree(q)[f] <= NewContent(f) /\ work[q][f] <= NewContent(f)
        <5>1. CASE f \in Sealed
          BY <5>1 DEF NewContent, NothingGetsLost, MainSealedOnce, Tidy, SealedOnce
        <5>2. CASE f \notin Sealed
          BY <1>1, <5>2, NumbersOfFiles DEF NewContent, Counted
        <5>. QED
          BY <5>1, <5>2
      <4>. QED
        BY <4>1, <4>2, <4>3
    <3>. QED
      BY <3>1, <3>2
  <2>. QED
    BY <2>2, <2>3 DEF Counted, HeadTree
<1>4. ASSUME ~\E r \in Runs : Generate(r)
      PROVE  Counted'
  <2>1. gen' = gen
    BY <1>4 DEF Next, Work, Fault, vars, runner, Merge, Checkout, SkipGenerate, SkipScript,
       NothingToPublish, KeepCopy, CommitPath, Push, PushRejected, PushBreaks,
       Rebuild, RebuildUpTo, FetchBreaks, RunnerDies
  <2>2. ASSUME NEW r \in Runs, NEW f \in Files
        PROVE  HeadTree(r)'[f] <= gen[f] /\ work'[r][f] <= gen[f]
    <3>1. /\ Top(branch)[f] <= gen[f] /\ HeadTree(r)[f] <= gen[f] /\ work[r][f] <= gen[f]
      BY <1>1 DEF Counted
    <3>2. HeadTree(r)' = Top(clone'[r])
      BY DEF HeadTree
    <3>3. CASE clone'[r] = clone[r] /\ work'[r] = work[r]
      BY <3>1, <3>2, <3>3 DEF HeadTree
    <3>4. CASE Checkout(r)
      BY <3>1, <3>2, <3>4 DEF Checkout, TypeOK
    <3>5. CASE CommitPath(r)
      <4>. DEFINE next == [tree |-> Overlay(HeadTree(r), work[r], CurrentStep(r).path),
                           by |-> r]
      <4>1. work'[r] = work[r] /\ (clone'[r] = Append(clone[r], next) \/ clone'[r] = clone[r])
        BY <3>5 DEF TypeOK, CommitPath
      <4>2. next \in Commit
        BY OverlayTree, TopTree DEF TypeOK, Commit, HeadTree
      <4>3. next.tree[f] = HeadTree(r)[f] \/ next.tree[f] = work[r][f]
        BY DEF Overlay
      <4>. HIDE DEF next
      <4>4. Top(Append(clone[r], next)) = next.tree
        BY <4>2 DEF TypeOK, Top
      <4>. QED
        BY <3>1, <3>2, <4>1, <4>3, <4>4 DEF HeadTree
    <3>6. CASE Rebuild(r)
      <4>1. /\ clone'[r] = branch /\ work'[r] = Unpack(ResetTree(r), keep[r])
            /\ pc[r] = "rebuild"
        BY <3>6 DEF TypeOK, Rebuild, RebuildUpTo
      <4>2. Repeats(r)
        BY <4>1 DEF StoreInv, InOrder, Going
      <4>3. work'[r][f] \in {Top(branch)[f], work[r][f]}
        BY <4>1, <4>2 DEF Repeats, InScript, Unpack, ResetTree
      <4>. QED
        BY <3>1, <3>2, <4>1, <4>3
    <3>7. CASE ~Work(r) /\ ~Fault(r)
      BY <3>3, <3>7, OthersLeaveAlone
    <3>8. CASE SkipGenerate(r) \/ SkipScript(r) \/ NothingToPublish(r) \/ KeepCopy(r)
               \/ Push(r) \/ PushRejected(r) \/ Fault(r)
      BY <3>3, <3>8 DEF SkipGenerate, SkipScript, NothingToPublish, KeepCopy, Push,
         PushRejected, Fault, PushBreaks, FetchBreaks, RunnerDies, runner
    <3>. QED
      BY <1>4, <3>4, <3>5, <3>6, <3>7, <3>8 DEF Work
  <2>3. \A f \in Files : Top(branch')[f] <= gen[f]
    BY <1>1, <1>2 DEF Counted
  <2>. QED
    BY <2>1, <2>2, <2>3 DEF Counted
<1>. QED
  BY <1>3, <1>4

LEMMA StoreNext ==
  ASSUME TypeOK, TypeOK', StoreInv, NothingGetsLost, [Next]_vars
  PROVE  StoreInv'
<1>1. ASSUME NEW r \in Runs, pc'[r] \in Going
      PROVE  InOrder(r)'
  <2>1. CASE Work(r) \/ Fault(r)
    BY <1>1, <2>1, StaysInOrder DEF NothingGetsLost
  <2>2. CASE ~Work(r) /\ ~Fault(r)
    BY <1>1, <2>2, OthersKeepOff, OthersLeaveAlone
  <2>. QED
    BY <2>1, <2>2
<1>2. Ordered(branch')
  <2>1. CASE branch' = branch
    BY <2>1 DEF StoreInv
  <2>2. CASE Merge
    <3>. DEFINE commit == [tree |-> Top(branch), by |-> Owner]
    <3>1. branch' = Append(branch, commit) /\ commit \in Commit
      BY <2>2, TopTree DEF Merge, TypeOK, Commit
    <3>2. \A f \in Files : Top(branch)[f] <= commit.tree[f]
      <4>1. Top(branch) \in Tree
        BY TopTree DEF TypeOK
      <4>. QED
        BY <4>1 DEF Tree
    <3>. HIDE DEF commit
    <3>. QED
      BY <3>1, <3>2, OrderedAppend, OwnFilesAreFiles DEF StoreInv, TypeOK
  <2>3. ASSUME NEW q \in Runs, Push(q) \/ PushBreaks(q), branch' # branch
        PROVE  Ordered(branch')
    <3>1. branch' = clone[q] /\ pc[q] \in Going
      BY <2>3 DEF Push, PushBreaks, Going
    <3>. QED
      BY <3>1 DEF StoreInv, InOrder
  <2>4. branch' = branch \/ Merge \/ \E q \in Runs : Push(q) \/ PushBreaks(q)
    BY DEF Next, Work, Fault, vars, Checkout, Generate, SkipGenerate, SkipScript,
           NothingToPublish, KeepCopy, CommitPath, PushRejected, Rebuild,
           RebuildUpTo, FetchBreaks, RunnerDies
  <2>. QED
    BY <2>1, <2>2, <2>3, <2>4
<1>3. Counted' /\ OneOfAGroup'
  BY StaysCounted, OneGoes
<1>4. \A r \in Runs : (pc[r] \in Going)' => InOrder(r)'
  BY <1>1 DEF Going
<1>. QED
  BY <1>2, <1>3, <1>4 DEF StoreInv, Ordered

(* In the files that jobs of one concurrency group alone publish, main is  *)
(* a store whose files are replaced by newer generations only, and only by *)
(* the job that generates them, whatever paths the other jobs share.       *)
THEOREM MainIsAStore == Spec => ImplementsStore
<1>. DEFINE store == [f \in OwnFiles |-> Top(branch)[f]]
<1>1. Init => Store!Init
  <2>. SUFFICES ASSUME Init PROVE store \in [OwnFiles -> Nat]
    BY DEF Store!Init
  <2>. QED
    BY InitType, TopTree, OwnFilesAreFiles DEF TypeOK, Tree
<1>2. ASSUME TypeOK, TypeOK', StoreInv, [Next]_vars
      PROVE  [Store!Next]_store
  <2>. SUFFICES ASSUME store' # store
                PROVE  \E q \in Runs : Store!Publish(q)
    BY DEF Store!Next
  <2>1. store' = [f \in OwnFiles |-> Top(branch')[f]]
    BY OwnFilesAreFiles DEF Top
  <2>2. PICK q \in Runs : /\ pc[q] = "push" /\ branch' = clone[q]
                          /\ IsAncestor(branch, clone[q])
    BY <1>2, <2>1, MainChanges
  <2>3. InOrder(q)
    BY <1>2, <2>2 DEF StoreInv, Going
  <2>4. store \in [OwnFiles -> Nat] /\ store' \in [OwnFiles -> Nat]
    <3>1. Top(branch) \in Tree /\ Top(branch') \in Tree
      BY <1>2, TopTree DEF TypeOK
    <3>. QED
      BY <2>1, <3>1, OwnFilesAreFiles DEF Tree
  <2>5. \A f \in OwnFiles : /\ store[f] <= store'[f]
                            /\ f \notin Outputs[q] => store[f] = store'[f]
    BY <1>2, <2>1, <2>2, <2>3, PushReplaces
  <2>. HIDE DEF store
  <2>. DEFINE newer == {f \in OwnFiles : store'[f] # store[f]}
  <2>6. newer # {}
    BY <2>4
  <2>7. /\ newer \in SUBSET (Outputs[q] \cap OwnFiles)
        /\ \A f \in newer : store'[f] > store[f]
    BY <2>4, <2>5
  <2>8. \A f \in OwnFiles \ newer : store'[f] = store[f]
    OBVIOUS
  <2>. HIDE DEF newer
  <2>9. Store!Publish(q)
    BY <2>4, <2>6, <2>7, <2>8 DEF Store!Publish, store
  <2>. QED
    BY <2>9
<1>3. Init => StoreInv
  BY StoreInit
<1>4. TypeOK /\ TypeOK' /\ StoreInv /\ NothingGetsLost /\ [Next]_vars => StoreInv'
  BY StoreNext
<1>5. TypeOK /\ TypeOK' /\ StoreInv /\ [Next]_vars => [Store!Next]_store
  BY <1>2
<1>. QED
  BY <1>1, <1>3, <1>4, <1>5, TypeCorrect, NothingIsLost, PTL
  DEF Spec, ImplementsStore, Store!Spec

-----------------------------------------------------------------------------
(* A job gives up only under contention                                    *)

(* The commits of others that landed after the script began, up to the     *)
(* n-th.                                                                   *)
ForeignUpTo(r, n) == {i \in began[r] + 1 .. n : branch[i].by # r}

(* HEAD left main at its m-th commit: what follows is the job's own here   *)
(* and that of others there.                                               *)
LeftAt(r, m) ==
  /\ m <= Len(clone[r])
  /\ \A i \in 1 .. m : clone[r][i] = branch[i]
  /\ \A i \in m + 1 .. Len(branch) : branch[i].by # r
  /\ \A i \in m + 1 .. Len(clone[r]) : clone[r][i].by = r

(* With the network up, each rejected attempt is due to a commit of        *)
(* others.                                                                 *)
Contends(r, m) ==
  /\ LeftAt(r, m)
  /\ pc[r] \in {"generate", "script"} => Len(clone[r]) = m
  /\ InScript(r) => /\ began[r] <= m
                    /\ Cardinality(ForeignUpTo(r, m)) >= attempt[r] - 1
  /\ pc[r] = "rebuild" => m < Len(branch)

Contended ==
  faults = 0 =>
    \A r \in Runs : pc[r] \in Going => \E m \in 1 .. Len(branch) : Contends(r, m)

LEMMA OneMore ==
  ASSUME TypeOK, NEW r \in Runs, NEW m \in 1 .. Len(branch), m < Len(branch),
         LeftAt(r, m), began[r] <= m
  PROVE  /\ Cardinality(ForeignUpTo(r, m)) \in Nat /\ Cardinality(ForeignSince(r)) \in Nat
         /\ Cardinality(ForeignSince(r)) >= Cardinality(ForeignUpTo(r, m)) + 1
<1>1. /\ Len(branch) \in Nat /\ began[r] \in Nat /\ m \in Nat
  BY DEF TypeOK
<1>2. branch[m + 1].by # r
  BY <1>1 DEF LeftAt
<1>3. IsFiniteSet(began[r] + 1 .. Len(branch)) /\ IsFiniteSet(began[r] + 1 .. m)
  <2>1. began[r] + 1 \in Int /\ Len(branch) \in Int /\ m \in Int
    BY <1>1
  <2>. QED
    BY <2>1, FS_Interval
<1>4. IsFiniteSet(ForeignSince(r)) /\ IsFiniteSet(ForeignUpTo(r, m))
  BY <1>3, FS_Subset DEF ForeignSince, ForeignUpTo
<1>5. m + 1 \notin ForeignUpTo(r, m)
  BY <1>1 DEF ForeignUpTo
<1>6. ForeignUpTo(r, m) \cup {m + 1} \subseteq ForeignSince(r)
  BY <1>1, <1>2 DEF ForeignUpTo, ForeignSince
<1>7. /\ Cardinality(ForeignUpTo(r, m) \cup {m + 1}) = Cardinality(ForeignUpTo(r, m)) + 1
      /\ IsFiniteSet(ForeignUpTo(r, m) \cup {m + 1})
  BY <1>4, <1>5, FS_AddElement
<1>8. /\ Cardinality(ForeignUpTo(r, m) \cup {m + 1}) <= Cardinality(ForeignSince(r))
  BY <1>4, <1>6, <1>7, FS_Subset
<1>9. Cardinality(ForeignSince(r)) \in Nat /\ Cardinality(ForeignUpTo(r, m)) \in Nat
  BY <1>4, FS_CardinalityType
<1>. QED
  BY <1>7, <1>8, <1>9

(* A rejected push has fallen behind main.                                 *)
LEMMA RejectedIsBehind ==
  ASSUME TypeOK, NEW r \in Runs, NEW m \in 1 .. Len(branch), LeftAt(r, m), ~Accepts(r)
  PROVE  m < Len(branch)
BY DEF LeftAt, Accepts, IsAncestor, TypeOK

(* Others only add commits of others to main.                              *)
LEMMA OthersContend ==
  ASSUME TypeOK, TypeOK', [Next]_vars, Contended, faults' = 0, NEW r \in Runs,
         pc[r] \in Going, ~Work(r), ~Fault(r)
  PROVE  \E m \in 1 .. Len(branch') : Contends(r, m)'
<1>1. faults = 0
  <2>1. faults' = faults \/ faults' = faults + 1
    BY DEF Next, Work, Fault, vars, runner, Merge, Checkout, Generate,
       SkipGenerate, SkipScript, NothingToPublish, KeepCopy, CommitPath, Push,
       PushRejected, PushBreaks, Rebuild, RebuildUpTo, FetchBreaks, RunnerDies
  <2>2. faults \in Nat
    BY ConstantsAssumption DEF TypeOK
  <2>. QED
    BY <2>1, <2>2
<1>2. PICK m \in 1 .. Len(branch) : Contends(r, m)
  BY <1>1 DEF Contended
<1>3. /\ Len(branch) \in Nat /\ Len(branch') \in Nat /\ Len(branch) <= Len(branch')
      /\ \A i \in 1 .. Len(branch) : branch'[i] = branch[i]
  <2>1. Len(branch) \in Nat /\ Len(branch') \in Nat
    BY DEF TypeOK
  <2>2. IsAncestor(branch, branch')
    BY BranchGrows
  <2>. QED
    BY <2>1, <2>2 DEF IsAncestor
<1>4. \A i \in Len(branch) + 1 .. Len(branch') : branch'[i].by # r
  <2>1. CASE branch' = branch
    BY <1>3, <2>1
  <2>2. CASE Merge
    <3>. DEFINE commit == [tree |-> Top(branch), by |-> Owner]
    <3>1. branch' = Append(branch, commit) /\ commit.by # r /\ commit \in Commit
      BY <2>2, ConstantsAssumption, TopTree DEF Merge, TypeOK, Commit
    <3>. HIDE DEF commit
    <3>2. Len(branch') = Len(branch) + 1 /\ branch'[Len(branch) + 1] = commit
      BY <3>1 DEF TypeOK
    <3>3. \A i \in Len(branch) + 1 .. Len(branch') : i = Len(branch) + 1
      BY <1>3, <3>2
    <3>. QED
      BY <3>1, <3>2, <3>3
  <2>3. ASSUME NEW q \in Runs, Push(q), branch' # branch
        PROVE  \A i \in Len(branch) + 1 .. Len(branch') : branch'[i].by # r
    <3>1. q # r /\ pc[q] \in Going /\ branch' = clone[q]
      BY <2>3 DEF Work, Push, Going
    <3>2. PICK k \in 1 .. Len(branch) : LeftAt(q, k)
      BY <1>1, <3>1 DEF Contended, Contends
    <3>3. \A i \in Len(branch) + 1 .. Len(branch') : i \in k + 1 .. Len(clone[q])
      BY <1>3, <3>1
    <3>. QED
      BY <3>1, <3>2, <3>3 DEF LeftAt
  <2>4. branch' = branch \/ Merge \/ \E q \in Runs : Push(q)
    <3>1. ~\E q \in Runs : PushBreaks(q)
      BY <1>1 DEF PushBreaks
    <3>. QED
      BY <3>1 DEF Next, Work, Fault, vars, Checkout, Generate, SkipGenerate,
         SkipScript, NothingToPublish, KeepCopy, CommitPath, PushRejected, Rebuild,
         RebuildUpTo, FetchBreaks, RunnerDies
  <2>. QED
    BY <2>1, <2>2, <2>3, <2>4
<1>5. /\ clone'[r] = clone[r] /\ pc'[r] = pc[r]
      /\ began'[r] = began[r] /\ attempt'[r] = attempt[r]
  BY OthersLeaveAlone
<1>6. LeftAt(r, m)'
  <2>1. m \in Nat /\ \A i \in m + 1 .. Len(branch') :
          i \in m + 1 .. Len(branch) \/ i \in Len(branch) + 1 .. Len(branch')
    BY <1>3
  <2>2. \A i \in m + 1 .. Len(branch') : branch'[i].by # r
    BY <1>2, <1>3, <1>4, <2>1 DEF Contends, LeftAt
  <2>. QED
    BY <1>2, <1>3, <1>5, <2>2 DEF Contends, LeftAt
<1>7. InScript(r) => ForeignUpTo(r, m)' = ForeignUpTo(r, m)
  <2>1. \A i \in began[r] + 1 .. m : i \in 1 .. Len(branch)
    BY <1>3 DEF TypeOK
  <2>2. \A i \in began[r] + 1 .. m : branch'[i] = branch[i]
    BY <1>3, <2>1
  <2>. QED
    BY <1>5, <2>2 DEF ForeignUpTo
<1>8. m \in 1 .. Len(branch') /\ (m < Len(branch) => m < Len(branch'))
  BY <1>3
<1>9. Contends(r, m)'
  BY <1>2, <1>5, <1>6, <1>7, <1>8 DEF Contends, InScript
<1>. QED
  BY <1>8, <1>9
(* A job's own steps, while the network is up.                             *)
LEMMA StaysContended ==
  ASSUME TypeOK, TypeOK', Contended, faults = 0, faults' = 0, NEW r \in Runs,
         Work(r) \/ Fault(r), pc'[r] \in Going
  PROVE  \E m \in 1 .. Len(branch') : Contends(r, m)'
<1>1. pc[r] # "queued" => pc[r] \in Going
  BY DEF Going, TypeOK, Location, Work, Fault, Checkout, Generate,
     SkipGenerate, SkipScript, NothingToPublish, KeepCopy, CommitPath, Push,
     PushRejected, PushBreaks, Rebuild, RebuildUpTo, FetchBreaks, RunnerDies
<1>2. pc[r] # "queued" => \E m \in 1 .. Len(branch) : Contends(r, m)
  BY <1>1 DEF Contended
<1>3. /\ Len(branch) \in Nat /\ Len(branch') \in Nat /\ Len(branch) > 0
      /\ Len(branch') > 0 /\ Len(clone[r]) \in Nat
  BY DEF TypeOK
<1>4. ASSUME clone'[r] = branch', pc'[r] \in {"generate", "script"}
      PROVE  Contends(r, Len(branch))'
  BY <1>3, <1>4 DEF Contends, LeftAt, InScript
<1>5. CASE Checkout(r)
  <2>1. clone'[r] = branch' /\ pc'[r] = "generate"
    BY <1>5 DEF TypeOK, Checkout
  <2>. QED
    BY <1>3, <1>4, <2>1
<1>6. CASE Push(r)
  <2>1. clone'[r] = branch' /\ pc'[r] = "generate"
    BY <1>6 DEF TypeOK, Push, Advance, Going
  <2>. QED
    BY <1>3, <1>4, <2>1
<1>7. CASE Generate(r) \/ SkipGenerate(r) \/ SkipScript(r) \/ NothingToPublish(r)
  <2>1. /\ clone'[r] = clone[r] /\ branch' = branch
        /\ pc[r] \in {"generate", "script"} /\ pc'[r] \in {"generate", "script"}
    BY <1>7 DEF TypeOK, Generate, SkipGenerate, SkipScript, NothingToPublish, Advance,
                runner, Going
  <2>2. PICK m \in 1 .. Len(branch) : Contends(r, m)
    BY <1>2, <2>1
  <2>3. Contends(r, m)'
    BY <2>1, <2>2 DEF Contends, LeftAt, InScript
  <2>. QED
    BY <2>1, <2>3
<1>8. CASE KeepCopy(r)
  <2>1. /\ clone'[r] = clone[r] /\ branch' = branch /\ pc[r] = "script"
        /\ pc'[r] = "commit" /\ began'[r] = Len(clone[r]) /\ attempt'[r] = 1
    BY <1>8 DEF TypeOK, KeepCopy
  <2>2. PICK m \in 1 .. Len(branch) : Contends(r, m)
    BY <1>2, <2>1
  <2>3. Len(clone[r]) = m /\ LeftAt(r, m)'
    BY <2>1, <2>2 DEF Contends, LeftAt
  <2>4. ForeignUpTo(r, m)' = {}
    BY <1>3, <2>1, <2>3 DEF ForeignUpTo
  <2>5. Cardinality(ForeignUpTo(r, m)') >= attempt'[r] - 1
    BY <2>1, <2>4, FS_EmptySet
  <2>6. Contends(r, m)'
    BY <1>3, <2>1, <2>3, <2>5 DEF Contends, InScript
  <2>. QED
    BY <2>1, <2>6
<1>9. CASE CommitPath(r)
  <2>1. /\ \/ clone'[r] = clone[r]
           \/ \E next \in [tree : {Overlay(HeadTree(r), work[r], CurrentStep(r).path)},
                           by : {r}] : clone'[r] = Append(clone[r], next)
        /\ branch' = branch /\ pc[r] = "commit" /\ pc'[r] = "push"
        /\ began'[r] = began[r] /\ attempt'[r] = attempt[r]
    BY <1>9 DEF TypeOK, CommitPath
  <2>2. PICK m \in 1 .. Len(branch) : Contends(r, m)
    BY <1>2, <2>1
  <2>3. ForeignUpTo(r, m)' = ForeignUpTo(r, m)
    BY <2>1 DEF ForeignUpTo
  <2>4. LeftAt(r, m)'
    <3>1. CASE clone'[r] = clone[r]
      BY <2>1, <2>2, <3>1 DEF Contends, LeftAt
    <3>2. ASSUME NEW next, next.by = r, clone'[r] = Append(clone[r], next), next \in Commit
          PROVE  LeftAt(r, m)'
      <4>1. /\ Len(clone'[r]) = Len(clone[r]) + 1
            /\ \A i \in 1 .. Len(clone[r]) : clone'[r][i] = clone[r][i]
            /\ clone'[r][Len(clone[r]) + 1] = next
        BY <3>2 DEF TypeOK
      <4>2. /\ m \in 1 .. Len(clone[r])
            /\ \A i \in m + 1 .. Len(clone'[r]) :
                 i \in m + 1 .. Len(clone[r]) \/ i = Len(clone[r]) + 1
        BY <1>3, <2>2, <4>1 DEF Contends, LeftAt
      <4>3. \A i \in m + 1 .. Len(clone'[r]) : clone'[r][i].by = r
        BY <2>2, <3>2, <4>1, <4>2 DEF Contends, LeftAt
      <4>4. m <= Len(clone'[r]) /\ \A i \in 1 .. m : clone'[r][i] = branch[i]
        BY <1>3, <2>2, <4>1, <4>2 DEF Contends, LeftAt
      <4>5. \A i \in m + 1 .. Len(branch) : branch[i].by # r
        BY <2>2 DEF Contends, LeftAt
      <4>. QED
        BY <2>1, <4>3, <4>4, <4>5 DEF LeftAt
    <3>3. \A next \in [tree : {Overlay(HeadTree(r), work[r], CurrentStep(r).path)},
                       by : {r}] : next.by = r /\ next \in Commit
      <4>1. Overlay(HeadTree(r), work[r], CurrentStep(r).path) \in Tree
        BY OverlayTree, TopTree DEF TypeOK, HeadTree
      <4>. QED
        BY <4>1 DEF Commit
    <3>. QED
      BY <2>1, <3>1, <3>2, <3>3
  <2>5. Contends(r, m)'
    BY <2>1, <2>2, <2>3, <2>4 DEF Contends, InScript
  <2>. QED
    BY <2>1, <2>5
<1>a. CASE PushRejected(r)
  <2>1. /\ clone'[r] = clone[r] /\ branch' = branch /\ pc[r] = "push"
        /\ pc'[r] = "rebuild" /\ began'[r] = began[r] /\ attempt'[r] = attempt[r]
        /\ ~Accepts(r)
    BY <1>a DEF TypeOK, PushRejected, runner
  <2>2. PICK m \in 1 .. Len(branch) : Contends(r, m)
    BY <1>2, <2>1
  <2>3. m < Len(branch)
    BY <2>1, <2>2, RejectedIsBehind DEF Contends
  <2>4. ForeignUpTo(r, m)' = ForeignUpTo(r, m) /\ LeftAt(r, m)'
    BY <2>1, <2>2 DEF ForeignUpTo, Contends, LeftAt
  <2>5. Contends(r, m)'
    BY <2>1, <2>2, <2>3, <2>4 DEF Contends, InScript
  <2>. QED
    BY <2>1, <2>5
<1>b. CASE Rebuild(r)
  <2>1. pc[r] = "rebuild" /\ clone'[r] = branch' /\ branch' = branch
    BY <1>b DEF TypeOK, Rebuild, RebuildUpTo
  <2>2. CASE attempt[r] < Attempts
    <3>1. /\ began'[r] = began[r] /\ attempt'[r] = attempt[r] + 1
          /\ pc'[r] = "commit" /\ attempt[r] \in Nat
      BY <1>b, <2>2 DEF TypeOK, Rebuild, RebuildUpTo
    <3>2. PICK m \in 1 .. Len(branch) : Contends(r, m)
      BY <1>2, <2>1
    <3>3. began[r] <= m /\ Cardinality(ForeignUpTo(r, m)) >= attempt[r] - 1 /\ m < Len(branch)
      BY <2>1, <3>2 DEF Contends, InScript
    <3>4. Cardinality(ForeignSince(r)) >= attempt[r]
      <4>1. /\ Cardinality(ForeignUpTo(r, m)) \in Nat /\ Cardinality(ForeignSince(r)) \in Nat
            /\ Cardinality(ForeignSince(r)) >= Cardinality(ForeignUpTo(r, m)) + 1
        BY <3>2, <3>3, OneMore DEF Contends
      <4>. QED
        BY <3>1, <3>3, <4>1
    <3>5. ForeignUpTo(r, Len(branch))' = ForeignSince(r)
      BY <2>1, <3>1 DEF ForeignUpTo, ForeignSince
    <3>6. LeftAt(r, Len(branch))'
      BY <1>3, <2>1 DEF LeftAt
    <3>7. began[r] <= Len(branch)
      BY <1>3, <3>2, <3>3 DEF TypeOK
    <3>8. Cardinality(ForeignUpTo(r, Len(branch))') >= attempt'[r] - 1
      BY <3>1, <3>4, <3>5
    <3>9. Contends(r, Len(branch))'
      BY <2>1, <3>1, <3>6, <3>7, <3>8 DEF Contends, InScript
    <3>. QED
      BY <1>3, <3>9
  <2>3. CASE ~(attempt[r] < Attempts)
    <3>1. pc'[r] = "generate"
      BY <1>b, <2>3 DEF TypeOK, Rebuild, RebuildUpTo, Advance, Going
    <3>. QED
      BY <1>3, <1>4, <2>1, <3>1
  <2>. QED
    BY <2>2, <2>3
<1>c. CASE Fault(r)
  BY <1>c DEF Fault, PushBreaks, FetchBreaks, RunnerDies
<1>. QED
  BY <1>5, <1>6, <1>7, <1>8, <1>9, <1>a, <1>b, <1>c DEF Work

(* With the network up, a job gives up a path only after as many commits   *)
(* of others as there are attempts, whatever the number of attempts.       *)
THEOREM LosesOnlyRaces == Spec => GivesUpOnlyUnderContention
<1>1. Init => Contended
  BY DEF Init, Contended, Going
<1>2. ASSUME TypeOK, [Next]_vars, faults' = 0
      PROVE  faults = 0
  <2>1. faults' = faults \/ faults' = faults + 1
    BY <1>2 DEF Next, Work, Fault, vars, runner, Merge, Checkout, Generate,
       SkipGenerate, SkipScript, NothingToPublish, KeepCopy, CommitPath, Push,
       PushRejected, PushBreaks, Rebuild, RebuildUpTo, FetchBreaks, RunnerDies
  <2>2. faults \in Nat
    BY <1>2, ConstantsAssumption DEF TypeOK
  <2>. QED
    BY <1>2, <2>1, <2>2
<1>3. TypeOK /\ TypeOK' /\ Contended /\ [Next]_vars => Contended'
  <2>. SUFFICES ASSUME TypeOK, TypeOK', Contended, [Next]_vars, faults' = 0,
                       NEW r \in Runs, pc'[r] \in Going
                PROVE  \E m \in 1 .. Len(branch') : Contends(r, m)'
    BY DEF Contended, Going
  <2>1. CASE Work(r) \/ Fault(r)
    BY <1>2, <2>1, StaysContended
  <2>2. CASE ~Work(r) /\ ~Fault(r)
    BY <2>2, OthersContend, OthersLeaveAlone
  <2>. QED
    BY <2>1, <2>2
<1>4. ASSUME TypeOK, TypeOK', Contended, [Next]_vars, NEW r \in Runs,
             pc[r] = "rebuild", pc'[r] \in {"generate", "done"}, faults' = 0
      PROVE  Cardinality(ForeignSince(r)) >= Attempts
  <2>1. faults = 0
    BY <1>2, <1>4
  <2>2. PICK m \in 1 .. Len(branch) : Contends(r, m)
    BY <1>4, <2>1 DEF Contended, Going
  <2>3. began[r] <= m /\ Cardinality(ForeignUpTo(r, m)) >= attempt[r] - 1 /\ m < Len(branch)
    BY <1>4, <2>2 DEF Contends, InScript
  <2>4. /\ Cardinality(ForeignUpTo(r, m)) \in Nat /\ Cardinality(ForeignSince(r)) \in Nat
        /\ Cardinality(ForeignSince(r)) >= Cardinality(ForeignUpTo(r, m)) + 1
    BY <1>4, <2>2, <2>3, OneMore DEF Contends
  <2>5. Rebuild(r)
    <3>1. Work(r) \/ Fault(r)
      BY <1>4, OthersLeaveAlone
    <3>. QED
      BY <1>4, <2>1, <3>1 DEF Work, Fault, Checkout, Generate, SkipGenerate,
         SkipScript, NothingToPublish, KeepCopy, CommitPath, Push, PushRejected,
         PushBreaks, FetchBreaks, RunnerDies
  <2>6. ~(attempt[r] < Attempts)
    BY <1>4, <2>5 DEF TypeOK, Rebuild, RebuildUpTo
  <2>7. attempt[r] \in Nat /\ Attempts \in Nat
    BY <1>4, ConstantsAssumption DEF TypeOK
  <2>. QED
    BY <2>3, <2>4, <2>6, <2>7
<1>5. TypeOK /\ TypeOK' /\ Contended /\ [Next]_vars
        => [\A r \in Runs :
              /\ pc[r] = "rebuild" /\ pc'[r] \in {"generate", "done"}
              /\ faults' = 0
              => Cardinality(ForeignSince(r)) >= Attempts]_vars
  BY <1>4
<1>. QED
  BY <1>1, <1>3, <1>5, TypeCorrect, PTL DEF Spec, GivesUpOnlyUnderContention
=============================================================================
