-------------------------- MODULE PublishGenerated --------------------------
(***************************************************************************)
(* scripts/commit_generated.sh, run by the jobs of .github/workflows.      *)
(*                                                                         *)
(* Every job checks the repository out on a runner of its own, runs        *)
(* scripts that rewrite files under registry/, and publishes one path      *)
(* after another with commit_generated.sh: tar the path, commit it, push;  *)
(* on a rejected push fetch, reset to the branch, unpack the tar over it   *)
(* and try again, three times in all.  Jobs of different workflows run at  *)
(* the same time and race for the branch.                                  *)
(*                                                                         *)
(* A file's content is the number of times it has been generated, 0 when   *)
(* the file is absent.  A history is the sequence of its commits.          *)
(***************************************************************************)
EXTENDS Naturals, Sequences, FiniteSets

CONSTANTS
  Runs,       \* the jobs, one element per execution
  Group,      \* Group[r]: the workflow's `concurrency` group
  Files,      \* the generated files under registry/
  Sealed,     \* the files named by the hash of their content (manifests)
  Present,    \* the files the branch holds at the start
  Steps,      \* Steps[r]: the job's steps, see StepType
  Owner,      \* whoever merges to main by hand
  Attempts,   \* `for attempt in 1 2 3`
  MaxMerges,  \* bound on merges by hand
  MaxFaults,  \* bound on network failures
  MaxTrouble  \* bound on both together

(* A step runs a script that may write the files in "writes" and then      *)
(* commit_generated.sh on "path".  "always" is the commit step's           *)
(* `if: always()`; "tolerant" the script step's `continue-on-error: true`; *)
(* "pins" says that the script calls repro.pin_current.                    *)
StepType ==
  [writes: SUBSET Files, path: SUBSET Files,
   always: BOOLEAN, tolerant: BOOLEAN, pins: BOOLEAN]

ASSUME ConstantsAssumption ==
  /\ Sealed \subseteq Files /\ Present \subseteq Files
  /\ Steps \in [Runs -> Seq(StepType)]
  /\ \A r \in Runs : Len(Steps[r]) > 0
  /\ Attempts \in Nat \ {0} /\ MaxMerges \in Nat /\ MaxFaults \in Nat
  /\ MaxTrouble \in Nat
  /\ Owner \notin Runs

(* The files that the first i steps of a job write and none of them        *)
(* publishes from then on.                                                 *)
LeftBehind(r, i) ==
  {f \in Files : \E k \in 1 .. i :
     f \in Steps[r][k].writes /\ \A j \in k .. i : f \notin Steps[r][j].path}

(* How the workflows order their steps: each writes only what its own      *)
(* commit publishes, but for sealed files, which a later step publishes,   *)
(* and not before a step that pins.                                        *)
ASSUME StepsAssumption ==
  \A r \in Runs :
    /\ LeftBehind(r, Len(Steps[r])) = {}
    /\ \A i \in 1 .. Len(Steps[r]) :
         /\ LeftBehind(r, i) \subseteq Sealed
         /\ Steps[r][i].pins => LeftBehind(r, i - 1) = {}

VARIABLES
  branch,    \* origin/main: the sequence of commits
  clone,     \* clone[r]: the history of the runner's HEAD
  work,      \* work[r]: the runner's work tree
  keep,      \* keep[r]: generated.tar, as a tree (absent outside the path)
  pc,        \* pc[r]: where the job is
  step,      \* step[r]: index into Steps[r]
  attempt,   \* attempt[r]: the loop variable of the script
  failed,    \* failed[r]: some step of the job has failed
  gen,       \* gen[f]: generations of f made so far, by anybody
  made,      \* made[r][f]: the generation of f this job made last, or 0
  began,     \* began[r]: length of HEAD's history when the script started
  merges, faults

vars == <<branch, clone, work, keep, pc, step, attempt, failed, gen, made,
          began, merges, faults>>

runner == <<clone, work, keep, step, attempt, failed, gen, made, began>>

Tree == [Files -> Nat]
Commit == [tree: Tree, by: Runs \cup {Owner}]
Location == {"queued", "generate", "script", "commit", "push", "rebuild",
             "done", "dead"}

NoFiles == [f \in Files |-> 0]
Top(history) == history[Len(history)].tree
HeadTree(r) == Top(clone[r])

(* `history` can be fast-forwarded to `other`.                             *)
IsAncestor(history, other) ==
  /\ Len(history) <= Len(other)
  /\ \A i \in 1 .. Len(history) : history[i] = other[i]

(* Mutant: `git diff --quiet`, which does not see untracked files.         *)
TrackedChanged(r, path) ==
  \E f \in path : HeadTree(r)[f] # 0 /\ work[r][f] # HeadTree(r)[f]

(* `git status --porcelain "$path"` prints something.                      *)
Changed(r, path) == \E f \in path : work[r][f] # HeadTree(r)[f]

(* What `tree` becomes when the files of `path` are taken from `other`.    *)
Overlay(tree, other, path) ==
  [f \in Files |-> IF f \in path THEN other[f] ELSE tree[f]]

CurrentStep(r) == Steps[r][step[r]]

-----------------------------------------------------------------------------

Init ==
  /\ branch = << [tree |-> [f \in Files |-> IF f \in Present THEN 1 ELSE 0],
                  by   |-> Owner] >>
  /\ clone = [r \in Runs |-> branch]
  /\ work = [r \in Runs |-> NoFiles]
  /\ keep = [r \in Runs |-> NoFiles]
  /\ pc = [r \in Runs |-> "queued"]
  /\ step = [r \in Runs |-> 1]
  /\ attempt = [r \in Runs |-> 1]
  /\ failed = [r \in Runs |-> FALSE]
  /\ gen = [f \in Files |-> IF f \in Present THEN 1 ELSE 0]
  /\ made = [r \in Runs |-> NoFiles]
  /\ began = [r \in Runs |-> 1]
  /\ merges = 0
  /\ faults = 0

(* Mutant: a queued run of the group holds back every other.               *)
CheckoutBehindQueue(r) ==
  /\ pc[r] = "queued"
  /\ \A q \in Runs \ {r} : Group[q] = Group[r] => pc[q] \in {"done", "dead"}
  /\ pc' = [pc EXCEPT ![r] = "generate"]
  /\ clone' = [clone EXCEPT ![r] = branch]
  /\ work' = [work EXCEPT ![r] = Top(branch)]
  /\ UNCHANGED <<branch, keep, step, attempt, failed, gen, made, began,
                 merges, faults>>

(* actions/checkout.  The workflow's concurrency group, with               *)
(* cancel-in-progress false, holds a run back while another is going.      *)
Checkout(r) ==
  /\ pc[r] = "queued"
  /\ \A q \in Runs \ {r} :
       Group[q] = Group[r] => pc[q] \in {"queued", "done", "dead"}
  /\ pc' = [pc EXCEPT ![r] = "generate"]
  /\ clone' = [clone EXCEPT ![r] = branch]
  /\ work' = [work EXCEPT ![r] = Top(branch)]
  /\ UNCHANGED <<branch, keep, step, attempt, failed, gen, made, began,
                 merges, faults>>

(* The step's script rewrites some of its files and succeeds or fails.     *)
(* A sealed file's content follows from its name, so writing it again      *)
(* changes nothing.                                                        *)
NewContent(f) == IF f \in Sealed THEN 1 ELSE gen[f] + 1

Generate(r) ==
  /\ pc[r] = "generate"
  /\ ~failed[r]
  /\ \E written \in SUBSET CurrentStep(r).writes, ok \in BOOLEAN :
       LET contents == [f \in Files |-> NewContent(f)] IN
       /\ work' = [work EXCEPT ![r] = Overlay(work[r], contents, written)]
       /\ made' = [made EXCEPT ![r] = Overlay(made[r], contents, written)]
       /\ gen' = Overlay(gen, contents, written)
       /\ failed' = [failed EXCEPT ![r] = ~ok /\ ~CurrentStep(r).tolerant]
  /\ pc' = [pc EXCEPT ![r] = "script"]
  /\ UNCHANGED <<branch, clone, keep, step, attempt, began, merges, faults>>

(* After a failure a step without always() is skipped.                     *)
SkipGenerate(r) ==
  /\ pc[r] = "generate"
  /\ failed[r]
  /\ pc' = [pc EXCEPT ![r] = "script"]
  /\ UNCHANGED <<branch, runner, merges, faults>>

(* The script exits, its variables and its mktemp directory with it; the   *)
(* job goes on with the next step, or ends.                                *)
Advance(r) ==
  /\ keep' = [keep EXCEPT ![r] = NoFiles]
  /\ attempt' = [attempt EXCEPT ![r] = 1]
  /\ began' = [began EXCEPT ![r] = 1]
  /\ IF step[r] < Len(Steps[r])
     THEN /\ step' = [step EXCEPT ![r] = @ + 1]
          /\ pc' = [pc EXCEPT ![r] = "generate"]
     ELSE /\ pc' = [pc EXCEPT ![r] = "done"]
          /\ UNCHANGED step

SkipScript(r) ==
  /\ pc[r] = "script"
  /\ failed[r] /\ ~CurrentStep(r).always
  /\ Advance(r)
  /\ UNCHANGED <<branch, clone, work, failed, gen, made, merges, faults>>

RunsScript(r) == ~failed[r] \/ CurrentStep(r).always

(* "no change under $path": exit 0.                                        *)
NothingToPublish(r) ==
  /\ pc[r] = "script"
  /\ RunsScript(r)
  /\ ~Changed(r, CurrentStep(r).path)
  /\ Advance(r)
  /\ UNCHANGED <<branch, clone, work, failed, gen, made, merges, faults>>

(* tar -cf "$keep/generated.tar" "$path"                                   *)
KeepCopy(r) ==
  /\ pc[r] = "script"
  /\ RunsScript(r)
  /\ Changed(r, CurrentStep(r).path)
  /\ keep' = [keep EXCEPT ![r] = Overlay(NoFiles, work[r], CurrentStep(r).path)]
  /\ attempt' = [attempt EXCEPT ![r] = 1]
  /\ began' = [began EXCEPT ![r] = Len(clone[r])]
  /\ pc' = [pc EXCEPT ![r] = "commit"]
  /\ UNCHANGED <<branch, clone, work, step, failed, gen, made, merges, faults>>

(* git add "$path"; git commit || echo "nothing new to commit"             *)
CommitPath(r) ==
  LET path == CurrentStep(r).path
      next == [tree |-> Overlay(HeadTree(r), work[r], path), by |-> r]
  IN
  /\ pc[r] = "commit"
  /\ clone' = IF Changed(r, path)
              THEN [clone EXCEPT ![r] = Append(@, next)]
              ELSE clone
  /\ pc' = [pc EXCEPT ![r] = "push"]
  /\ UNCHANGED <<branch, work, keep, step, attempt, failed, gen, made, began,
                 merges, faults>>

(* Mutant: git push --force.                                               *)
AcceptsForced(r) == Len(clone[r]) > 0

(* The server takes a push only when it fast-forwards the branch.          *)
Accepts(r) == IsAncestor(branch, clone[r])

Push(r) ==
  /\ pc[r] = "push"
  /\ Accepts(r)
  /\ branch' = clone[r]
  /\ Advance(r)
  /\ UNCHANGED <<clone, work, failed, gen, made, merges, faults>>

PushRejected(r) ==
  /\ pc[r] = "push"
  /\ ~Accepts(r)
  /\ pc' = [pc EXCEPT ![r] = "rebuild"]
  /\ UNCHANGED <<branch, runner, merges, faults>>

FaultLeft == faults < MaxFaults /\ merges + faults < MaxTrouble

(* The connection breaks: the push may have landed or not, git fails.      *)
PushBreaks(r) ==
  /\ pc[r] = "push"
  /\ FaultLeft
  /\ faults' = faults + 1
  /\ \/ branch' = branch
     \/ Accepts(r) /\ branch' = clone[r]
  /\ pc' = [pc EXCEPT ![r] = "rebuild"]
  /\ UNCHANGED <<runner, merges>>

(* git reset --hard origin/main: a file tracked on either side takes the   *)
(* branch's content, an untracked one stays.                               *)
ResetTree(r) ==
  [f \in Files |-> IF HeadTree(r)[f] # 0 \/ Top(branch)[f] # 0
                   THEN Top(branch)[f] ELSE work[r][f]]

(* Mutant: the archive is not unpacked after the reset.                    *)
UnpackNothing(tree, archive) == [f \in DOMAIN archive |-> tree[f]]

(* tar -xf: every file in the archive is written over the tree.            *)
Unpack(tree, archive) ==
  [f \in Files |-> IF archive[f] # 0 THEN archive[f] ELSE tree[f]]

(* fetch, reset, unpack; then the next attempt, or "could not push" and    *)
(* exit 1 after the last.                                                  *)
RebuildUpTo(r, last) ==
  /\ pc[r] = "rebuild"
  /\ clone' = [clone EXCEPT ![r] = branch]
  /\ work' = [work EXCEPT ![r] = Unpack(ResetTree(r), keep[r])]
  /\ IF attempt[r] < last
     THEN /\ attempt' = [attempt EXCEPT ![r] = @ + 1]
          /\ pc' = [pc EXCEPT ![r] = "commit"]
          /\ UNCHANGED <<keep, step, failed, began>>
     ELSE /\ failed' = [failed EXCEPT ![r] = TRUE]
          /\ Advance(r)
  /\ UNCHANGED <<branch, gen, made, merges, faults>>

(* Mutant: the loop counts one attempt too few.                            *)
RebuildOnceLess(r) == RebuildUpTo(r, Attempts - 1)

(* `for attempt in 1 2 3`                                                  *)
Rebuild(r) == RebuildUpTo(r, Attempts)

(* Mutant: without `set -e` a failed fetch leaves the job green.           *)
FetchBreaksUnnoticed(r) ==
  /\ pc[r] = "rebuild"
  /\ FaultLeft
  /\ faults' = faults + 1
  /\ Advance(r)
  /\ UNCHANGED <<branch, clone, work, failed, gen, made, merges>>

(* git fetch fails and `set -e` ends the script with the commit unpushed.  *)
FetchBreaks(r) ==
  /\ pc[r] = "rebuild"
  /\ FaultLeft
  /\ faults' = faults + 1
  /\ failed' = [failed EXCEPT ![r] = TRUE]
  /\ Advance(r)
  /\ UNCHANGED <<branch, clone, work, gen, made, merges>>

(* timeout-minutes, or a runner that goes away.                            *)
RunnerDies(r) ==
  /\ pc[r] \notin {"queued", "done", "dead"}
  /\ FaultLeft
  /\ faults' = faults + 1
  /\ pc' = [pc EXCEPT ![r] = "dead"]
  /\ UNCHANGED <<branch, runner, merges>>

(* A merge to main that touches no generated file.                         *)
Merge ==
  /\ merges < MaxMerges /\ merges + faults < MaxTrouble
  /\ merges' = merges + 1
  /\ branch' = Append(branch, [tree |-> Top(branch), by |-> Owner])
  /\ UNCHANGED <<runner, pc, faults>>

(* One step of job r that its runner is bound to take.                     *)
Work(r) ==
  \/ Checkout(r)
  \/ Generate(r) \/ SkipGenerate(r)
  \/ SkipScript(r) \/ NothingToPublish(r) \/ KeepCopy(r)
  \/ CommitPath(r)
  \/ Push(r) \/ PushRejected(r)
  \/ Rebuild(r)

Fault(r) == PushBreaks(r) \/ FetchBreaks(r) \/ RunnerDies(r)

Next ==
  \/ \E r \in Runs : Work(r)
  \/ \E r \in Runs : Fault(r)
  \/ Merge

Spec == Init /\ [][Next]_vars

(* GitHub starts a queued job and a runner executes its script.            *)
Fairness == \A r \in Runs : WF_vars(Work(r))

FairSpec == Spec /\ Fairness

-----------------------------------------------------------------------------

TypeOK ==
  /\ branch \in Seq(Commit) /\ Len(branch) > 0
  /\ clone \in [Runs -> Seq(Commit)]
  /\ \A r \in Runs : Len(clone[r]) > 0
  /\ work \in [Runs -> Tree]
  /\ keep \in [Runs -> Tree]
  /\ pc \in [Runs -> Location]
  /\ step \in [Runs -> Nat]
  /\ \A r \in Runs : step[r] \in 1 .. Len(Steps[r])
  /\ attempt \in [Runs -> 1 .. Attempts]
  /\ failed \in [Runs -> BOOLEAN]
  /\ gen \in Tree
  /\ made \in [Runs -> Tree]
  /\ began \in [Runs -> Nat]
  /\ merges \in 0 .. MaxMerges
  /\ faults \in 0 .. MaxFaults

(* No push ever rewrites main: "the history keeps every older generation,  *)
(* which is the point" (commit_generated.sh), whatever races, retries and  *)
(* broken connections there were.                                          *)
HistoryOnlyGrows == [][IsAncestor(branch, branch')]_vars

(* Between two scripts of a job that has not failed, HEAD is a commit of   *)
(* main: the git_sha that pin_current writes into a verdict names a commit *)
(* a reader of the branch can check out.                                   *)
HeadIsPublished ==
  \A r \in Runs :
    pc[r] \in {"generate", "script", "done"} /\ ~failed[r]
      => IsAncestor(clone[r], branch)

(* A step that pins finds a clean work tree, so pin_current does not       *)
(* refuse: each earlier step's output was committed, in spite of resets    *)
(* and unpacked archives (the order of data-snapshot.yml's steps).         *)
CleanWhenPinning ==
  \A r \in Runs :
    pc[r] = "generate" /\ ~failed[r] /\ CurrentStep(r).pins
      => work[r] = HeadTree(r)

(* "Commit and push a generated snapshot from a runner, and do not lose    *)
(* it": when a job ends green, each file it generated is in main's         *)
(* history in the generation the job made.                                 *)
GreenMeansPublished ==
  \A r \in Runs : pc[r] = "done" /\ ~failed[r] =>
    \A f \in Files : made[r][f] # 0 =>
      \E i \in 1 .. Len(branch) : branch[i].tree[f] = made[r][f]

(* The files a job generates, and with them those that lie under a path it *)
(* publishes: `tar -cf "$path"` takes what the job never wrote as well.    *)
Outputs ==
  [r \in Runs |-> UNION {Steps[r][i].writes : i \in 1 .. Len(Steps[r])}]

Reach(r) ==
  Outputs[r] \cup {f \in Files : \E i \in 1 .. Len(Steps[r]) : f \in Steps[r][i].path}

(* The files that no job of another concurrency group publishes over.      *)
OwnFiles ==
  {f \in Files : \A r, q \in Runs :
     f \in Reach(r) /\ f \in Outputs[q] => Group[r] = Group[q]}

(* Seen through its latest commit, and in the files that jobs of one group *)
(* alone publish, main is a store whose files are only replaced by newer   *)
(* ones, and only by the job that generates them: the race, the resets and *)
(* the unpacked archives leave no other trace.  registry/universe is the   *)
(* path of four workflows, and its files are outside OwnFiles.             *)
Store ==
  INSTANCE GeneratedStore
    WITH Files <- OwnFiles, Jobs <- Runs, store <- [f \in OwnFiles |-> Top(branch)[f]]

ImplementsStore == Store!Spec

(* "The copy on the branch is an older generation of the same artifact,    *)
(* and this run holds the newer one" (commit_generated.sh:11-12): what a   *)
(* push puts on main is of no earlier generation than what it replaces.    *)
RunHoldsTheNewer ==
  [][\A f \in Files : Top(branch)[f] <= Top(branch')[f]]_vars

(* With the network up, a job gives a path up only after as many commits   *)
(* of others as there are attempts landed while its script was running.    *)
ForeignSince(r) ==
  {i \in began[r] + 1 .. Len(branch) : branch[i].by # r}

GivesUpOnlyUnderContention ==
  [][\A r \in Runs :
       /\ pc[r] = "rebuild" /\ pc'[r] \in {"generate", "done"}
       /\ faults' = 0
       => Cardinality(ForeignSince(r)) >= Attempts]_vars

(* Every job ends: three attempts are the most a script makes, and a job   *)
(* held back by its concurrency group gets its turn.                       *)
EveryJobEnds == \A r \in Runs : <>(pc[r] \in {"done", "dead"})
=============================================================================
