# quant-desk: models, model checking and proofs

TLA+ modules of the parts of quant-desk whose correctness is a matter of
control: who writes which file when, what a crash or a refused request leaves
behind, what a missing measurement does, what may be read as evidence of what.
Paths below are relative to the repository's root (`PROJECT.json` names them
under `src/`). `PROJECT.json` lists components, runs, mutants, the source lines
behind each definition, findings, hazards and theorems.

    tlc -workers 2 -config MCDayGate.cfg MCDayGate      # one run
    tlapm DayGateProofs.tla                             # one proof module

## 1. The system

quant-desk is a Python code base in which the hot path is deterministic code
and every number is reproducible from a git commit, a data snapshot and a seed.
There is no server. GitHub Actions jobs fetch data and publish generated files
under `registry/`; people declare alphas and run backtests in a checkout; a
daily run decides whether orders may exist.

    fetch_*.py, data_snapshot.py, submit_alpha.py, *_report.py
          | write files under registry/ or data/
          v
    commit_generated.sh --- races other jobs for ---> main
          ^                                             |
          | HEAD, clean or dirty                        | checked out by the next job
    repro.pin_current <---------------------------------+
          | pin in every record
          v
    registry/submissions --> lifecycle.derive <-- registry/alphas/lifecycle.yaml
                                   | status of an alpha
                                   v
    readings --> limits.check_*, center_book --> pipeline.run_day --> orders
                                                        |
                                                        v audit.append

### Components

| Component | State it keeps | Operations | What is hard | What makes it correct |
|---|---|---|---|---|
| Publication (`scripts/commit_generated.sh`, workflows) | main, a clone per runner, the archive of one path | status, tar, commit, push, fetch, reset, unpack, retry | jobs of several workflows race; steps with `always()`; lost connections | no push rewrites history; a green job lost nothing; a pin names a published commit |
| Daily gate (`core/pipeline.py`, `core/risk/*`, `core/portfolio/center_book.py`) | none across days; a limits table | five layers of limits, netting, trimming, fund tier | any reading may be absent; layers combine | absence blocks; the overlay only reduces |
| Audit log (`core/audit.py`) | one append-only file of hash-chained lines | append in two steps, read, verify | dying while writing, hand edits, two writers | what verifies was once written; an edit is named by the first record it touched |
| Alpha submission (`scripts/submit_alpha.py`, `core/repro.py`, `core/alphas/lifecycle.py`, `core/backtest/prereg.py`, `trials.py`) | declarations under git, records, the ledger | pin, count of trials, gates, record, derived status | reads long before the pin; own output dirties the tree; repeated runs | records match their pin; only a measurement raises |
| Literature (`scripts/fetch_papers.py`, `literature.yml`) | one file per day, one list per week | three interfaces in turn, merge, weekly list, alarm, seeding | a feed that can only be asked for today; silence versus absence | nothing stored is lost; gaps never read as quiet days |
| US listings (`scripts/fetch_listings.py`, `yahoo_profiles.py`) | `us.csv` and its sidecar: sectors, pool of symbols without one | membership, SEC join, vendor session, carry-over | budget, dying sessions, weeks of outage | nobody recorded as answered who was not; everybody gets a turn |
| Universe and Korean membership (`core/data/universe.py`, `fetch_krx.py`, `fetch_kind.py`) | listings with dates and halts, a sidecar | status on a day, members, tradable names, order list, survivorship gap, dating names from a window of sessions | missing sessions, silent venues, halts, the two ends of a window, the list written before its sidecar | a past question is answered right or refused; no halted name is ordered |
| Prices and snapshots (`fetch_prices.py`, `sources.py`, `data_snapshot.py`, `markets.py`, `factors.py`) | `data/` files, provenance, factor file, manifests, indexes, records | vendors in turn, panel per market, factor rows, manifest | a vendor failing midway, dying between two files, another window over the same bytes | one panel, one vendor; an id means one claim |
| Backtest engine and scan (`engine.py`, `cv.py`, `leakage.py`) | none | weights to bars, costs, perturbation, split, purged folds, probes | one row off, at either end | a backtest is what trading bar by bar would have been |
| Strategies (`core/strategies/base.py`, `library.py`) | none | six signals and their shaping | rolling windows that must end at their own row | no later row is read |
| Gates G0-G8 (`backtest/gates.py`) | none | thresholds over statistics | NaN compares false; criteria that were not measured | an unmeasured criterion does not pass |
| Orders and broker (`core/execution/orders.py`, `core/data/kis.py`, `fetch_kis.py`) | open orders, a cached token | transitions, reads with retry | a crash between broker and book; a revoked token | an unresolved order blocks the day |
| Statistics, risk readings | none | real-valued analysis | numeric | outside the tools used here |
| Filings, macro (`fetch_dart.py`, `fetch_macro.py`) | the file of the last run | paging, one retry | pages shift while read | no filing twice or not at all |
| Feature catalogue, host probe, reports, controlled files, configuration | none that outlives a run | one pass each | - | - |

The interactions that matter: every job's output reaches the others only
through `commit_generated.sh`; a pin reads HEAD and the state of the tree at
one moment, the declarations at another; the gate of the day takes the readings
other code made, present or absent; `run_day`, the gates and the feature
catalogue append to the same audit log; four workflows publish the one
directory `registry/universe`.

## 2. Modules

| Module | Models | Checked by | Proved in |
|---|---|---|---|
| `PublishGenerated` | `commit_generated.sh` and the job steps around it | `MCPublish` (two configurations) | `PublishGeneratedProofs` |
| `GeneratedStore` | abstract: files of main no other group publishes over, replaced by newer generations of one job | implemented by `PublishGenerated` | `PublishGeneratedProofs` |
| `DayGate`, `OrderStates` | `run_day`, all limit checks, center book; the order states it reads | `MCDayGate` | `DayGateProofs` |
| `AuditChain` | `AuditLog.append`, `read`, `verify` | `MCAuditChain` | `AuditChainProofs` |
| `Lifecycle` | `derive`, the ledger and the evidence (no state) | through `SubmissionDesk` | `SubmissionDeskProofs` |
| `SubmissionDesk` | `submit_alpha.py`, the pin, the desk count, preregistration, records | `MCSubmissionDesk` | `SubmissionDeskProofs` |
| `PaperAnswer` | abstract: archive after archive of one interface, or nothing | implemented by `PaperFetch`, part of `PaperStore` | `PaperStoreProofs` |
| `PaperFetch` | `fetch_today`: requests, retries, pages, fallbacks | `MCPaperFetch` | `PaperStoreProofs` |
| `PaperStore` | `main`: day files, weekly list, alarm, seeding, commit step | `MCPaperStore` | `PaperStoreProofs` |
| `ListingsBackfill` | `fetch_listings.fetch`, `yahoo_profiles.harvest` | `MCListingsBackfill` | `MembershipProofs` |
| `Universe` | `Listing`, `Universe` and the screens of `core/data/universe.py` (no state) | through `Membership` | `MembershipProofs` |
| `Membership` | the market day by day, the three readers that make `kr.csv` of it, list and sidecar | `MCMembership` (two configurations) | `MembershipProofs` |
| `Snapshot` | the fetch, the panels, factors, manifests and records of a data snapshot | `MCSnapshot` | `SnapshotProofs` |
| `Strategies` | the registered signals and their shaping (no state) | through `Backtest` | `BacktestProofs` |
| `Backtest` | engine, folds, scan, gates G0 and G2-G6, beside a desk that trades the signal | `MCBacktest` | `BacktestProofs` |

`SubmissionDesk` extends `Lifecycle`, `DayGate` extends `OrderStates`,
`Membership` extends `Universe` and `Backtest` extends `Strategies`: the
modules without state hold what the code has as pure functions. `PaperStore`
takes the actions of `PaperAnswer`, `PublishGenerated` and `PaperFetch` are
refinements.

### How state and actions correspond to the code

**PublishGenerated.** A file is the number of times it was generated, a commit
a tree of those numbers, a history a sequence of commits. `branch` is
origin/main; `clone[r]`, `work[r]` and `keep[r]` are a runner's HEAD, its work
tree and `$keep/generated.tar`. One action per command of the script, because
another job may push between any two: `KeepCopy`, `CommitPath`, `Push`,
`PushRejected`, `Rebuild` (fetch, reset, unpack, one more attempt), and
`PushBreaks`, `FetchBreaks`, `RunnerDies` for the network and the runner. `Generate`
is the step's Python script: it writes any of its files and succeeds or fails.
`Checkout` honours the workflow's concurrency group. Manifests are `Sealed`:
their name is the hash of their content, so writing one again changes nothing.
`path` of a step is what its call of the script commits, which may hold files
other workflows generate: `registry/universe` holds the listings and the
snapshot's universe frontier. `OwnFiles` are the files no job of another
concurrency group publishes over.

**DayGate.** A state is one day's inputs and the result of `run_day` on them; an
action changes or loses one reading and runs the day again. A reading is an
integer, `Unmeasured` (None or another kind of value) or `NaN`. `as_measurement`
makes one thing of the last two; where the code compares the raw value instead
(weights, targets, broker shares, the margin utilisation and the cash buffer) a
comparison with NaN is false, as in the code. A pod's capacity and cost are
blocked on the flags `adv_measured` and `cost_measured` too. Each `check_*` is
one operator that is TRUE when the check reports any breach; which message it
carries does not matter to the verdict. The book is counted in halves of a share
of NAV, since the reduce tier multiplies by one half. A mapping whose keys no
limit reads (sectors, factor betas, broker shares) is the set of its values.
Weights, pod targets and broker shares are optional in the code (an empty
mapping is not a breach), and the correlation of a fund of one pod and the
financing cost are exempt there: they are exempt in the model, and
`OptionalKept` lists them, with the two values of financing that the code lets
turn into NaN. The pods are fixed: that a pod disappears from a capacity or cost
snapshot that names others is left out.

**AuditChain.** A hash is the sequence of bodies it covers (an ideal digest).
`ReadLast` reads the file and takes the last hash, `Write` appends; in between
the process may die, leaving a torn line. `ChangeRecord` and `DeleteLine` are
edits by hand, `LoseLine` a write that never reached the disk.

**SubmissionDesk.** A git sha is an index into `commits`, a tree the declaration
and the search grid of each alpha. A run is `Prepare` (arguments, declarations
read), `CountDesk`, `Load` (the panel), `TakePin`, then per universe
`StartUniverse`, per alpha `Judge`, and `EndUniverse`, `Finish`; it may die
anywhere, in the middle of a record too. `Prepare` takes every declared alpha
(`--all`) or one, which may be run with another strategy than its own
(`--strategy`); `--allow-dirty` is a choice of every run. What the backtest
finds is a free choice; every other gate is its code. Edits, commits, ledger
decisions, a spoilt and a lost ledger are the people's actions, and may fall
between any two steps of a run (`Overlap`). `seen` is a history variable: the
commit and cleanness at each of the run's three looks at git. No guard reads it;
a record is `steady` when all of them saw the clean commit it is pinned to.

**PaperFetch / PaperStore.** `PaperFetch` is one call of `fetch_today` request
by request, with `Attempts` and the page bound of each interface (1, 20 and 10)
at the code's own values. `got` is the set of pages kept so far, each with the
interface and archive it is of and whether it said there was more: the pages
pile up one by one, and an interface that fails takes its own with it. The
harvest fails at its bound, the search keeps what it has. It
implements `PaperAnswer`, whose state is whole archives: the mapping `Settled`
takes the pages of the archives left behind. `PaperStore` takes the actions of
`PaperAnswer` for the fetch. In
`PaperStore` `branch` and `tree` are `registry/literature` on main and in the
running sweep's checkout; a day's file is absent, unreadable or read. Ghost
variables (`asked`, `filed`, `received`, `kept`, `spoilt`) record what the
properties compare the files with; no action's guard reads them.

**ListingsBackfill.** `sector` and `pool` are `us.csv` and `vendor_no_sector` on
main; a run fetches the membership, then hears the SEC (and asks nobody), or
queues, opens a session and asks one symbol after another until the queue, or
the patience (`GiveUpAfter`), ends. `Publish` is `build`, `next_empty_pool`,
both files and the commit step. A sector is told apart by its source.

**Membership / Universe.** `market[n][d]` is what a name really was on a day
("pre", "in", "halted", "gone") and is external; it moves on sessions only, and
`open` says which days were sessions. `Read` is one of three readers: KRX daily
bars of a window (`membership()` dates a name by its first and last bar), KIND's
list of today, a dated history with halts. `WriteList` and `WriteSidecar` are
the two files in the code's order, `Die` a death in either or between them.
`LoadUniverse` is `load_universe`. A list carries the number of the run that
wrote it and whether it is whole; only the properties read these. In `Universe`
a question that raises is `Refused`, a value like any other.

**Snapshot.** A file's bytes are the days it has rows for and the vendor they
are from; the bytes stand for their digest. `StartFetch`, `WriteBars`,
`SymbolFails`, `VendorDone` are `fetch_prices.main`'s loop over vendors and
symbols; `StartSnapshot` reads the files and makes every market's panel at once,
as the code does before it writes anything; then `WriteIndex`, `WriteManifest`
and `WriteSmoke` write one file each and `FetchDies`, `SnapshotDies` cut them
short. A csv that is cut ends with one of its rows, or with half a row and does
not parse (`Torn`): the symbol is set aside when the spans are read (`Spanned`),
unless the half has no close, where the code raises. A factor file prices the
American market's bars and nobody else's (`FRENCH_MARKET`). `Submit` is
`submit_alpha`'s panel of a declared universe, which writes manifests into the
same directory. On the runner a snapshot follows a fetch that was ok; at a desk
the two run at will.

**Backtest / Strategies.** A return is in parts of `Scale`, a weight in parts of
`Unit`; shares and betas keep their order and sign, which is all ranking needs.
The desk is what the engine claims to reproduce: `Close` books the bar that has
ended with the row held, computes the signal of the closes there are, and holds
its last row. `Run` is `engine.run` on the complete panel, `Evaluate` the gates.
A plan is a signal (the six registered ones, the canary of the tests, one
normalised over the whole sample, one that peeks only in its first row), its
grid and the chosen point. A statistic that needs a square root or a
distribution is free to pass or fail within what the sign of its mean allows.
`AdvParticipation` is the percentile of the shares of the trades above the
dust, in hundredths, on the line between two ranks as `np.percentile` takes it.

## 3. Runs

| Run | What it shows | Bounds and why they are enough |
|---|---|---|
| `publish` | a pin's HEAD is published and clean; a green job's files reached main; in the files of one group alone main is a `GeneratedStore`; a job gives up only under contention; every job ends | the steps of data-snapshot.yml that differ in kind (the frontier in the shared `registry/universe`, records, sealed manifests; tolerant and always) against two executions of listings.yml in one concurrency group; 3 attempts as in the code, one merge by hand, one fault and one trouble (`MaxFaults`, `MaxTrouble`): a reset in each step, a lost answer in each attempt |
| `publish_shared` (violation) | a rejected job puts another workflow's file back to the generation it checked out | one execution of each workflow, nothing fails |
| `day_gate` | losing a reading that `as_measurement` or a flag guards never opens a blocked day; netting, trim and tier only reduce | two pods, two symbols, two health checks; readings -2..2, each limit between two of them; any two changes from four clean days: a breach in one layer meets a loss in another |
| `audit_chain` | a log nobody edited verifies; what verifies was once written; what an edit touched is named by the first record it reached, whatever is appended later | four lines, two edits, two faults, one writer |
| `submission_desk` | clean records match their pin when the tree held still, no status rests on an undeclared search, no refusal for a run's own output, one run has one code, only scratch runs overwrite; an alpha stands at the lowest of evidence and decisions, and only a record raises it | two alphas with a universe each, alike at first (symmetric), one edit to a declaration (wider, or an unfilled form) or to a grid (one the declaration does not cover); two commits, two runs, with and without `--allow-dirty` and `--strategy`; edits, commits and deaths at any point of a run. Beside one clean run of a tree nobody edits (`Alone`), two entries of any word about either alpha, a spoilt and a lost ledger: the ledger has nothing to say to the second run |
| `paper_fetch` | every fetch ends; what it answers is one interface's, every archive to its last page, but for a search that stops at its bound | two archives; the code's 1, 20 and 10 pages and 4 attempts |
| `paper_store` | stored papers stay; gaps never pass for quiet; silence raises the alarm; a week forgets nothing | one paper of two archives, three days in two weeks, three sweeps, window 1, alarm 2: a feed may be silent, frozen or undated; files may be cut short, runs lost |
| `listings_backfill` | the pool holds only answered symbols, sectors survive outages, everybody gets an answer and pool symbols are asked again | three companies and an ETF, budget 2, give-up 2, at most one hopeless company, one change of listing or profile, weeks without end |
| `membership` | a past day is answered right or refused; a window of sessions dates as the market did; no halted name is ordered; the survivorship gap is never understated | two names that move and one that stays, on two venues; seven days with a weekend and at most one holiday; three moves, so that a name lists, halts and leaves in one behaviour; a window of two days, one silent venue and day, two runs of the roster and of the dated list (a list beside an older sidecar). A list beside an older sidecar is asked about the days up to that sidecar's only |
| `krx_saturday` (violation) | a run on a day without a session dates names that trade as delisted | the same |
| `snapshot` | an id never means two claims; a runner's panel is one vendor's; no symbol that starts late is in a window; every factor row is of its bar's closing day and of its bar's market | two vendors, two American symbols, one of which may list late or miss a day, and a Korean one; five days; two history lengths, two snapshots, a fetch, a submission, a death at any write |
| `backtest` | the engine's bars are the desk's; the scan accuses whom it should and clears nobody the desk could not have been; folds do not overlap; an approved strategy would have earned, and few of its trades are over the cap | two names, prices 1 and 2, up to six closes, both opening at 1 and apart from the second on: every lookback of the plans ends inside the panel; two folds, horizon and embargo 1, a whole and a thin set of probes. `Scale` 20 and `Unit` 5250 make every quotient that a signal of two names takes exact. The percentile is the code's 95; of the handful of trades there are, at most one may be over the cap, and it happens |

Each property of a passing run has a mutant of the code (a definition beside
the original, commented "Mutant") that makes its run fail.

**Fairness.** `PublishGenerated!FairSpec`: weak fairness of each job's `Work`,
since GitHub starts a queued job and a runner executes its script; faults and
merges are not fair. `PaperFetch`: weak fairness of `Step`, since a request is
answered, refused or times out; which of them is not constrained.
`ListingsBackfill`: weak fairness of `Step`, since the cron starts a run every
week; that Yahoo serves now and then is a premise of the properties
(`[]<>served`), not an assumption of the specification. The others have no
liveness property and no fairness.

**Deadlock** is not checked where the modelled work is finite (jobs done,
counters at their bounds, a market at its horizon); `paper_fetch` checks it.

### What the violations show

`publish_shared`: the retry unpacks the archive of the whole path over what it
fetched, so on a path two workflows share (`registry/universe`: listings.yml:84,
data-snapshot.yml:204, korea-industry.yml:64, korea-data.yml:76) the rejected job
restores the other's file to the generation it checked out, where the comment
says the run holds the newer one (`commit_generated.sh:12`, `:48`). The two crons
are 23 minutes apart (`data-snapshot.yml:22`, `listings.yml:19`) and the
jobs may take 45 and 90 minutes. `GreenMeansPublished` and
`ImplementsStore` speak of what is left: a job's own files get to main, and those
nobody else publishes over are never set back.

`krx_saturday`: `membership()` dates a name as delisted when its last bar is
before the day of the run (`scripts/fetch_krx.py:227`), and the weekly job runs
on a Saturday (`korea-data.yml:16`), when no name has a bar. The comment above
says that a name that stopped appearing before the window ended is gone. A
window whose first day is closed dates every name as listed in it in the same
way, and the list then passes for point in time (`:224`). `WindowProvesItsDates`
holds of windows that start and end on a session.

### Statements of the documents that are not runs

Five statements do not hold of the code. Each is a definition of its module, says
the document's words, and has a configuration in which TLC refutes it
(`tlc -config MCNanWeight.cfg MCDayGate` and so on); a property that is checked
and proved says what does hold.

| Statement | Configuration | What happens | What holds |
|---|---|---|---|
| `UnmeasuredWeightsBlock`, `UnmeasuredFinancingBlocks` | `MCNanWeight`, `MCNanFinancing` | `check_pod` compares a weight with its cap as it is (`limits.py:57`), `check_financing` asks for None alone (`financing.py:23`): NaN is above no cap and below no floor, where ADR-0015 wants every field through `as_measurement` | `LosingNeverAllows`, of the readings that are guarded; `OptionalKept` lists those that are not |
| `CountComesFromThePin` | `MCStaleCount` | the count of trials is taken before the panels are loaded and the pin after (`submit_alpha.py:686`, `:739`): a commit in between leaves a clean record whose commit has another count, where `trials.py:14` says it can be reproduced from the pin | `RecordMatchesPin`: the record says what its commit says when the three looks of its run at git agree |
| `NoScratchEvidence` | `MCScratchEvidence` | nothing reads `pin.dirty` (`lifecycle.py:279`): an `--allow-dirty` record raises a status, where ADR-0006 says a scratch number cannot enter the gates | `EvidenceWasDeclared`: scratch or not, the search behind a status was declared first |
| `NothingIsOverwritten` | `MCScratchOverwrites` | the dirty flag is no part of the run's id (`repro.py:48`): a scratch run of a commit replaces the clean record of it, where ADR-0036 says no verdict is overwritten | `OnlyScratchOverwrites` |

### Seen while modelling, and not a run

* Gate: the weights of a day's snapshot are replaced by the netted book; gross,
  net and sector exposures stay the caller's (`core/pipeline.py:87`).
* Submission: a record that does not parse is skipped without a note
  (`core/alphas/lifecycle.py:210`), where the comment two lines above says it is
  named in the notes. The models have such records (`HalfARecord`).
* Audit log: with two writers `VerifiesUnlessTouched` and
  `BreaksByFirstTamperedRecord` fail: both take the same last hash. Each entry
  point of the repository is one process, and no document promises more.
* Submission: later evidence never reads the desk's count again: a family
  declared after a submission does not deflate the earlier verdict
  (`trials.py:90`).
* Submission: the ensemble is compared with the admitted components only
  (`submit_alpha.py:157` speaks of every component).
* Literature: three interfaces of four attempts, 45 seconds each, with 30, 60
  and 180 seconds between them take 22.5 minutes at worst; the comment says ten
  and the job ends at twenty (`literature.yml:57`). A feed that is frozen and
  undated is stored again under every day and raises no alarm. A harvested paper
  whose submission day lies before the window is stored and in no weekly list. A
  search of more than `MAX_PAGES` pages keeps what it has (`fetch_papers.py:448`).
* Listings: symbols that fail or carry a label without a bucket never leave the
  head of the queue. From `GIVE_UP_AFTER` of them in a row, or a budget full of
  them, `EverybodyGetsAnAnswer` fails (set `MaxStuck = 2`). A pool symbol that
  got a bucket from the SEC stays in the pool and is asked again. A session that
  dies in the pool's part of the queue turns the symbols it failed on to the
  back; `PoolIsAskedAgain` counts asking, not answering. A run stopped early by
  failures is recorded as `carried_over_or_absent` even when the vendor had
  classified symbols before (`fetch_listings.py:786`).
* Membership: a name halted when the window starts gets the day it resumes as its
  listing date, and KRX rows carry neither halts nor sectors. One venue that
  answers "no session" on a day the other traded makes its names look gone
  (`fetch_krx.py:288`).
* Universe: a roster's tradable names are all of it, halted ones included
  (`universe.py:337`); the stale-price screen is what keeps them from an order.
  `survivorship_gap` counts a name that left on the window's first day and leaves
  halted survivors out: it errs on the side of a larger gap. `load_universe` does
  not compare the sidecar's row count with the list, so a list beside an older
  sidecar loads.
* Snapshot: the markets' index is written before the manifests it names; a
  manifest cut short stops every later run of that id (`sources.py:326`).
  `align_panels` has no caller.
* Engine: only the test side of the folds is used. `_perturbed_grid` rounds a
  small whole number back to itself, so G5 of such a pod moves the gross alone,
  and passes when no neighbour can be run. The deflated probability of a flat
  series is not a number and not below its floor. G7 blocks every submission the
  repository can make. `walk_forward` and `overlay.py` have no caller.
* Orders: `INTENDED` does not block a day (`orders.py:74`), where the module's
  docstring says that a run with any unresolved order must not submit new ones.
  `KisRefused.retryable` is read by nobody.
* `fetch_dart.py:142` reads its one retry outside the `try`.

## 4. Proofs

TLAPS proves, for every value of the constants that meets the named
assumptions:

| Theorem | States | From | Along |
|---|---|---|---|
| `PublishGeneratedProofs!TypeCorrect` | `TypeOK` | `ConstantsAssumption` | one step per action |
| `HistoryIsNeverRewritten` | `HistoryOnlyGrows` | the same | a push is accepted only when it fast-forwards; a merge appends |
| `PinnedHeadIsPublished` | `HeadIsPublished` | the same | strengthened by where a clone may be ahead of the branch: only from `commit` to the end of its own script; the branch only grows, so an ancestor stays one |
| `GreenIsPublished` | `GreenMeansPublished` | the same, `StepsAssumption` | `NothingGetsLost`: while a job has not failed, what it made is on main, or in its work tree with a step to come that publishes it, and from the archive on in the archive too, so that a reset and an unpack bring it back |
| `PinsFindACleanTree` | `CleanWhenPinning` | the same | the same invariant: what a job has written and no step published is what `LeftBehind` counts, nothing at a step that pins |
| `MainIsAStore` | `ImplementsStore` | `ConstantsAssumption`, `StepsAssumption` | `StoreInv`: in `OwnFiles` every history is ordered by generation; the work tree of a job is never behind main in what the job reaches, its archive repeats the work tree, and what others generate it has as its HEAD does; so a push or a merge is a `Replace` of the store or a stutter |
| `LosesOnlyRaces` | `GivesUpOnlyUnderContention` | `ConstantsAssumption` | `Contended`: some commit of the branch divides what was there when the script began from as many foreign commits as attempts were lost |
| `DayGateProofs!AbsenceBlocks` | `LosingNeverAllows` | `UnmeasuredAssumption`, `InputsAssumption` | every layer's breach is monotone in loss, to None and to NaN, of what `OptionalKept` leaves: one lemma a layer |
| `HalvedDayIsBlocked` | `CutDaysOnlyClose` | the same | the condition of the cut implies the fund layer's breach |
| `BookOnlyReduces` | `OverlayOnlyReduces` | the same, `TableAssumption` | a sum over a finite set is its fold, taken in any order; the size of a net is at most the sum of the sizes, a trimmed share is no larger than the net, a half no larger than the whole |
| `AuditChainProofs!EditsAreFound` | `BreaksByFirstTamperedRecord` | one writer | the chain before the first touched record is as written, the touched record does not fit its predecessor, and an append neither moves nor repairs it |
| `UneditedLogsVerify` | `VerifiesUnlessTouched` | one writer | until the first edit every record is chained, and the hash an append took is still the last when it writes |
| `VerifiedLogsWereWritten` | `VerifiedOnlyIfOnceWritten` | one writer | the hash of every line chained from the first is among what was written, and a line that goes or changes leaves a gap no chain crosses |
| `SubmissionDeskProofs!OneRunOneCode` | `OneCodePerRun` | `TreesAssumption`, `BoundsAssumption` | a run pins once; records of other runs carry other numbers |
| `CleanRecordsMatchTheirPin` | `RecordMatchesPin` | `TreesAssumption`, `BoundsAssumption` | `Reproducible`: what a run read at a look that found the tree clean is what that commit holds, so three looks at one clean commit read one tree |
| `OnlyScratchRunsOverwrite` | `OnlyScratchOverwrites` | the same | `Kept`: a file of the newest commit's run id leaves the tree unclean, so a clean pin carries a sha no file has |
| `StatusIsTheLowest` | `StandsAtTheLowest` | `TreesAssumption`, `BoundsAssumption` | the fold over the entries is the lowest of the evidence and of what was said: both walk the entries alike, and no two functions do |
| `OnlyRecordsRaise` | `OnlyMeasurementRaises` | the same | a ledger that stays only grows, and the lowest of more words is no higher |
| `StandingWasDeclared` | `EvidenceWasDeclared` | the same | `DeclaredFirst`: a declaration that was read as committed is one of a commit up to HEAD, a record passes G1 with such a declaration only, and covers what was searched |
| `OwnOutputIsNoRefusal` | `NotRefusedForItsOwnOutput` | the same | `UnfiledWasSeen`: until it pins a run has written nothing, so output that lies about was there at its first look |
| `PaperStoreProofs!TypeCorrect` | `TypeOK` | `ArchivesAssumption`, `StoreAssumption` | one step per action |
| `StoredPapersAreKept` | `NothingStoredIsLost` | the same | what the sweep has collected is in the tree's files or still pending; the tree holds what the branch holds; a half-written file is spoilt once published |
| `NoUnmeasuredDayIsPresent` | `NoGapPassesForQuiet` | the same | every list and day file, in the tree and on the branch, and every day still to be written, speaks only of days asked or received |
| `SilenceRaisesTheAlarm` | `SilenceIsRed` | the same | the alarm is the count of empty files up to the run's day; every day filed is read unless spoilt, and a file with papers is of a day received, so the count reaches the alarm |
| `WeeksOnlyGrow` | `WeekNeverForgets` | the same | `WInv`: what a published list names is in the files of days that were not spoilt; the window is no shorter than a week, so a list rebuilt from the files names it again |
| `AnswersAreWhole` | `AnswerIsWhole` | `HavePages` (every interface has a page bound of at least one) | `FetchInv`: the pages of the archive being asked are 1 to the one before this, all saying there is more, those of the archives before it end at their last page or at the search's bound, and no page is of an interface that failed |
| `FetchAnswers` | `ImplementsAnswer` | the same | from that invariant, step by step: the page that ends an archive makes its pages an `ArchiveAnswered`, one before it is hidden by `Settled`, and a failure drops what the interface gave |
| `SnapshotProofs!OneIdOneClaim` | `SameReadSameClaim` | `SnapshotAssumption` | a claim is a function of the bytes and the window its id is made of: in every manifest and index on disk and every panel in hand |
| `PanelsAreOneVendors` | `OnePanelOneVendor` | the same | `DInv`: while a fetch runs, what it has written is the vendor's it is at; when it ends well that is every file, and on the runner nothing else writes one before the snapshot |
| `WindowsStartTogether` | `NobodyStartsLate` | the same | the symbols of a window were chosen by the first day of their bars, which are not written again |
| `BarsArePricedOnTheirDay` | `FactorsPriceEveryBar` | the same | the panel is cut to the days it shares with the file, first to last, and regressed only when no day of it is missing there; the symbols of a panel are of the market whose group it is made of, and that is asked first |
| `BacktestProofs!NoStrategyLooksAhead` | - | `StrategiesAssumption` | family by family, shaping by shaping: the rows of a longer panel begin with the rows of the shorter; the breakout state needs that a set of numbered rows has a greatest |
| `BacktestsAreLive` | `BacktestIsLive` | the same, `BacktestAssumption`, `PlansAssumption` | what the desk booked is the engine's backtest of the panel so far: a close adds a bar and, since no strategy looks ahead, changes none |
| `ApprovalsEarned` | `ApprovedEarned` | the same | the bars the gates add up are the bars the desk booked; the dearer cost takes what it is said to take; the k-th smallest share has k trades at or below it, and a percentile under the cap has its lower rank under the cap, which leaves few trades over it |
| `ScansAreHonest` | `ScanIsHonest` | the same | the scan compares, probe by probe, the row of the panel with the row the desk decided, and a bar with the decision that ends it tells both rows apart |
| `TrainsOnNothingTested` | `TrainNeverSeesTest` | the same | a block ends where the next begins and the last with the panel; the least block that reaches a bar is the one that tests it; the rounded embargo is not negative |
| `MembershipProofs!WindowsDateAsTheMarket` | `WindowProvesItsDates` | `MembershipAssumption`, `UniverseAssumption` | a name moves on sessions only, stays gone once gone and was never in before "pre"; the rows of a list beside its own sidecar are what the window showed on the day both carry, so its first and last bar are the day it began and the day the window ends |
| `PastDaysAreAnswered` | `AnsweredRightOrRefused` | the same | `Whole`: a list tells what the market was up to the day it was read, halts as maximal runs of halted days, and the past does not change |
| `GapsAreCounted` | `GapIsNeverUnderstated` | the same | every name that left has its date inside the window, and of two shares the one with more leavers and fewer names is the larger |
| `HaltedNamesAreScreened` | `NoHaltIsOrdered` | the same | a panel repeats the last close of a name that is halted; a name silent for a stale run has that many equal closes at its end and is screened |
| `PoolsWereAnswered` | `PoolWasAnswered` | nothing | the pool and the run's own list are sequences of symbols told of; merging and rotating keep that |
| `SectorsAreCarried` | `SectorsOutliveOutages` | nothing | `Built` falls back on the sector the file has |

Each invariant's inductive strengthening is a named conjunction in its proof
module. The strengthenings are needed because the properties speak of what is
published, or of the complete panel, while the steps that could break them work
on what is read, collected or booked so far.

What the hypotheses mean. "One writer" is `OneWriter`, an assumption of these
theorems and true of the run. `StepsAssumption` says that the steps of a job
publish what they write before a step pins and before the job ends, all but
sealed manifests: TLC evaluates it on the steps of the run. `PlansAssumption`
(lookbacks and the gross are natural numbers) is read off the grids of the
registered strategies, `TableAssumption` (the cap is not negative; names and pods
are finitely many) off the limits file. No theorem assumes that the tree holds
still during a run, that there are no scratch runs, or that paths are disjoint.

Sums, minima over entries and filtered sequences are computed by recursive
functions and folds. What is proved of them is proved by a least counterexample
(`WFMin` with `NatLessThanWellFounded`, cited in one lemma `LeastNatural` of each
module): that a function with the recursion exists, or that two such functions
agree. No induction theorem with an operator parameter is used. For that reason
`ListingsBackfill` and the panels of `Membership` have `Keeping` and `InOrder` in
the place of `SelectSeq` and `SetToSortSeq`, of which the prover knows nothing.

`MembershipProofs` extends `Membership` and `ListingsBackfill` both, which is why
the second has `BackfillSpec` for a specification; `PaperStoreProofs` has the
theorem of `PaperFetch` through the instance `Fetch`.

Only model-checked: the liveness properties `EveryJobEnds`, `EverySweepEnds`,
`EverybodyGetsAnAnswer` and `PoolIsAskedAgain`, because fairness and `ENABLED`
are outside what the prover handles. Only proved: `ImplementsAnswer`. Every
invariant and action property of the passing runs is a theorem.

## 5. Not modelled

* Statistics and the regressions behind risk readings are analysis over reals;
  the gate of the day takes the readings, the gates of a submission the signs.
* Orders and the broker's read path: no code places an order. The client is
  read-only and `orders.py` is called by its tests alone, so a model of an
  order's life would model a caller that does not exist. `OrderStates` has what
  `DayGate` reads. The margin of the token's clock is arithmetic on constants:
  two reads of four attempts take 440 seconds at worst, the margin is 600
  (`kis.py:154`). Two hazards stay with the code that will call `orders.py`: the
  crash between the broker's acceptance and `transition(SUBMITTED)`
  (`orders.py:74`), and reports out of order, since `PARTIAL` may follow
  `PARTIAL` with whatever fill it is given (`orders.py:65`).
* Filings and macro series: one-shot readers whose output replaces the last one.
  Pages of a day still being filed shift while they are read
  (`fetch_dart.py:124`); a later run whose window covers the day asks again.
* Feature catalogue: a dictionary of one submission that is dropped with it.
* Host probe, report scanner, controlled files, configuration: one pass, no
  state between runs.

Parsing of responses, wording, digests and file formats are left out where no
property depends on them. Pauses and clock time are left out: a bound on
attempts stands for them.

Within the modelled parts: the gates G0-G6 are a free choice in
`SubmissionDesk` and modelled in `Backtest`; the universe of a declaration is a
constant; the ledger is only appended to, spoilt or lost; `STATUS.md` is derived
text; one transient failure of a Yahoo request inside a living session is a
symbol that asks again next week, and only a lasting one is modelled; a manual
literature run with another window is left out; label tables, the seed table and
the frontier report of the Korean universe are left out; factor and benchmark
returns, the performance summary and `live_blockers` of the engine and the gates
are left out, the smoke strategy of a snapshot is "may raise".

`PROJECT.json` names the properties that cover each hazard. One there has none:
a cached token the broker has revoked is refused on every read of the day and
never replaced (`fetch_kis.py:245`); the code has no path that replaces it.
