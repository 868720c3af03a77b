\* Anything may happen: people edit and commit while a run is in progress, and
\* runs may be scratch runs.  Each alpha has its own universe.  Decisions, a spoilt
\* and a lost ledger come before, during and after a run that is the only one.
CONSTANTS
  momentum = momentum  reversal = reversal
  Alphas = {momentum, reversal}
  fast = fast  slow = slow
  Points = {fast, slow}
  Declarations <- AFewDeclarations
  Grids <- SomeGrids
  FirstTrees <- Narrowly
  UniverseOf <- Apart
  Words = {"stopped", "retired", "gated", "paused"}
  Overlap = TRUE
  Scratch = TRUE
  MaxCommits = 2
  MaxRuns = 2
  MaxEdits = 1
  MaxDecisions = 2
SPECIFICATION MCSpec
INVARIANTS
  RecordMatchesPin
  EvidenceWasDeclared
  StandsAtTheLowest
  OneCodePerRun
PROPERTIES
  NotRefusedForItsOwnOutput
  OnlyScratchOverwrites
  OnlyMeasurementRaises
CHECK_DEADLOCK FALSE
SYMMETRY Symmetry
