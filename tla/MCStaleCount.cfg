\* Somebody declares a wider search and commits it while a run is in progress.
CONSTANTS
  momentum = momentum  reversal = reversal
  Alphas = {momentum, reversal}
  fast = fast  slow = slow
  Points = {fast, slow}
  Declarations <- AFewDeclarations
  Grids <- TwoGrids
  FirstTrees <- Narrowly
  UniverseOf <- Apart
  Words = {"stopped", "retired", "gated"}
  Overlap = TRUE
  Scratch = FALSE
  MaxCommits = 2
  MaxRuns = 1
  MaxEdits = 1
  MaxDecisions = 0
SPECIFICATION Spec
INVARIANT CountComesFromThePin
CHECK_DEADLOCK FALSE
