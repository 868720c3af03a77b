\* A run, and a scratch run of the same commit after it.
CONSTANTS
  momentum = momentum  reversal = reversal
  Alphas = {momentum, reversal}
  fast = fast  slow = slow
  Points = {fast, slow}
  Declarations <- AFewDeclarations
  Grids <- TwoGrids
  FirstTrees <- Narrowly
  UniverseOf <- Apart
  Words = {"stopped", "retired", "gated"}
  Overlap = FALSE
  Scratch = TRUE
  MaxCommits = 1
  MaxRuns = 2
  MaxEdits = 0
  MaxDecisions = 0
SPECIFICATION Spec
PROPERTY NothingIsOverwritten
CHECK_DEADLOCK FALSE
