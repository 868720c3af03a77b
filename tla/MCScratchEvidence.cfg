\* One scratch run on an edited tree.
CONSTANTS
  momentum = momentum  reversal = reversal
  Alphas = {momentum, reversal}
  fast = fast  slow = slow
  Points = {fast, slow}
  Declarations <- AFewDeclarations
  Grids <- TwoGrids
  FirstTrees <- Narrowly
  UniverseOf <- Apart
  Words = {"stopped", "retired", "gated"}
  Overlap = FALSE
  Scratch = TRUE
  MaxCommits = 2
  MaxRuns = 1
  MaxEdits = 1
  MaxDecisions = 0
SPECIFICATION Spec
INVARIANT NoScratchEvidence
CHECK_DEADLOCK FALSE
