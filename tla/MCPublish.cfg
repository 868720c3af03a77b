SPECIFICATION FairSpec
CONSTANTS
  snapshot = snapshot
  listings = listings
  dispatched = dispatched
  frontier = frontier
  manifest = manifest
  record = record
  us = us
  Runs = {snapshot, listings, dispatched}
  Files = {frontier, manifest, record, us}
  Sealed = {manifest}
  Present = {us}
  Owner = owner
  Group <- MCGroup
  Steps <- MCSteps
  Attempts = 3
  MaxMerges = 1
  MaxFaults = 1
  MaxTrouble = 1
INVARIANTS HeadIsPublished CleanWhenPinning GreenMeansPublished
PROPERTIES ImplementsStore GivesUpOnlyUnderContention EveryJobEnds
CHECK_DEADLOCK FALSE
