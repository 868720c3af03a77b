SPECIFICATION FairSpec
CONSTANTS
  snapshot = snapshot
  listings = listings
  dispatched = dispatched
  frontier = frontier
  manifest = manifest
  record = record
  us = us
  Runs = {snapshot, listings}
  Files = {frontier, manifest, record, us}
  Sealed = {manifest}
  Present = {us}
  Owner = owner
  Group <- MCGroup
  Steps <- MCSteps
  Attempts = 3
  MaxMerges = 0
  MaxFaults = 0
  MaxTrouble = 0
PROPERTIES RunHoldsTheNewer
CHECK_DEADLOCK FALSE
