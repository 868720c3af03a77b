\* Two pods, two symbols, two of the six health checks; any two changes of the
\* inputs, so that a breach in one layer can meet a loss in another.
CONSTANTS
  s1 = s1  s2 = s2  p1 = p1  p2 = p2  c1 = c1  c2 = c2
  Unmeasured = Unmeasured
  NaN = NaN
  Symbols = {s1, s2}
  Pods = {p1, p2}
  Checks = {c1, c2}
  Limits <- MCLimits
  Values <- MCValues
  MaxChanges = 2
  FirstInputs <- MCFirstInputs
SPECIFICATION Spec
INVARIANT OverlayOnlyReduces
PROPERTY
  LosingNeverAllows
CHECK_DEADLOCK FALSE
