CONSTANTS
  c1 = c1
  c2 = c2
  Commands = {c1, c2}
  Sends = {}
  Trusted = {}
  Contents = {x, y}
  NoRow = NoRow
  Number <- NumberByName
  Callers = {k1}
  TTL = 1
  Skew = 1
  Batch = 1
  MaxTime = 3
  MaxVersion = 0
  MaxRuns = 3
  MaxNumber = 4
SPECIFICATION Spec
INVARIANT TooOldWasApplied
