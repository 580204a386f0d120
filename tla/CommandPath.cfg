CONSTANTS
  c1 = c1
  c2 = c2
  Commands = {c1, c2}
  Sends = {c1}
  Trusted = {}
  Contents = {x, y}
  NoRow = NoRow
  Number <- NumberByName
  Callers = {k1, k2}
  TTL = 1
  Skew = 1
  Batch = 1
  MaxTime = 3
  MaxVersion = 1
  MaxRuns = 3
  MaxNumber = 4
SPECIFICATION Spec
INVARIANTS AppliedOnce RepeatGetsFirstReference RememberedInWindow ExpiredNotApplied
