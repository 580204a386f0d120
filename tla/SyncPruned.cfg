SPECIFICATION Spec
CONSTANTS
  e1 = e1
  e2 = e2
  Entity <- Two
  PageLimit = 2
  TombstoneLimit = 1
  PruneBatch = 1
  Paths <- OnlyPull
  MaxSeq = 5
  MaxElsewhere = 0
  MaxFrames = 1
SYMMETRY Symmetry
INVARIANTS
  NothingLeftOver
