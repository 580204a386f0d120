SPECIFICATION Spec
CONSTANTS
  e1 = e1
  e2 = e2
  Entity <- Two
  PageLimit = 2
  TombstoneLimit = 1
  PruneBatch = 1
  Paths <- Both
  MaxSeq = 3
  MaxElsewhere = 1
  MaxFrames = 1
SYMMETRY Symmetry
INVARIANTS
  NothingMissing
