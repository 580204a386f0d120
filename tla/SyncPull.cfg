SPECIFICATION Spec
CONSTANTS
  e1 = e1
  e2 = e2
  Entity <- Two
  PageLimit = 3
  TombstoneLimit = 2
  PruneBatch = 1
  Paths <- OnlyPull
  MaxSeq = 5
  MaxElsewhere = 2
  MaxFrames = 1
SYMMETRY Symmetry
INVARIANTS
  NothingLeftOver
PROPERTIES
  IsReplica
