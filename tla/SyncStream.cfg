SPECIFICATION FairSpec
CONSTANTS
  e1 = e1
  e2 = e2
  Entity <- Two
  PageLimit = 5
  TombstoneLimit = 1
  PruneBatch = 1
  Paths <- OnlyStream
  MaxSeq = 4
  MaxElsewhere = 2
  MaxFrames = 2
INVARIANTS
  TypeOK
  NumbersAreFresh
  TableIsTheLog
PROPERTIES
  IsReplica
  Converges
