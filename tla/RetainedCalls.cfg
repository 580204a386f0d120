SPECIFICATION FairSpec
CONSTANTS
  Caller = {p1, p2}
  NoOne = NoOne
  NoRow = NoRow
  MaxGeneration = 2
  MaxJournal = 2
INVARIANTS
  TypeOK
  SentOnce
  RecordTrue
  ReplyKept
PROPERTIES
  ToldTrue
  ReplySettles
