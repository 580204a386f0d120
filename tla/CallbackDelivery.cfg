SPECIFICATION FairSpec
CONSTANTS
  p1 = p1
  p2 = p2
  Caller = {p1, p2}
  UserAnswer = {a1}
  Cancel = none
  NoAnswer = NoAnswer
  NoRow = NoRow
  NoOne = NoOne
  MaxAttempts = 2
INVARIANTS
  TypeOK
  WrittenOnce
  AnsweredTrue
  WaitingUnsent
  ToldTrue
PROPERTIES
  SlotSpec
  CallsReturn
