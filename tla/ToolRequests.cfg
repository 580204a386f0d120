CONSTANTS
  d1 = d1
  d2 = d2
  d3 = d3
  g1 = g1
  g2 = g2
  e1 = e1
  c1 = c1
  Callbacks = {d1, d2, d3}
  Context <- Reconnected
  Identities = {i1}
  Contents = {c1}
  Contexts = {x1}
  Epochs = {e1}
  Generations = {g1, g2}
  NoGeneration = NoGeneration
  MaxRevision = 4
  Request = i1
  Turn = x1
  NoRecord = NoRecord
  NoResult = NoResult
  NoOne = NoOne
  StoreFails = TRUE
SPECIFICATION Spec
SYMMETRY Symmetry
INVARIANTS TypeOK EffectOnce AnswersAgree
PROPERTIES ImplementsReceipt FirstResultWins OwnerSettles
