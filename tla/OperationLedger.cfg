CONSTANTS
  Identities = {i1}
  Contents = {c1}
  Contexts = {x1}
  Epochs = {e1}
  Generations = {g1, g2}
  NoGeneration = NoGeneration
  MaxRevision = 7
  MaxMail = 2
SPECIFICATION Spec
SYMMETRY Symmetry
INVARIANTS AtMostOneDispatch SettledIsTrue RevisionWithinRank
PROPERTIES ImplementsReceipt DispatchedAttemptFixed
