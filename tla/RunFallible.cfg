SPECIFICATION Spec
CONSTANTS
  Definitions <- Fallible
  Handlers = {h1, h2}
  Requests = {r1}
  MaxAttempts = 3
SYMMETRY HandlerSymmetry
INVARIANTS
  RecordedPrefix
  ProviderCalledOnce
PROPERTIES
  ImplementsLedger
