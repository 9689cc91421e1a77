SPECIFICATION Spec
CONSTANTS
  Definitions <- FetchThenRead
  Handlers = {h1}
  Requests = {}
  MaxAttempts = 1
PROPERTY
  TerminalIsFinal
