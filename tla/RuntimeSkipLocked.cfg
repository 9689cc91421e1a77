SPECIFICATION RtSpec
CONSTANTS
  Definitions <- Gated
  Handlers = {h1, h2}
  Requests = {r1}
  MaxAttempts = 2
  Publishers = {p1}
  limit = 50
  MaxRows = 2
  MaxFailures = 0
  MaxCrashes = 0
  MaxDbErrors = 0
  SlowHandlers = FALSE
PROPERTY
  RunsComeToRest
CHECK_DEADLOCK FALSE
