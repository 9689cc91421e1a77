SPECIFICATION RtSpec
CONSTANTS
  Definitions <- Ungated
  Handlers = {h1, h2}
  Requests = {}
  MaxAttempts = 4
  Publishers = {p1}
  limit = 50
  MaxRows = 1
  MaxFailures = 1
  MaxCrashes = 1
  MaxDbErrors = 0
  SlowHandlers = FALSE
PROPERTY
  RunsComeToRest
CHECK_DEADLOCK FALSE
