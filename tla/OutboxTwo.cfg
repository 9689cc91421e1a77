SPECIFICATION OutboxSpec
CONSTANTS
  Rows = {1, 2, 3}
  Publishers = {p1, p2}
  limit = 2
  MaxFailures = 1
INVARIANTS
  OutboxTypeOK
  MarkedIsStreamed
  CopiesAreCounted
  DuplicatesBounded
PROPERTIES
  EventuallyPublished
CHECK_DEADLOCK FALSE
