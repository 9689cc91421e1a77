SPECIFICATION ConsoleSpec
CONSTANTS
  Slots = {s1, s2}
  MaxCreates = 2
  MaxClicks = 2
  MaxErrors = 1
  MaxClaims = 2
INVARIANTS
  ConsoleTypeOK
  ApprovedOnce
  NeverStuckBusy
PROPERTIES
  CatchesUp
CHECK_DEADLOCK FALSE
