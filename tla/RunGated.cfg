SPECIFICATION Spec
CONSTANTS
  Definitions <- GatedTwice
  Handlers = {h1, h2}
  Requests = {r1, r2}
  MaxAttempts = 4
SYMMETRY Symmetry
INVARIANTS
  TypeOK
  ApprovalGate
  LedgerBeforeEvidence
  OneExecutorWhileLeased
  RecordedPrefix
  RunningHasLease
  SuccessIsFinal
PROPERTIES
  CancelBeatsApprove
