SPECIFICATION CreationSpec
CONSTANTS
  Clients = {c1, c2}
  Keys = {k1, k2}
  Handles = {d1, d2}
  max_active_runs = 1
  max_runs_per_day = 1
  MaxReopened = 1
SYMMETRY Symmetry
INVARIANTS
  CreationTypeOK
  OneRunPerKey
  QuotaHolds
  RetryIsAnswered
  BrokerHoldsRunHandles
  CredentialSurvivesReplay
PROPERTY
  HandedOnceInTime
