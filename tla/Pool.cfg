SPECIFICATION PoolSpec
CONSTANTS
  Workers = {w1, w2}
  Messages = {m1, m2, m3}
  None = None
  concurrency = 1
  prefetch = 2
  MaxSlow = 1
  MaxFaults = 1
INVARIANTS
  PoolTypeOK
  OutIsAccounted
  SendNeverBlocks
  NoneLost
PROPERTY
  SignalEnds
CHECK_DEADLOCK FALSE
