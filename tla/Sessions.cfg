CONSTANTS
  Client = {k1, k2}
  MaxSession = 3
  MaxConn = 3
  MaxDetached = 1
  Origin = {"open", "reopen", "release", "owed"}
  MaxGen = 2
  MaxEpoch = 3
  OpenResendable = TRUE
SPECIFICATION MCSpec
SYMMETRY Symmetry
INVARIANTS OneServes ReplacedForGood ReleasedForGood 
CHECK_DEADLOCK FALSE
