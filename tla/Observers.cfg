CONSTANTS
  Tap = {t1, t2}
  Producer = {q1, q2}
  Selections <- MCSelections
  TapRecords = 1
  TapBytes = 2
  Req = {s1, s2}
  Sides = {"client", "server"}
  StallFirst = 1
  Detailed = 1
  MaxNow = 3
  MaxCalls = 2
  MaxWork = 7
SPECIFICATION MCSpec
SYMMETRY Symmetry
INVARIANTS TapsAreTrue 
CHECK_DEADLOCK FALSE
