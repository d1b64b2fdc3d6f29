CONSTANTS
  Root = root
  Dir = {a, b}
  Outside = outside
  Name = {x, y}
  Request = {q, r}
  MaxPath = 2
  Budget = 1
  QueueLen = 3
  MaxOps = 2
  MaxArms = 2
SPECIFICATION Spec
SYMMETRY Symmetry
INVARIANTS TableExact 
CHECK_DEADLOCK FALSE
