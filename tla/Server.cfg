CONSTANTS
  Thread = {t1, t2}
  Root = root
  Sub = sub
  F = f
  G = g
  File = {f, g, new}
  MaxName = 3
  Paths <- MCPaths
  PageRoom = 2
  XattrTries = 2
  MaxRequests = 2
  MaxOutside = 1
  Session = {s1, s2}
  Fh = {h1, h2}
  Open = {o1, o2, o3, o4}
  Capacity = 2
  MAX_COPY = 1
  MaxLen = 2
  MaxWork = 4
SYMMETRY Symmetry
SPECIFICATION MCSpec
INVARIANTS   ListingIsTrue PoolExact 
CHECK_DEADLOCK FALSE
