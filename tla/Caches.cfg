CONSTANTS
  Req = {r1, r2}
  Fh = {h1, h2}
  Xattr = {x}
  QueueRoom = 1
  MaxVer = 2
  MaxRequests = 4
  Handle = {h1, h2}
  Dir = {d1}
  MaxPos = 3
  PageRoom = 2
  FirstRoom = 1
  FetchRoom = 2
  MaxChanges = 2
  Id = {0, 1, 2}
  Nobody = 2
SPECIFICATION MCSpec
INVARIANTS StaleIsDetected OwnNamesKnown 
PROPERTIES CopyKeepsOwners
CHECK_DEADLOCK FALSE
