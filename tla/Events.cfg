\* One session that changes two paths and one that only reads; every bound is
\* small enough to be hit.
CONSTANTS
  Session = {w, r}
  Writer = {w}
  Path = {p, q}
  Notice = {u}
  Nobody = Nobody
  LogCapacity = 1
  KernelQueue = 1
  MaxPending = 2
  Channel = 1
  MaxChanges = 3
  Cached = {i, j}
  EventRoom = 2
  WorkRoom = 2
  MaxGen = 3
  Forwarder = {w1, w2}
  Share = 3
  MaxHeld = 7
  Addr = {1, 2, 3}
  Family <- MCFamily
  MaxOutages = 2
  MaxSweeps = 5
SPECIFICATION MCSpec
INVARIANTS ChangesCovered ToldAsItIs
PROPERTIES ReaderHears WorkIsDone  OutageTold SecondSignalEnds
CHECK_DEADLOCK FALSE
