CONSTANTS
  Session = {w, r}
  Writer = {w}
  Path = {p, q}
  Notice = {u}
  Nobody = Nobody
  LogCapacity = 2
  KernelQueue = 2
  MaxPending = 2
  Channel = 1
  MaxChanges = 3
SPECIFICATION Spec
PROPERTY LaterReported
