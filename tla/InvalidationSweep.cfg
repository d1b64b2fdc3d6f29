CONSTANTS
  Item = {i, j}
  EventRoom = 1
  WorkRoom = 2
  MaxGen = 2
SPECIFICATION FairSpec
CHECK_DEADLOCK FALSE
PROPERTY SweepIsSent
