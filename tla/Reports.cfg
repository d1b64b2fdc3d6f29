CONSTANTS
  p1 = p1
  Port <- MCPort
  Wired <- MCPort
  Speed <- MCSpeed
  MIN_WINDOW = 2
  REPORT = 1
  Burst = 3
  MaxTime = 5
  MaxWork = 4
  r1 = r1
  Kind <- MCKind
  Reader <- MCReader
  MaxRecords = 6
  NAME_MAX = 9
  PATH_MAX = 40
  HANDLE_MAX = 16
  MAX_FRAME = 1280
  MAX_IO = 640
  READ_CHUNK = 256
  Samples = 12
  Messages <- MCMessages
  Entries <- MCEntries
SPECIFICATION MCSpec
INVARIANTS SkewBounded FiguresAreTrue 
CHECK_DEADLOCK FALSE
