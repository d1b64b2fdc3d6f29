CONSTANTS
  root = root
  folder = folder
  twin = twin
  inner = inner
  new = new
  one = one
  two = two
  File = {root, folder, twin, inner, new}
  Ino <- InoOf
  Foreign = {twin, inner}
  Directory = {folder}
  Substitute <- SubstituteOf
  Name = {one, two}
  MaxId = 6
  MaxDepth = 2
  MaxNames = 2
  MaxLookups = 3
  MaxAliases = 4
  Req = {r1, r2}
  RootFile = root
  Tree <- Entries
  MaxRequests = 2
  MaxOutside = 1
SPECIFICATION MCSpec
INVARIANTS CountsAgree TellsTheFile
PROPERTIES Answered NodesAgree
CHECK_DEADLOCK FALSE
