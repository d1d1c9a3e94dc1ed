\* A leader change in the middle of a repair.
SPECIFICATION FairRSpec
CONSTANTS
  r = r
  Root = r
  f1 = f1
  a = a
  n1 = n1
  n2 = n2
  n3 = n3
  Files = {f1}
  Entry = {r, f1}
  Name = {a}
  Addr = {n1, n2, n3}
  Handle = {}
  Nil = Nil
  Hole = Hole
  Size = {0, 1}
  MaxDepth = 1
  CreateModes = {}
  ReplicaLists = {}
  Renames = FALSE
  Partial = FALSE
  MaxLate = 0
  FileSize = 1
  MaxBlocks = 1
  ReplicaCount = 2
  BatchSize = 2
  MaxWrites = 0
  MaxRemovals = 1
  MaxTerm = 1
PROPERTY RecoveringEnds
CHECK_DEADLOCK FALSE
