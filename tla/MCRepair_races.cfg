\* Renames, writes, lost calls and a leader change, all at once.
SPECIFICATION RSpec
CONSTANTS
  r = r
  Root = r
  f1 = f1
  a = a
  b = b
  n1 = n1
  n2 = n2
  n3 = n3
  h1 = h1
  Files = {f1}
  Entry = {r, f1}
  Name = {a, b}
  Addr = {n1, n2, n3}
  Handle = {h1}
  Nil = Nil
  Hole = Hole
  Size = {0, 1, 2}
  MaxDepth = 1
  CreateModes = {}
  ReplicaLists = {}
  Renames = TRUE
  Partial = FALSE
  MaxLate = 1
  FileSize = 1
  MaxBlocks = 2
  ReplicaCount = 2
  BatchSize = 2
  MaxWrites = 1
  MaxRemovals = 1
  MaxTerm = 1
SYMMETRY Symmetry
INVARIANTS RTypeOK DataSurvives
CHECK_DEADLOCK FALSE
