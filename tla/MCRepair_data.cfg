\* Two files, removals and failing copies.
SPECIFICATION RSpec
CONSTANTS
  r = r
  Root = r
  f1 = f1
  f2 = f2
  a = a
  b = b
  c = c
  n1 = n1
  n2 = n2
  n3 = n3
  Files = {f1, f2}
  Entry = {r, f1, f2}
  Name = {a, b, c}
  Addr = {n1, n2, n3}
  Handle = {}
  Nil = Nil
  Hole = Hole
  Size = {0, 1, 2}
  MaxDepth = 1
  CreateModes = {}
  ReplicaLists = {}
  Renames = FALSE
  Partial = FALSE
  MaxLate = 0
  FileSize = 2
  MaxBlocks = 2
  ReplicaCount = 2
  BatchSize = 2
  MaxWrites = 0
  MaxRemovals = 2
  MaxTerm = 0
SYMMETRY Symmetry
INVARIANTS CopiesFaithful ListedHoldData
CHECK_DEADLOCK FALSE
