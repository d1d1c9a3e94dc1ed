\* A write through a handle that was open before the repair.
SPECIFICATION RSpec
CONSTANTS
  r = r
  Root = r
  f1 = f1
  a = a
  n1 = n1
  n2 = n2
  n3 = n3
  h1 = h1
  Files = {f1}
  Entry = {r, f1}
  Name = {a}
  Addr = {n1, n2, n3}
  Handle = {h1}
  Nil = Nil
  Hole = Hole
  Size = {0, 1}
  MaxDepth = 1
  CreateModes = {}
  ReplicaLists = {}
  Renames = FALSE
  Partial = FALSE
  MaxLate = 0
  FileSize = 1
  MaxBlocks = 1
  ReplicaCount = 2
  BatchSize = 2
  MaxWrites = 1
  MaxRemovals = 1
  MaxTerm = 0
SYMMETRY Symmetry
INVARIANT CopiesFaithful
CHECK_DEADLOCK FALSE
