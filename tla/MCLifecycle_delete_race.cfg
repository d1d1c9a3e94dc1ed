\* A deletion races with a rename and an upload.
SPECIFICATION LSpec
CONSTANTS
  r = r
  Root = r
  e1 = e1
  e2 = e2
  Entry = {r, e1, e2}
  a = a
  b = b
  Name = {a, b}
  Nil = Nil
  n1 = n1
  Addr = {n1}
  Size = {0}
  MaxDepth = 1
  CreateModes = {"CreateIfNotExist"}
  ReplicaLists = {}
  c1 = c1
  c2 = c2
  Client = {c1, c2}
  Calls = {"Mkdir", "Rename", "Delete"}
  g1 = g1
  Collector = {g1}
  Absent = Absent
  Window = 2
  Skew = 1
  Lag = 0
  Horizon = 1
  MaxTime = 2
SYMMETRY Symmetry
INVARIANT EraseListDead
