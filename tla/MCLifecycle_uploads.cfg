\* Two uploads race on the same paths, beside a collector that may be behind.
SPECIFICATION LSpec
CONSTANTS
  r = r
  Root = r
  e1 = e1
  e2 = e2
  Entry = {r, e1, e2}
  a = a
  Name = {a}
  Nil = Nil
  n1 = n1
  n2 = n2
  Addr = {n1, n2}
  Size = {0}
  MaxDepth = 2
  CreateModes = {"CreateIfNotExist"}
  ReplicaLists = {}
  c1 = c1
  c2 = c2
  Client = {c1, c2}
  Calls = {"Mkdir"}
  g1 = g1
  Collector = {g1}
  Absent = Absent
  Window = 2
  Skew = 0
  Lag = 1
  Horizon = 1
  MaxTime = 2
SYMMETRY Symmetry
INVARIANTS KillListDead CompleteReadable
PROPERTY CleanupRemovesOwn
