\* Two overwriting uploads of the same path, one slower than the other.
SPECIFICATION LSpec
CONSTANTS
  r = r
  Root = r
  e1 = e1
  e2 = e2
  Entry = {r, e1, e2}
  a = a
  Name = {a}
  Nil = Nil
  n1 = n1
  Addr = {n1}
  Size = {0}
  MaxDepth = 1
  CreateModes = {"OverwriteIfExists"}
  ReplicaLists = {}
  c1 = c1
  c2 = c2
  Client = {c1, c2}
  Calls = {}
  g1 = g1
  Collector = {g1}
  Absent = Absent
  Window = 1
  Skew = 0
  Lag = 0
  Horizon = 1
  MaxTime = 2
SYMMETRY Symmetry
INVARIANT CompleteReadable
