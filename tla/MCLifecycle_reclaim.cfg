\* Calls create and delete at the same paths; orphans leave, under fairness.
SPECIFICATION FairLSpec
CONSTANTS
  r = r
  Root = r
  e1 = e1
  e2 = e2
  Entry = {r, e1, e2}
  a = a
  Name = {a}
  Nil = Nil
  n1 = n1
  Addr = {n1}
  Size = {0}
  MaxDepth = 2
  CreateModes = {"CreateIfNotExist"}
  ReplicaLists = {}
  c1 = c1
  c2 = c2
  Client = {c1, c2}
  Calls = {"Mkdir", "Delete"}
  g1 = g1
  Collector = {g1}
  Absent = Absent
  Window = 1
  Skew = 0
  Lag = 0
  Horizon = 0
  MaxTime = 1
INVARIANT EraseListDead
PROPERTY OrphansReclaimed
