\* A renamed file is opened again.
SPECIFICATION MSpec
CONSTANTS
  r = r
  Root = r
  e1 = e1
  e2 = e2
  e3 = e3
  Entry = {r, e1, e2, e3}
  a = a
  b = b
  Name = {a, b}
  Nil = Nil
  n1 = n1
  Addr = {n1}
  Size = {0}
  MaxDepth = 2
  CreateModes = {"CreateIfNotExist"}
  ReplicaLists = {}
  Movable = {"file"}
  MaxOpen = 1
SYMMETRY Symmetry
INVARIANT OpensItself
CHECK_DEADLOCK FALSE
