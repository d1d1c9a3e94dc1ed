\* Two handles; a file is renamed while it is open, no call fails.
SPECIFICATION HSpec
CONSTANTS
  r = r
  Root = r
  f1 = f1
  f2 = f2
  a = a
  b = b
  n1 = n1
  n2 = n2
  h1 = h1
  h2 = h2
  Entry = {r, f1, f2}
  Name = {a, b}
  Addr = {n1, n2}
  Handle = {h1, h2}
  Writers = {h1, h2}
  OpenFlags = {{"O_CREAT"}}
  Nil = Nil
  Absent = Absent
  Size = {0, 1}
  MaxDepth = 1
  CreateModes = {"CreateIfNotExist"}
  ReplicaLists = {}
  MinParallel = 2
  Offsets = {1}
  Sizes = {}
  MoveOpen = TRUE
  MaxBytes = 1
  Reads <- AllBytes
  MaxWrites = 2
  MaxFails = 0
SYMMETRY Symmetry
PROPERTY SizesOwn
CHECK_DEADLOCK FALSE
