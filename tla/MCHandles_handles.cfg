\* One writer and one reader, failing calls, and a rename between openings.
SPECIFICATION HSpec
CONSTANTS
  r = r
  Root = r
  f1 = f1
  a = a
  b = b
  n1 = n1
  n2 = n2
  h1 = h1
  h2 = h2
  Entry = {r, f1}
  Name = {a, b}
  Addr = {n1, n2}
  Handle = {h1, h2}
  Writers = {h1}
  OpenFlags = {{"O_CREAT", "O_TRUNC"}}
  Nil = Nil
  Absent = Absent
  Size = {0, 1, 2, 3}
  MaxDepth = 1
  CreateModes = {"CreateIfNotExist"}
  ReplicaLists = {}
  MinParallel = 2
  Offsets = {1, 3}
  Sizes = {1}
  MoveOpen = FALSE
  MaxBytes = 3
  Reads <- AllBytes
  MaxWrites = 2
  MaxFails = 1
SYMMETRY Symmetry
INVARIANTS HTypeOK Settled SizeBacked ReadsCurrent DownloadsCurrent
CHECK_DEADLOCK FALSE
