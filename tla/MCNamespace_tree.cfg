\* Shape and identities of the tree under every command.
SPECIFICATION Spec
CONSTANTS
  r = r
  Root = r
  Other = e1
  e1 = e1
  e2 = e2
  e3 = e3
  Entry = {r, e1, e2, e3}
  a = a
  b = b
  Name = {a, b}
  Nil = Nil
  n1 = n1
  Addr = {n1}
  Size = {0, 1}
  MaxDepth = 3
  CreateModes = {"CreateIfNotExist", "OverwriteIfExists"}
  ReplicaLists <- Payloads
SYMMETRY Symmetry
INVARIANTS TypeOK IsTree UniqueIdentity
PROPERTIES FileIDsNeverReturn SnapshotsSuffice
CHECK_DEADLOCK FALSE
