\* One fault: the leader, which the data node knows, stops; two servers go on.
SPECIFICATION CSpec
CONSTANTS
  s1 = s1
  s2 = s2
  s3 = s3
  n1 = n1
  Server = {s1, s2, s3}
  Node = {n1}
  Contact <- OneServer
  Nil = Nil
  Timeout = 2
  Span = 2
  MaxLag = 2
  MaxFaults = 1
PROPERTY NoFalseRemoval
CHECK_DEADLOCK FALSE
