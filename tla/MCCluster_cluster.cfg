\* Three servers and a data node; servers fail and come back.
SPECIFICATION FairCSpec
CONSTANTS
  s1 = s1
  s2 = s2
  s3 = s3
  n1 = n1
  Server = {s1, s2, s3}
  Node = {n1}
  Contact <- OneServer
  Nil = Nil
  Timeout = 2
  Span = 2
  MaxLag = 2
  MaxFaults = 2
INVARIANTS CTypeOK Converges Timed
PROPERTIES OnlySilentGivenUp MembershipSettles
