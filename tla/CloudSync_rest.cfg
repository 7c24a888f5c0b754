CONSTANTS
  f1 = f1
  s1 = s1
  s2 = s2
  Files = {f1}
  Servers = {s1, s2}
  Local = {s2}
  BufSz = 5
  RetryLimit = 2
  FaultKinds <- AnyFault
  MaxFaults = 3

SPECIFICATION FairSpec

INVARIANTS
  SourceInHand

PROPERTIES
  ComesToRest

CHECK_DEADLOCK FALSE
