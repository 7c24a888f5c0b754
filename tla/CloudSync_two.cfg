CONSTANTS
  f1 = f1
  s1 = s1
  s2 = s2
  Files = {f1}
  Servers = {s1, s2}
  Local = {}
  BufSz = 2
  RetryLimit = 1
  FaultKinds <- Outages
  MaxFaults = 2

SPECIFICATION Spec

INVARIANTS
  NoLoss

CHECK_DEADLOCK FALSE
