CONSTANTS
  f1 = f1
  s1 = s1
  Files = {f1}
  Servers = {s1}
  Local = {}
  BufSz = 8
  RetryLimit = 1
  FaultKinds <- Retried
  MaxFaults = 4

SPECIFICATION FairSpec

INVARIANTS
  TypeOK
  NoLoss

PROPERTIES
  EverythingDelivered
  ImplementsStore

CHECK_DEADLOCK FALSE
