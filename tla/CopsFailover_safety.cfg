CONSTANTS
  FaultKinds <- ProcessFaults
  MaxFaults = 1
  MaxRounds = 1
  MaxErrs = 1
  Prompt = FALSE

SPECIFICATION Spec

INVARIANTS
  TypeOK
  SessionAgreement
  SplitBrainIsTransient
