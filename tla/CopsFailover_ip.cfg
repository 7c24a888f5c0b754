CONSTANTS
  FaultKinds <- NoProcessDeath
  MaxFaults = 2
  MaxRounds = 1
  MaxErrs = 1
  Prompt = FALSE

SPECIFICATION Spec

INVARIANTS
  DuplicateIPIsTransient
  AddressHasRole
  SessionAgreement
  SplitBrainIsTransient
