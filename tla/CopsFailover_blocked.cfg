CONSTANTS
  FaultKinds <- WriteErrors
  MaxFaults = 1
  MaxRounds = 1
  MaxErrs = 1
  Prompt = TRUE

SPECIFICATION FairSpec

PROPERTIES
  SurvivorTakesOver
