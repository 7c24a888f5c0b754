CONSTANTS
  FaultKinds <- Outages
  MaxFaults = 2
  MaxRounds = 1
  MaxErrs = 1
  Prompt = TRUE

SPECIFICATION FairSpec

PROPERTIES
  SurvivorTakesOver
