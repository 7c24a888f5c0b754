CONSTANTS
  FaultKinds <- Repairable
  MaxFaults = 2
  MaxRounds = 1
  MaxErrs = 1
  Prompt = TRUE

SPECIFICATION RestartingSpec

PROPERTIES
  EventuallyStable
  HealthyControllerLeads
