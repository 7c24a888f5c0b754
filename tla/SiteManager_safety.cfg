CONSTANTS
  Paths <- SitePaths
  Bypass <- OneStep
  MaxExits = 1
  MaxRestarts = 1

VIEW LiveState

SPECIFICATION FairSpec

INVARIANTS
  TypeOK
  CommandedUntilRestart
  PowerOffWhenReady

PROPERTIES
  DebounceRestarts
  StartupEnds
  FaultShutsDown
  ImplementsLifecycle

CHECK_DEADLOCK FALSE
