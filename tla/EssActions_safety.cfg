CONSTANTS
  a1 = a1
  a2 = a2
  s1 = s1
  NoAction = NoAction
  Wild = Wild
  Actions = {a1, a2}
  Shutdowns = {s1}
  ShutdownOf <- OneShutdown
  Paths <- TwoActions
  LeavesMaint <- EndsMaint
  MaxExits = 1
  MaintHeld = TRUE

VIEW LiveState

SPECIFICATION FairSpec

INVARIANTS
  TypeOK
  OneActiveAction
  StatusIsTrue

PROPERTIES
  ShutdownAlwaysRuns
  ActionEnds

CHECK_DEADLOCK FALSE
