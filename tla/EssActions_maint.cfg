CONSTANTS
  a1 = a1
  a2 = a2
  s1 = s1
  NoAction = NoAction
  Wild = Wild
  Actions = {a1, a2}
  Shutdowns = {s1}
  ShutdownOf <- OneShutdown
  Paths <- TwoActions
  LeavesMaint = {}
  MaxExits = 1
  MaintHeld = FALSE

SPECIFICATION Spec

INVARIANTS
  OneActiveAction

CHECK_DEADLOCK FALSE
