CONSTANTS
  Paths <- SitePaths
  Bypass <- OneStep
  MaxExits = 1
  MaxRestarts = 1

VIEW LiveState

SPECIFICATION Spec

PROPERTIES
  RestartForgetsStart

CHECK_DEADLOCK FALSE
