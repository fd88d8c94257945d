\* One call whose fsync may fail.
SPECIFICATION Spec
CONSTANTS
  Runs = {r1}
  Numbers <- FourNumbers
  Debris = {}
  MaxAttempts = 1
  Options <- AllOptions
CHECK_DEADLOCK FALSE
INVARIANT
  FailureLeavesNothing
