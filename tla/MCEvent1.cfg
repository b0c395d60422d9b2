\* Two waiting threads; posts come from anywhere.
CONSTANTS
  x = x
  y = y
  Bit = {x, y}
  Thread = {t1, t2}
  Request <- Requests
SPECIFICATION Spec
INVARIANTS
  NoMissedPost
  WaitDelivers
PROPERTIES
  NotStarved
  TimedReturns
CHECK_DEADLOCK FALSE
