\* A clock that falls back by six minutes; nothing is ever late.
SPECIFICATION Spec
CONSTANTS
  Evaluators = {loop}
  Threshold = 2
  Confirmation = 2
  MaxGap = 1
  Tolerance = 2
  Skews <- MCBackwards
  MaxDelay = 0
  Horizon = 8
INVARIANT ReachingMeansOnline
CHECK_DEADLOCK FALSE
