SPECIFICATION TMSpec
CONSTANTS
  Tx = {1, 2}
  Resource = {r1}
  Calls <- ExclusiveCalls
  Isolation = {"RepeatableRead"}
  Staging = {}
INVARIANT FinishedHoldNothing
CHECK_DEADLOCK FALSE
