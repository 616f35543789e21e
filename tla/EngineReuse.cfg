SPECIFICATION GSpec
CONSTANTS
  Page = {3, 4}
  Footprint = {{4}, {3, 4}}
  PropertyPage = {3}
  MaxNode = 2
  MaxLog = 6
  MaxOpens = 2
  Steal = FALSE
  WalErrors = {}
INVARIANT CrashLeavesNothing
CHECK_DEADLOCK FALSE
