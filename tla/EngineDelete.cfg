SPECIFICATION GSpec
CONSTANTS
  Page = {3, 4}
  Footprint = {{4}, {3, 4}}
  PropertyPage = {3}
  MaxNode = 1
  MaxLog = 8
  MaxOpens = 1
  Steal = TRUE
  WalErrors = {}
INVARIANT DeletesSurvive
CHECK_DEADLOCK FALSE
