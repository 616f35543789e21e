SPECIFICATION GSpec
CONSTANTS
  Page = {3, 4}
  Footprint = {{4}, {3, 4}}
  PropertyPage = {3}
  MaxNode = 2
  MaxLog = 5
  MaxOpens = 2
  Steal = FALSE
  WalErrors = {"nothing", "torn"}
 
 
INVARIANT WriteAhead
CHECK_DEADLOCK FALSE
