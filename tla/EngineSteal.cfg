SPECIFICATION GSpec
CONSTANTS
  Page = {3, 4}
  Footprint = {{4}, {3, 4}}
  PropertyPage = {3}
  MaxNode = 2
  MaxLog = 4
  MaxOpens = 2
  Steal = TRUE
  WalErrors = {}
 
PROPERTY RecoveryConverges
CHECK_DEADLOCK FALSE
