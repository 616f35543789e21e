SPECIFICATION SBSpec
CONSTANTS
  MaxVersion = 1
  MaxGeneration = 9
INVARIANTS
  AlwaysOpens
CHECK_DEADLOCK FALSE
