SPECIFICATION TransactionsSpec
CONSTANTS
  MaxTxid = 4
  Tx = {1, 2, 3}
  Resource = {r1}
  Calls <- AllCalls
  Isolation = {"RepeatableRead", "Serializable"}
  Staging = {2}
INVARIANT XminBelowActive
INVARIANT LocksHonoured
INVARIANT HoldersCompatible
INVARIANT FrontBlocked
 
PROPERTY HorizonAdvances
PROPERTY WoundedWaiterAborts
CHECK_DEADLOCK FALSE
