SPECIFICATION LedgerSpec
CONSTANTS
  a1 = a1
  j1 = j1
  Agents = {a1}
  NoAgent = NoAgent
  MaxOrders = 1
  Amounts = {1}
  RechargeAmounts = {2}
  MaxRecharge = 2
  Jobs = {j1}
  Subscribed = {}
INVARIANTS
  FailedMeansRestored
CHECK_DEADLOCK FALSE
