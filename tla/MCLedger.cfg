SPECIFICATION FairLedgerSpec
CONSTANTS
  a1 = a1
  a2 = a2
  j1 = j1
  Agents = {a1, a2}
  NoAgent = NoAgent
  MaxOrders = 2
  Amounts = {1, 2}
  RechargeAmounts <- MCRechargeAmounts
  MaxRecharge = 2
  Jobs = {j1}
  Subscribed = {"payment.settled", "payment.refunded"}
INVARIANTS
  LedgerTypeOK
  FrozenIsSumOfHolds
  MoneyConserved
  NoOverdraft
  OrderMatchesHold
  AnnouncedMoneyMoved
PROPERTIES
  SettlingEnds
  ImplementsEscrow
CHECK_DEADLOCK FALSE
