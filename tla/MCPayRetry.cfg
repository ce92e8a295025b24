SPECIFICATION Spec
CONSTANTS
  a1 = a1
  h1 = h1
  h2 = h2
  k1 = k1
  r1 = r1
  u1 = u1
  f1 = f1
  Agents = {a1}
  NoAgent = NoAgent
  MaxOrders = 2
  Amounts = {1}
  RechargeAmounts = {2}
  MaxRecharge = 2
  Jobs = {}
  Subscribed = {}
  Handlers = {h1, h2}
  PayKeys = {k1}
  RechargeKeys = {r1}
  UnfreezeKeys = {u1}
  RefundKeys = {f1}
  NoKey = NoKey
  SingleLimit = 1
  DailyLimit = 3
  MayLoseMarker = FALSE
  MayExpire = FALSE
INVARIANTS
  ChargedOncePerKey
