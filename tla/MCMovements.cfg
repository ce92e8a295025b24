SPECIFICATION Spec
CONSTANTS
  Agents = {a1, a2}
  NoAgent = none
  MaxOrders = 1
  Amounts = {1}
  RechargeAmounts = {2}
  MaxRecharge = 2
  Jobs = {j1}
  Subscribed = {}
  Handlers = {h1, h2}
  Keys = {k1}
  MayLoseMarker = TRUE
  MayExpire = TRUE
SYMMETRY HandlerSymmetry
INVARIANTS TypeOK RowsExplainMoved MarkersAreTrue OutboundFollowsCharge
