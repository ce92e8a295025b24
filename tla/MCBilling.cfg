SPECIFICATION Spec
CONSTANTS
  Handlers = {h1, h2}
  Sub = sub
  Links = {l1}
  Reversals = {"charge.refunded"}
  MaxVersion = 3
  MaxMishaps = 1
  NoJob = NoJob
SYMMETRY HandlerSymmetry
INVARIANTS
  TypeOK
  SubscriptionCatchesUp
  SessionCatchesUp
  MovedPerCause
  AnsweredMeansCredited
