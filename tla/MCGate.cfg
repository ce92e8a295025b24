SPECIFICATION Spec
CONSTANTS
  Handlers = {h1, h2}
  Keys = {k1}
  Nonces = {n1, n2}
  Orders = {o1, o2}
  Bodies <- MCBodies
  Skew = 1
  Window = 2
  MaxTime = 3
  NoRequest = NoRequest
SYMMETRY HandlerSymmetry
INVARIANTS
  TypeOK
  OkMeansResolved
  HandledOnce
PROPERTIES
  ExactRetrySucceeds
