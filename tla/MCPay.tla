------------------------------- MODULE MCPay -------------------------------
\* The handlers on small instances, for TLC.
EXTENDS PersistentPay, TLC

HandlerSymmetry == Permutations(Handlers)
=============================================================================
