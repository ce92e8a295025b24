----------------------------- MODULE MCBilling -----------------------------
\* Billing on small instances, for TLC.
EXTENDS Billing, TLC

HandlerSymmetry == Permutations(Handlers)
=============================================================================
