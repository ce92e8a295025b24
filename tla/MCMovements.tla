---------------------------- MODULE MCMovements ----------------------------
\* The fund movement handlers on small instances, for TLC.
EXTENDS FundMovements, TLC

HandlerSymmetry == Permutations(Handlers)
=============================================================================
