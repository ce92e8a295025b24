------------------------------- MODULE MCGate -------------------------------
\* The callback gate on small instances, for TLC.
EXTENDS CallbackGate, TLC

\* Two reports of one order that contradict each other, and one of another.
MCBodies ==
  {[order |-> o, status |-> "SETTLED"] : o \in Orders}
    \union {[order |-> CHOOSE o \in Orders : TRUE, status |-> "FAILED"]}

HandlerSymmetry == Permutations(Handlers) \union Permutations(Nonces)
=============================================================================
