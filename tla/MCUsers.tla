------------------------------- MODULE MCUsers -------------------------------
EXTENDS ConsoleUsers, TLC
CONSTANTS alice, root, b1, r1, r2
MCPlans == {"free", "enterprise"}
HandlerSymmetry == Permutations({r1, r2})
=============================================================================
