------------------------------ MODULE MCLedger ------------------------------
\* The ledger on small instances, for TLC.
EXTENDS Ledger

MCRechargeAmounts == {-1, 2}
=============================================================================
