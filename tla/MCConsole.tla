------------------------------ MODULE MCConsole ------------------------------
EXTENDS Console

MCSessions == {[role |-> "admin", plan |-> "starter"], [role |-> "operator", plan |-> "free"]}
MCFoci == {{}, {"apiKeys"}, {"auditLogs"}, {"deliveries"}, {"recharges"}, {"vaTransfers"}}

=============================================================================
