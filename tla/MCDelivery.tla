----------------------------- MODULE MCDelivery -----------------------------
\* The delivery job on small instances, for TLC.
EXTENDS WebhookDelivery, TLC
=============================================================================
