------------------------------ MODULE OutboxMC ------------------------------
EXTENDS Outbox, TLC
=============================================================================
