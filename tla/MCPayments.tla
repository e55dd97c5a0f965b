----------------------------- MODULE MCPayments -----------------------------
EXTENDS Payments
=============================================================================
