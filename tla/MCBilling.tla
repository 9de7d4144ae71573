----------------------------- MODULE MCBilling ------------------------------
\* Small instances of Billing: plans of one term, so that windows run out soon.
EXTENDS Billing

CONSTANTS annual, triennial
Terms == [o \in Orders |-> 1]
Seen == [o \in Orders |-> IF o = annual THEN {"authorized", "failed", "refunded"} ELSE {}]
Again == [o \in Orders |-> IF o = annual THEN 2 ELSE 0]
=============================================================================
