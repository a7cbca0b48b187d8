------------------------------ MODULE MCMessaging ------------------------------
\* Model values for TLC.
EXTENDS Messaging

CONSTANTS m1, m2, t1, t2

\* Bound: two reports of the provider only if it accepted one message or nothing broke.
FewReports ==
  faults = 0 \/ Len(accepted) <= 1 \/ Cardinality(Received \cap StatusEvents) <= 1
=============================================================================
