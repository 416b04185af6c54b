--------------------------- MODULE MCDeliveryAlerts ---------------------------
EXTENDS DeliveryAlerts

CONSTANTS m1, m2, m3, c1, c2

\* Two messages of one conversation, one of another.
TwoInOne == [m \in Message |-> IF m = m3 /\ c2 \in Chat THEN c2 ELSE c1]
=============================================================================
