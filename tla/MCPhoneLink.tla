----------------------------- MODULE MCPhoneLink -----------------------------
EXTENDS PhoneLink

\* A link the guided setup has made, which stores a broadcast address, on a PC
\* whose paired list is empty or full.
MCInit ==
  /\ Init
  /\ settings.address \in Beacon /\ paired \in {{}, Entry}

MCSpec == MCInit /\ [][Next]_vars /\ Fairness
=============================================================================
