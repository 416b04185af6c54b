------------------------------ MODULE MCSendPath ------------------------------
EXTENDS SendPath, TLC
Slots == Permutations(Thread)

\* The first row may be retried once; a second row is sent beside it.
FirstIsRetried == [i \in Id |-> IF i = 1 THEN 2 ELSE 1]
=============================================================================
