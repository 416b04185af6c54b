----------------------------- MODULE MCThreadView -----------------------------
EXTENDS ThreadView

CONSTANTS c1, c2, t1, t2
=============================================================================
