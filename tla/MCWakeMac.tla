------------------------------ MODULE MCWakeMac ------------------------------
EXTENDS WakeMac
=============================================================================
