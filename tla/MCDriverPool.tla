---------------------------- MODULE MCDriverPool ----------------------------
EXTENDS DriverPoolInv, TLC

Symmetric == Permutations(Clients) \cup Permutations(Drivers)
=============================================================================
