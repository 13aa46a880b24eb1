------------------------- MODULE MCDelayedAllocShm -------------------------
EXTENDS DelayedAllocShm, TLC
\* Slaves are interchangeable, and so are clients.
MCSymmetry == Permutations(Slaves) \cup Permutations(Clients)
=============================================================================
