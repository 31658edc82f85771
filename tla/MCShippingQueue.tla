--------------------------- MODULE MCShippingQueue ---------------------------
EXTENDS ShippingQueue, TLC

\* Passes are interchangeable: nothing orders or tells them apart.
Alike == Permutations(Pass)
=============================================================================
