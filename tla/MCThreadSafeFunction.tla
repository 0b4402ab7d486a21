------------------------ MODULE MCThreadSafeFunction ------------------------
\* Instances of ThreadSafeFunction for TLC: the .cfg files give the constants.
EXTENDS ThreadSafeFunction, TLC
CONSTANTS t1, t2, t3
OwnersSymmetry == Permutations({t1, t2})
=============================================================================
