--------------------------- MODULE MCReferences ---------------------------
\* Instances of References for TLC: the .cfg files give the constants.
EXTENDS References, TLC
ObjectSymmetry == Permutations(Objects)
=============================================================================
