---------------------------- MODULE MCAsyncWork ----------------------------
\* Instances of AsyncWork for TLC: the .cfg files give the constants.
EXTENDS AsyncWork
CONSTANTS w1, w2, w3, p1, p2
=============================================================================
