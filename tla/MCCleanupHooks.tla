--------------------------- MODULE MCCleanupHooks ---------------------------
\* Instances of CleanupHooks for TLC: the .cfg files give the constants.
EXTENDS CleanupHooks
CONSTANTS s1, s2, a1, a2
=============================================================================
