--------------------------- MODULE MCHandleScopes ---------------------------
\* Instances of HandleScopes for TLC: the .cfg files give the constants.
EXTENDS HandleScopes
=============================================================================
