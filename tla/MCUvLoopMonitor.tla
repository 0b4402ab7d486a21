-------------------------- MODULE MCUvLoopMonitor --------------------------
\* Instances of UvLoopMonitor for TLC: the .cfg files give the constants.
EXTENDS UvLoopMonitor
=============================================================================
