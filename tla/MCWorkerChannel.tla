-------------------------- MODULE MCWorkerChannel --------------------------
\* Instances of WorkerChannel for TLC: the .cfg files give the constants.
EXTENDS WorkerChannel
CONSTANTS t1, t2
=============================================================================
