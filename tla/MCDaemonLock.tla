---------------------------- MODULE MCDaemonLock ----------------------------
EXTENDS DaemonLock

CONSTANTS p1, p2

OneAddress == [p \in Proc |-> 7801]
=============================================================================
