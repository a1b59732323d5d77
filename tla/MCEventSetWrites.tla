-------------------------- MODULE MCEventSetWrites --------------------------
EXTENDS EventSetWrites, TLC
=============================================================================
