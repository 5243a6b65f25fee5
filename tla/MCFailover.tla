----------------------------- MODULE MCFailover -----------------------------
EXTENDS Failover, TLC

ProcSymmetry == Permutations(Procs)
=============================================================================
