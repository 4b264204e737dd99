----------------------------- MODULE MCReplication -----------------------------
EXTENDS Replication, TLC
CONSTANTS a, b, a1, a2, b1
MCOwner == [s \in Session |-> IF s = b1 THEN b ELSE a]
SessionSymmetry == Permutations(Session \ {b1})
===============================================================================
