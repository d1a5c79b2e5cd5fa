------------------------- MODULE MCAllocationReduce -------------------------
(* Small instances of AllocationReduce for TLC.                            *)
EXTENDS AllocationReduce

CONSTANTS d1, d2, r1, r2, p1, p2, p3

ReduceSymmetry ==
    Permutations(Runs) \cup Permutations(PlanIds) \cup Permutations(Deployments)
=============================================================================
