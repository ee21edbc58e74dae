-------------------------- MODULE MCCoordinatorApi --------------------------
(* Instances of CoordinatorApi for TLC.                                       *)
EXTENDS CoordinatorApi, TLC

CONSTANTS n1, n2, k1, k2

\* Requests, and nodes, are interchangeable.
Symmetry == Permutations(Task) \cup Permutations(Node)
=============================================================================
