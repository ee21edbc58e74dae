-------------------------- MODULE MCCoordinatorStore --------------------------
(* Instances of CoordinatorStore for TLC.                                     *)
EXTENDS CoordinatorStore, TLC

CONSTANTS n1, n2, n3
=============================================================================
