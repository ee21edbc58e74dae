---------------------------- MODULE MCGiteaWorker ----------------------------
(* Instances of GiteaWorker for TLC.                                          *)
EXTENDS GiteaWorker, TLC

CONSTANTS w1, w2, w3

Symmetry == Permutations(Worker)
==============================================================================
