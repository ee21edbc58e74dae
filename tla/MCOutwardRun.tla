----------------------------- MODULE MCOutwardRun -----------------------------
(* Instances of OutwardRun for TLC.                                           *)
EXTENDS OutwardRun, TLC

CONSTANTS h1, h2

Symmetry == Permutations(Handler)

OneToolTwice == <<"write_file", "write_file">>
ThreeSteps == <<"write_file", "delete_file", "write_file">>
===============================================================================
