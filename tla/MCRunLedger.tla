------------------------------ MODULE MCRunLedger ------------------------------
(* RunLedger with small sets of operations, files and outcomes. *)
EXTENDS RunLedger

Files == 1..2
Outcomes == {"done", "failed"}
AnyOperation == Permutations(Op)
===============================================================================
