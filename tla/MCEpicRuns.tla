------------------------------ MODULE MCEpicRuns ------------------------------
(* Two cards, independent or one after the other, for TLC.                     *)
EXTENDS EpicRuns, TLC

CONSTANTS c1, c2

PairOrChain == {(c1 :> {}) @@ (c2 :> {}), (c1 :> {}) @@ (c2 :> {c1}), (c1 :> {c2}) @@ (c2 :> {})}
Symmetry == Permutations(Card)
=============================================================================
