------------------------ MODULE MCInteractionManager ------------------------
(* Instances of InteractionManager for TLC. *)
EXTENDS InteractionManager

CONSTANT c1
=============================================================================
