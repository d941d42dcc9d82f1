---------------------------- MODULE MCInteraction ----------------------------
(***************************************************************************)
(* Interaction on small instances.                                         *)
(***************************************************************************)
EXTENDS Interaction
=============================================================================
