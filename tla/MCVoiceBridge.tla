---------------------------- MODULE MCVoiceBridge ----------------------------
(***************************************************************************)
(* VoiceBridge on small instances.                                         *)
(***************************************************************************)
EXTENDS VoiceBridge, TLC

Symmetry == Permutations(Action) \cup Permutations(Session)
=============================================================================
