------------------------ MODULE MCCharacterSupervisor ------------------------
(***************************************************************************)
(* CharacterSupervisor with three requests for the voice, so that one can  *)
(* replace another that already waits, and one for the pose, so that a     *)
(* bundle can have two actions.                                            *)
(***************************************************************************)
EXTENDS CharacterSupervisor

CONSTANTS pose, voice, v1, v2, v3, p1

MCResourceOf == [a \in Action |-> IF a = p1 THEN pose ELSE voice]
=============================================================================
