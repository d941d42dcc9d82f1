------------------------------ MODULE MCMotion ------------------------------
(***************************************************************************)
(* A small instance of the motion director: see Motion.cfg for its bounds. *)
(***************************************************************************)
EXTENDS Motion
=============================================================================
