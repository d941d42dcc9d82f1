------------------------------ MODULE MCRunner ------------------------------
(* The service runner on a small instance: see Runner.cfg. *)
EXTENDS Runner
=============================================================================
