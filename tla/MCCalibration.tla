---------------------------- MODULE MCCalibration ----------------------------
(***************************************************************************)
(* Calibration on small instances.                                         *)
(***************************************************************************)
EXTENDS Calibration
=============================================================================
