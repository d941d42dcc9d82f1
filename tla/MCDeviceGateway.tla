--------------------------- MODULE MCDeviceGateway ---------------------------
(***************************************************************************)
(* DeviceGateway on small instances.  Sessions that are closed keep their  *)
(* ids apart, but which id is which never matters.                         *)
(***************************************************************************)
EXTENDS DeviceGateway, TLC

Symmetry == Permutations(Session) \cup Permutations(Action)
=============================================================================
