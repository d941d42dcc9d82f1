----------------------------- MODULE MCSensors -----------------------------
(***************************************************************************)
(* A small instance of the senses (Sensors), and of the search for the     *)
(* VRChat they are attached to (Identity): see Sensors.cfg for the bounds. *)
(* A session takes whatever the search finds, so that the two need not     *)
(* move in one behaviour: one is followed, the other rests.                *)
(***************************************************************************)
EXTENDS Sensors, Identity

VARIABLE followed

bothVars == <<followed, sensorsVars, identityVars>>

BothInit == followed \in {"sensors", "identity"} /\ SensorsInit /\ IdentityInit

BothNext ==
    /\ UNCHANGED followed
    /\ \/ followed = "sensors" /\ SensorsNext /\ UNCHANGED identityVars
       \/ followed = "identity" /\ IdentityNext /\ UNCHANGED sensorsVars

BothSpec == BothInit /\ [][BothNext]_bothVars /\ SensorsFairness
=============================================================================
