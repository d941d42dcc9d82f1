------------------------------ MODULE MCFollow ------------------------------
(***************************************************************************)
(* A small instance of the follower (Follow) and of the process that tells *)
(* it where its player is (Perception): see Follow.cfg for its bounds.     *)
(* What the follower may receive, in any order, is all that the other may  *)
(* send, and it answers nothing: a behaviour follows one of the two, and   *)
(* the other rests.                                                        *)
(***************************************************************************)
EXTENDS Follow, Perception, TLC

CONSTANT player

VARIABLE process

bothVars == <<process, vars, perceptionVars>>

BothInit ==
    /\ process \in {"follow", "perception"}
    /\ Init /\ PerceptionInit
    /\ process = "perception" \/ named

BothNext ==
    /\ UNCHANGED process
    /\ \/ process = "follow" /\ Next /\ UNCHANGED perceptionVars
       \/ process = "perception" /\ PerceptionNext /\ UNCHANGED vars

BothSpec == BothInit /\ [][BothNext]_bothVars

\* The processes the follower hears differ in nothing but their names.
Symmetry == Permutations(Session)
=============================================================================
