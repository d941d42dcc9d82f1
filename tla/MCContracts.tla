------------------------------ MODULE MCContracts ------------------------------
(***************************************************************************)
(* The bridge's messages (Wire), the brain's answers (Decision), the lives *)
(* of the two programs (Programs), what the devices are told (PoseOutput)  *)
(* and the set-up of the motion model (Setup).  They share no state: a     *)
(* behaviour follows one of them, and the others rest.                     *)
(***************************************************************************)
EXTENDS Wire, Decision, Programs, PoseOutput, Setup

VARIABLE chapter

\* The benchmark's adapter lets through what production's does.
ASSUME AdaptersAgree == \A e \in Envelope : HermesAccepts(e) <=> ChatAccepts(e)

vars == <<chapter, wireVars, decisionVars, programVars, poseVars, setupVars>>

Init ==
    /\ chapter \in {"wire", "decision", "programs", "pose", "setup"}
    /\ WireInit /\ DecisionInit /\ ProgramsInit /\ PoseInit /\ SetupInit
    /\ chapter = "wire" \/ peer = Version
    /\ \/ chapter = "decision"
       \/ policy = "always" /\ provider = "none" /\ behaviors = {} /\ ~assets
    /\ chapter = "pose" \/ options = {"dry_run", "face"}

Next ==
    /\ UNCHANGED chapter
    /\ \/ /\ chapter = "wire" /\ WireNext
          /\ UNCHANGED <<decisionVars, programVars, poseVars, setupVars>>
       \/ /\ chapter = "decision" /\ DecisionNext
          /\ UNCHANGED <<wireVars, programVars, poseVars, setupVars>>
       \/ /\ chapter = "programs" /\ ProgramsNext
          /\ UNCHANGED <<wireVars, decisionVars, poseVars, setupVars>>
       \/ /\ chapter = "pose" /\ PoseNext
          /\ UNCHANGED <<wireVars, decisionVars, programVars, setupVars>>
       \/ /\ chapter = "setup" /\ SetupNext
          /\ UNCHANGED <<wireVars, decisionVars, programVars, poseVars>>

Spec == Init /\ [][Next]_vars /\ ProgramsFair
=============================================================================
