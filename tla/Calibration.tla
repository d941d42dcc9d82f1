------------------------------ MODULE Calibration ------------------------------
(***************************************************************************)
(* A pose calibration on the Windows side: calibration_session.py, the     *)
(* part of windows_companion_api.py it is called through, and              *)
(* tracker_device_controller.py, which writes the poses.  The threads:     *)
(*   - the HTTP threads of the wizard, one call at a time (request);       *)
(*   - the watchdog, and the shutdown of the device plane;                 *)
(*   - the bridge client of an agent that connects when it may;            *)
(*   - the tracker's output thread, which writes the target all the time.  *)
(* A method of CalibrationSession keeps its lock throughout but lets the   *)
(* others work between its calls to the gateway and to the tracker: op is  *)
(* the method that holds the lock.  The gateway is DeviceGateway itself.   *)
(*                                                                         *)
(* A method starts by expiring an overdue calibration.  That is Poll here, *)
(* and a method does not begin before it is done.                          *)
(***************************************************************************)
EXTENDS Integers

CONSTANTS
    Calibration,    \* the tokens of calibrations, session ids of the gateway
    Agent,          \* the session ids of agents
    AgentAction,    \* the agent's action id
    None,           \* Python's None
    MaxCalls,       \* bound on the wizard's calls
    MaxEpoch        \* bound on the VRChat targets

VARIABLES
    \* TrackerDeviceController
    target,     \* _target_frame; None is the safe frame
    revision,   \* target_revision
    applied,    \* applied_revision
    running,
    io,         \* what each thread in flush_target is about to write
    shown,      \* the frame written last
    \* CalibrationSession
    record,     \* _record
    sequence,   \* _sequence
    overdue,    \* the deadline has passed
    closed,     \* _closed
    op,         \* the method that holds the lock
    \* WindowsCompanionControlService
    epoch,      \* the VRChat target the sensors are attached to, or None
    epochs,     \* how many there were
    bound,      \* _calibration_target
    request,    \* the call of the wizard under way
    calls,      \* how many there were
    \* DeviceGateway
    session, exclusive, resources, device, now, opened, revoked,
    \* history
    begun,      \* the VRChat target the calibration was started on
    confirmedOn,\* the VRChat target it was confirmed on
    seen        \* the frames written so far

trackerVars == <<target, revision, applied, running, io, shown, seen>>
apiVars == <<bound, request, calls>>
epochVars == <<epoch, epochs>>
gatewayVars == <<session, exclusive, resources, device, now, opened, revoked>>
historyVars == <<begun, confirmedOn>>

vars == <<trackerVars, record, sequence, overdue, closed, op, apiVars, epochVars,
          gatewayVars, historyVars>>

Pose == "pose"
Writer == {"output", "calibration"}

Gateway == INSTANCE DeviceGateway WITH
    Resource <- {Pose}, Session <- Calibration \cup Agent,
    Action <- Calibration \cup {AgentAction}, Faulty <- {Pose},
    Token <- {1}, Sequence <- 0..MaxCalls, TTL <- {1}, Horizon <- 0

Call == {"start", "update", "heartbeat", "confirm", "cancel"}

\* The values of the variables
Frames == [by : Calibration \cup Agent, revision : Nat] \cup {None}
Writes == [frame : Frames, revision : Nat]
Records == [token : Calibration, revision : Nat, restored : BOOLEAN,
            state : {"active", "confirmed", "canceled", "expired", "failed"}]
Methods == [stage : {"claim", "authorize", "apply", "flush", "restore", "safe", "release"},
            ending : {"confirmed", "canceled", "expired", "failed"},
            caller : {"client", "watchdog", "close"}]
Epochs == 1..MaxEpoch \cup {None}
Requests == [kind : Call, epoch : Epochs]

\* Session ids are uuid4 on both sides, and none of the code's values is None.
ASSUME CalibrationAssumption ==
    /\ {MaxCalls, MaxEpoch} \subseteq Nat
    /\ Calibration \cap Agent = {}
    /\ None \notin Calibration \cup Agent \cup {AgentAction} \cup Int
    /\ None \notin Writes \cup Records \cup Methods \cup Requests
    /\ None \notin [by : Calibration \cup Agent, revision : Nat]
    /\ None \notin Gateway!Lease \cup Gateway!Frame

Frame(by, n) == [by |-> by, revision |-> n]
Active == record # None /\ record.state = "active"

----------------------------------------------------------------------------
(***************************************************************************)
(* TrackerDeviceController                                                 *)
(***************************************************************************)
\* Nobody is inside the I/O lock.
Unlocked == \A w \in Writer : io[w] = None

\* send, called under the gateway's lock
Aim(frame) ==
    /\ target' = frame
    /\ revision' = revision + 1
    /\ UNCHANGED <<applied, running, io, shown, seen>>

\* Faulty variants of the definitions, each ahead of the one it would replace,
\* are named after it: a run that fails with one shows what its property is for.

\* Faulty: does not wait for the I/O lock.
GoSafeAtOnce(failed) ==
    /\ target' = None
    /\ revision' = revision + 1
    /\ \/ /\ running
          /\ running' = (failed = {})
          /\ shown' = IF failed = {} THEN None ELSE shown
       \/ /\ ~running /\ failed = {}
          /\ UNCHANGED <<running, shown>>
    /\ UNCHANGED <<applied, io, seen>>

\* neutralize_pose, called under the gateway's lock: waits for the I/O lock and
\* writes the safe frame.  Once the output has failed it writes nothing more,
\* and says nothing either.
GoSafe(failed) ==
    /\ target' = None
    /\ revision' = revision + 1
    /\ \/ /\ running /\ Unlocked
          /\ running' = (failed = {})
          /\ shown' = IF failed = {} THEN None ELSE shown
       \/ /\ ~running /\ failed = {}
          /\ UNCHANGED <<running, shown>>
    /\ UNCHANGED <<applied, io, seen>>

\* flush_target takes the I/O lock, then the frame,
FlushReads(w) ==
    /\ running /\ Unlocked
    /\ io' = [io EXCEPT ![w] = [frame |-> target, revision |-> revision]]
    /\ UNCHANGED <<target, revision, applied, running, shown, seen>>

\* and writes it.  A write that fails stops the output for good.
FlushWrites(w) ==
    /\ io[w] # None
    /\ io' = [io EXCEPT ![w] = None]
    /\ \/ /\ shown' = io[w].frame
          /\ seen' = seen \cup {shown'}
          /\ applied' = io[w].revision
          /\ UNCHANGED running
       \/ /\ running' = FALSE
          /\ UNCHANGED <<shown, seen, applied>>
    /\ UNCHANGED <<target, revision>>

\* The output thread
Output ==
    /\ FlushReads("output") \/ FlushWrites("output")
    /\ UNCHANGED <<record, sequence, overdue, closed, op, apiVars, epochVars>>
    /\ UNCHANGED <<gatewayVars, historyVars>>

----------------------------------------------------------------------------
(***************************************************************************)
(* The wizard's calls: calibrate reads the VRChat target, and then waits   *)
(* for the calibration.                                                    *)
(***************************************************************************)
Ask(kind) ==
    /\ request = None /\ calls < MaxCalls
    /\ calls' = calls + 1
    /\ request' = [kind |-> kind, epoch |-> epoch]
    /\ UNCHANGED <<trackerVars, record, sequence, overdue, closed, op, bound, epochVars>>
    /\ UNCHANGED <<gatewayVars, historyVars>>

\* A method may begin for a call of one of these kinds.
Called(kinds) ==
    /\ request # None /\ request.kind \in kinds
    /\ op = None
    /\ ~(Active /\ overdue)

Method(stage, ending, caller) == [stage |-> stage, ending |-> ending, caller |-> caller]

OnTarget == request.epoch # None /\ request.epoch = bound

Refused ==
    /\ Called(Call)
    /\ \/ /\ request.kind = "start"
          /\ request.epoch = None \/ closed \/ Active \/ ~running \/ target # None
       \/ request.kind # "start" /\ ~Active
    /\ request' = None
    /\ UNCHANGED <<trackerVars, record, sequence, overdue, closed, op, bound, calls, epochVars>>
    /\ UNCHANGED <<gatewayVars, historyVars>>

\* start again under the request id of the calibration that runs
RepeatStart ==
    /\ Called({"start"})
    /\ request.epoch # None /\ Active /\ ~closed
    /\ bound' = request.epoch
    /\ request' = None
    /\ UNCHANGED <<trackerVars, record, sequence, overdue, closed, op, calls, epochVars>>
    /\ UNCHANGED <<gatewayVars, historyVars>>

Start ==
    /\ Called({"start"})
    /\ request.epoch # None
    /\ ~closed /\ ~Active /\ running /\ target = None
    /\ op' = Method("claim", "failed", "client")
    /\ UNCHANGED <<trackerVars, record, sequence, overdue, closed, apiVars, epochVars>>
    /\ UNCHANGED <<gatewayVars, historyVars>>

Update ==
    /\ Called({"update"})
    /\ Active /\ OnTarget
    /\ record' = [record EXCEPT !.revision = @ + 1]
    /\ op' = Method("apply", "failed", "client")
    /\ UNCHANGED <<trackerVars, sequence, overdue, closed, apiVars, epochVars>>
    /\ UNCHANGED <<gatewayVars, historyVars>>

Heartbeat ==
    /\ Called({"heartbeat"})
    /\ Active /\ OnTarget
    /\ op' = Method("apply", "failed", "client")
    /\ UNCHANGED <<trackerVars, record, sequence, overdue, closed, apiVars, epochVars>>
    /\ UNCHANGED <<gatewayVars, historyVars>>

\* finish, and what becomes of any call once VRChat has changed
Finish ==
    /\ Called(Call \ {"start"})
    /\ Active
    /\ \/ /\ request.kind = "confirm" /\ OnTarget
          /\ op' = Method("restore", "confirmed", "client")
       \/ /\ request.kind = "cancel" \/ ~OnTarget
          /\ op' = Method("restore", "canceled", "client")
    /\ UNCHANGED <<trackerVars, record, sequence, overdue, closed, apiVars, epochVars>>
    /\ UNCHANGED <<gatewayVars, historyVars>>

\* Faulty: nobody looks at the deadline.
PollNever == FALSE

\* poll: the watchdog's, or a method's first step
Poll ==
    /\ op = None /\ Active /\ overdue
    /\ op' = Method("restore", "expired", "watchdog")
    /\ UNCHANGED <<trackerVars, record, sequence, overdue, closed, apiVars, epochVars>>
    /\ UNCHANGED <<gatewayVars, historyVars>>

Close ==
    /\ op = None /\ ~closed
    /\ closed' = TRUE
    /\ op' = IF Active THEN Method("restore", "canceled", "close") ELSE None
    /\ UNCHANGED <<trackerVars, record, sequence, overdue, apiVars, epochVars>>
    /\ UNCHANGED <<gatewayVars, historyVars>>

----------------------------------------------------------------------------
(***************************************************************************)
(* The rest of the methods                                                 *)
(***************************************************************************)
\* The method returns or raises, and the call it was made for with it.
Return ==
    /\ op' = None
    /\ request' = IF op.caller = "client" THEN None ELSE request

Ended(state, restored) == [record EXCEPT !.state = state, !.restored = restored]

At(stage) == op # None /\ op.stage = stage

\* start claims the gateway, unless an agent came first
Claim(c, failed) ==
    /\ At("claim")
    /\ Gateway!ClaimExclusiveSession(c, failed)
    /\ GoSafe(failed)
    /\ record' = [token |-> c, state |-> "active", revision |-> 0, restored |-> FALSE]
    /\ sequence' = 0
    /\ overdue' = TRUE
    /\ begun' = request.epoch
    /\ confirmedOn' = None
    /\ op' = [op EXCEPT !.stage = "authorize"]
    /\ UNCHANGED <<closed, apiVars, epochVars>>

ClaimRefused ==
    /\ At("claim")
    /\ session # None
    /\ Return
    /\ UNCHANGED <<trackerVars, record, sequence, overdue, closed, bound, calls, epochVars>>
    /\ UNCHANGED <<gatewayVars, historyVars>>

Authorize ==
    /\ At("authorize")
    /\ Gateway!Authorize(record.token, Pose, 1, record.token)
    /\ op' = [op EXCEPT !.stage = "apply"]
    /\ UNCHANGED <<trackerVars, record, sequence, overdue, closed, apiVars, epochVars, historyVars>>

\* _apply hands the pose to the gateway; a tracker that has failed refuses it
Apply ==
    /\ At("apply")
    /\ IF running
       THEN /\ Gateway!ApplyEnvelope(record.token, Pose, 1, record.token, sequence, 1, now, now)
            /\ Aim(Frame(record.token, record.revision))
            /\ sequence' = sequence + 1
            /\ op' = [op EXCEPT !.stage = "flush"]
       ELSE /\ op' = [op EXCEPT !.stage = "restore"]
            /\ UNCHANGED <<sequence, trackerVars, gatewayVars>>
    /\ UNCHANGED <<record, overdue, closed, apiVars, epochVars, historyVars>>

\* and waits until it is written.
Flush ==
    /\ At("flush")
    /\ \/ /\ FlushReads("calibration")
          /\ UNCHANGED <<op, overdue, bound, request>>
       \/ /\ FlushWrites("calibration")
          /\ IF running'
             THEN /\ overdue' = FALSE
                  /\ bound' = IF request.kind = "start" THEN request.epoch ELSE bound
                  /\ Return
             ELSE /\ op' = [op EXCEPT !.stage = "restore"]
                  /\ UNCHANGED <<overdue, bound, request>>
       \/ /\ ~running /\ io["calibration"] = None
          /\ op' = [op EXCEPT !.stage = "restore"]
          /\ UNCHANGED <<overdue, bound, request, trackerVars>>
    /\ UNCHANGED <<record, sequence, closed, calls, epochVars, gatewayVars, historyVars>>

\* _restore goes neutral through the gateway,
Restore(failed) ==
    /\ At("restore")
    /\ Gateway!Neutralize(record.token, Pose, 1, failed)
    /\ GoSafe(failed)
    /\ IF failed = {}
       THEN /\ op' = [op EXCEPT !.stage = "safe"]
            /\ UNCHANGED <<record, request>>
       ELSE /\ record' = Ended("failed", FALSE)
            /\ Return
    /\ UNCHANGED <<sequence, overdue, closed, bound, calls, epochVars, historyVars>>

\* waits until the safe frame is written,
RestoreFlush ==
    /\ At("safe")
    /\ \/ /\ FlushReads("calibration")
          /\ UNCHANGED <<op, record, request>>
       \/ /\ FlushWrites("calibration")
          /\ IF running'
             THEN /\ op' = [op EXCEPT !.stage = "release"]
                  /\ UNCHANGED <<record, request>>
             ELSE /\ record' = Ended("failed", FALSE)
                  /\ Return
       \/ /\ ~running /\ io["calibration"] = None
          /\ record' = Ended("failed", FALSE)
          /\ Return
          /\ UNCHANGED trackerVars
    /\ UNCHANGED <<sequence, overdue, closed, bound, calls, epochVars, gatewayVars, historyVars>>

\* and gives up the claim.
Release ==
    /\ At("release")
    /\ IF target = None /\ applied = revision
       THEN /\ Gateway!ReleaseExclusiveSession(record.token)
            /\ record' = Ended(op.ending, TRUE)
            /\ confirmedOn' = IF op.ending = "confirmed" THEN request.epoch ELSE confirmedOn
       ELSE /\ record' = Ended("failed", FALSE)
            /\ UNCHANGED <<gatewayVars, confirmedOn>>
    /\ Return
    /\ UNCHANGED <<trackerVars, sequence, overdue, closed, bound, calls, epochVars, begun>>

----------------------------------------------------------------------------
(***************************************************************************)
(* The agent's bridge client, VRChat, the clock and the end of the service *)
(***************************************************************************)
Elsewhere == <<record, sequence, overdue, closed, op, apiVars, epochVars, historyVars>>

AgentOpens(s, failed) ==
    /\ Gateway!OpenSession(s, failed)
    /\ GoSafe(failed)
    /\ UNCHANGED Elsewhere

AgentAuthorizes(s) ==
    /\ Gateway!Authorize(s, Pose, 1, AgentAction)
    /\ UNCHANGED <<trackerVars, Elsewhere>>

AgentMoves(s) ==
    /\ running
    /\ Gateway!ApplyEnvelope(s, Pose, 1, AgentAction, 0, 1, now, now)
    /\ Aim(Frame(s, 0))
    /\ UNCHANGED Elsewhere

AgentStops(s, failed) ==
    /\ Gateway!Neutralize(s, Pose, 1, failed)
    /\ resources[Pose].action # None
    /\ GoSafe(failed)
    /\ UNCHANGED Elsewhere

AgentCloses(s, failed) ==
    /\ Gateway!CloseSession(s, failed)
    /\ GoSafe(failed)
    /\ UNCHANGED Elsewhere

\* VRChat ends, or another one is found.
VrchatChanges ==
    /\ IF epoch = None
       THEN /\ epochs < MaxEpoch
            /\ epochs' = epochs + 1
            /\ epoch' = epochs'
       ELSE epoch' = None /\ UNCHANGED epochs
    /\ UNCHANGED <<trackerVars, record, sequence, overdue, closed, op, apiVars>>
    /\ UNCHANGED <<gatewayVars, historyVars>>

\* Five seconds pass without a sign of the wizard.
TimePasses ==
    /\ Active /\ ~overdue
    /\ overdue' = TRUE
    /\ UNCHANGED <<trackerVars, record, sequence, closed, op, apiVars, epochVars>>
    /\ UNCHANGED <<gatewayVars, historyVars>>

\* The device plane stops the bridge and then closes its devices.
DevicesClose ==
    /\ closed /\ op = None /\ session \notin Agent
    /\ running /\ Unlocked
    /\ target' = None
    /\ revision' = revision + 1
    /\ running' = FALSE
    /\ shown' \in {None, shown}
    /\ UNCHANGED <<applied, io, seen, gatewayVars, Elsewhere>>

----------------------------------------------------------------------------
Init ==
    /\ target = None /\ revision = 0 /\ applied = -1 /\ running = TRUE
    /\ io = [w \in Writer |-> None]
    /\ shown = None /\ seen = {None}
    /\ record = None /\ sequence = 0 /\ overdue = TRUE /\ closed = FALSE /\ op = None
    /\ epoch = None /\ epochs = 0 /\ bound = None /\ request = None /\ calls = 0
    /\ Gateway!Init
    /\ begun = None /\ confirmedOn = None

\* What the holder of the calibration's lock does next
Continue ==
    \/ \E failed \in SUBSET {Pose} :
         \/ \E c \in Calibration : Claim(c, failed)
         \/ Restore(failed)
    \/ ClaimRefused \/ Authorize \/ Apply \/ Flush \/ RestoreFlush \/ Release

Wizard ==
    \/ \E kind \in Call : Ask(kind)
    \/ Refused \/ RepeatStart \/ Start \/ Update \/ Heartbeat \/ Finish

BridgeClient ==
    \E s \in Agent :
        \/ \E failed \in SUBSET {Pose} : \/ AgentOpens(s, failed)
                                         \/ AgentStops(s, failed)
                                         \/ AgentCloses(s, failed)
        \/ AgentAuthorizes(s)
        \/ AgentMoves(s)

Next ==
    \/ Wizard \/ Continue \/ Poll \/ Close
    \/ Output \/ BridgeClient
    \/ VrchatChanges \/ TimePasses \/ DevicesClose

\* The watchdog looks five times a second, time passes, and a method goes on
\* once the I/O lock, which is held for one write at a time, is free.
Fairness ==
    /\ WF_vars(TimePasses)
    /\ WF_vars(Poll)
    /\ WF_vars(Output)
    /\ SF_vars(Continue)

Spec == Init /\ [][Next]_vars
FairSpec == Spec /\ Fairness

----------------------------------------------------------------------------
\* Every variable has the type the code gives it.
TypeOK ==
    /\ {target, shown} \cup seen \subseteq Frames
    /\ revision \in Nat /\ applied \in Int /\ sequence \in Nat
    /\ {running, overdue, closed} \subseteq BOOLEAN
    /\ io \in [Writer -> Writes \cup {None}]
    /\ record \in Records \cup {None}
    /\ op \in Methods \cup {None}
    /\ {epoch, bound, begun, confirmedOn} \subseteq Epochs
    /\ request \in Requests \cup {None}
    /\ Gateway!TypeOK

\* The frames that are on the device or about to be.
Written == {shown} \cup {io[w].frame : w \in {v \in Writer : io[v] # None}}

\* Between two calls the device shows the very pose and revision the wizard was
\* told of: that is what the user looks at when confirming (_apply flushes).
\* A confirmed pose was on the device, in the revision confirmed, and the
\* device was safe again afterwards.
ActiveIsShown ==
    /\ Active /\ op = None /\ running => Written = {Frame(record.token, record.revision)}
    /\ record # None /\ record.state = "confirmed" =>
         Frame(record.token, record.revision) \in seen /\ record.restored

\* With no session open a working tracker shows the safe frame and nobody is
\* about to write another (tracker_device_controller.py:235-247).
QuietIsSafe ==
    session = None /\ running => Written = {None}

\* Both: what the device shows, and what is about to be written to it, is the
\* wizard's pose while a calibration is active and nothing is under way, and the
\* safe frame when nobody is connected, whatever the output thread, a flush and
\* the transition to the safe frame were doing when the other came.
ShownAsRecorded == ActiveIsShown /\ QuietIsSafe

\* An agent is let in only once the safe pose was observed: a calibration that
\* could not be restored keeps the output for ever (calibration_session.py:121),
\* and nothing of a calibration is written under an agent's session.
AgentFindsRestored ==
    session \in Agent =>
        /\ record # None => record.restored
        /\ running => \A f \in Written \ {None} : f.by = session

\* A wizard that has gone, for whatever reason, does not keep the output: every
\* calibration ends.
CalibrationEnds == Active ~> ~Active

\* A calibration that is confirmed began on the same VRChat target; once it
\* changes the calibration has to be started anew.
ConfirmedOnItsTarget ==
    record # None /\ record.state = "confirmed" => confirmedOn = begun
=============================================================================
