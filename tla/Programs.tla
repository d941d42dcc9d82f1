------------------------------- MODULE Programs -------------------------------
(***************************************************************************)
(* The two programs from start to end: how each brings its components up,  *)
(* how it takes them down again, in which order and whatever raises on the *)
(* way, and the connection between them.  The Windows program drives the   *)
(* devices: one thread writes the trackers at its rate, one keeps the      *)
(* bridge to the Mac, one plays a speech, and requests of a calibration    *)
(* come in by HTTP.  All of them are daemons: they end with the program.   *)
(* The trackers stay: they go on showing what they were last told.         *)
(*                                                                         *)
(* Who owns the devices, and what a session or a calibration may do with   *)
(* them, is the subject of DeviceGateway and Calibration.  Here a session  *)
(* shows a pose or speaks, a calibration is a pose of its own.             *)
(***************************************************************************)
EXTENDS Integers, Sequences

CONSTANT MaxMessages        \* what the Mac sends in all

VARIABLES
    main,       \* where the main thread of the Windows program is
    late,       \* what raised as it was stopped: "control", a "thread" that did not
                \* end in time, or "tracker", which also stands for a failed write
    http,       \* "down" or "up"; and whether a calibration has been asked for
    asked,
    tracker,    \* the controller: see NewTracker
    vmt,        \* what the trackers show: "nothing", "safe", "action" or "off"
    bridge,     \* where the bridge thread is
    halting,    \* the bridge thread has been told to stop
    message,    \* the message it is handling
    player,     \* "idle", "playing" or "stopping"
    calibrating, calibrationClosed,
    mac,        \* where the main thread of the Mac program is
    server,     \* whether its bridge takes connections
    link, net,  \* the connection, "none", "open" or "cut", and what is on its way
    sentInAll

windowsVars == <<main, late, http, asked, calibrating, calibrationClosed>>
deviceVars == <<tracker, vmt, player>>
bridgeVars == <<bridge, halting, message>>
macVars == <<mac, server, sentInAll>>
linkVars == <<link, net>>
programVars == <<windowsVars, deviceVars, bridgeVars, macVars, linkVars>>

NewTracker == [running |-> FALSE, closed |-> FALSE, loop |-> "none", target |-> "safe"]

To(pc) == main' = pc
Late(what) == late' = late \cup {what}

----------------------------------------------------------------------------
(***************************************************************************)
(* The tracker controller.                                                 *)
(***************************************************************************)
\* A write succeeds, or fails and the controller with it.
Write(frame) ==
    \/ vmt' = frame /\ UNCHANGED <<tracker, late>>
    \/ tracker' = [tracker EXCEPT !.running = FALSE] /\ Late("tracker") /\ UNCHANGED vmt

\* The loop; what it writes is read under the lock it writes under.
TrackerTick ==
    /\ tracker.loop = "run" /\ tracker.running /\ ~tracker.closed
    /\ vmt' = tracker.target
    /\ UNCHANGED <<windowsVars, tracker, player, bridgeVars, macVars, linkVars>>

TrackerFails ==
    /\ tracker.loop = "run" /\ tracker.running /\ ~tracker.closed
    /\ tracker' = [tracker EXCEPT !.running = FALSE, !.loop = "done"]
    /\ Late("tracker")
    /\ UNCHANGED <<main, http, asked, calibrating, calibrationClosed, vmt, player, bridgeVars, macVars,
                   linkVars>>

TrackerLoopEnds ==
    /\ tracker.loop = "run" /\ (tracker.closed \/ ~tracker.running)
    /\ tracker' = [tracker EXCEPT !.loop = "done"]
    /\ UNCHANGED <<windowsVars, vmt, player, bridgeVars, macVars, linkVars>>

\* neutralize_pose: the target first, and then, if the controller was running,
\* a write of it, before which another may have closed the sink.
Rest == IF tracker.closed THEN tracker ELSE [tracker EXCEPT !.target = "safe"]
WriteRest ==
    IF tracker.running /\ vmt # "off" THEN Write("safe") ELSE UNCHANGED <<tracker, vmt, late>>

----------------------------------------------------------------------------
(***************************************************************************)
(* The Windows program starts.                                             *)
(***************************************************************************)
\* When a part fails to start, what there is of the device plane is taken down.
GivesUp == To("close_calibration")

\* The trackers stream before anything else.
StartTracker ==
    /\ main = "devices"
    /\ \/ /\ vmt' = "safe"
          /\ tracker' = [tracker EXCEPT !.running = TRUE, !.loop = "run"]
          /\ To("bridge") /\ UNCHANGED late
       \/ GivesUp /\ Late("tracker") /\ UNCHANGED <<tracker, vmt>>
    /\ UNCHANGED <<http, asked, calibrating, calibrationClosed, player, bridgeVars, macVars, linkVars>>

StartBridge ==
    /\ main = "bridge"
    /\ bridge' = "waiting" /\ To("sensors")
    /\ UNCHANGED <<late, http, asked, calibrating, calibrationClosed, deviceVars, halting, message,
                   macVars, linkVars>>

\* Sensors that fail to start have cleaned up after themselves.
StartSensors ==
    /\ main = "sensors"
    /\ To("control") \/ GivesUp
    /\ UNCHANGED <<late, http, asked, calibrating, calibrationClosed, deviceVars, bridgeVars, macVars,
                   linkVars>>

StartControl ==
    /\ main = "control"
    /\ http' = "up" /\ To("loop")
    /\ UNCHANGED <<late, asked, calibrating, calibrationClosed, deviceVars, bridgeVars, macVars, linkVars>>

\* It runs until it is asked to stop, interrupted, or without its sensors.
LeaveLoop ==
    /\ main = "loop"
    /\ To("stop_control")
    /\ UNCHANGED <<late, http, asked, calibrating, calibrationClosed, deviceVars, bridgeVars, macVars,
                   linkVars>>

----------------------------------------------------------------------------
(***************************************************************************)
(* The Windows program stops: every step is taken, whether or not those    *)
(* before it raised, but for the first, which is outside of the care that  *)
(* the others are under.                                                   *)
(***************************************************************************)
StopControl ==
    /\ main = "stop_control"
    /\ http' = "down"
    /\ \/ To("stop_sensors") /\ UNCHANGED late
       \/ To("exit") /\ Late("control")
    /\ UNCHANGED <<asked, calibrating, calibrationClosed, deviceVars, bridgeVars, macVars, linkVars>>

StopSensors ==
    /\ main = "stop_sensors"
    /\ To("close_calibration")
    /\ UNCHANGED <<late, http, asked, calibrating, calibrationClosed, deviceVars, bridgeVars, macVars,
                   linkVars>>

\* A calibration that is left is restored, and none begins any more; if it cannot
\* be restored it keeps the devices.
CloseCalibration ==
    /\ main = "close_calibration"
    /\ calibrationClosed' = TRUE
    /\ IF calibrating
       THEN LET rested == [tracker EXCEPT !.target = "safe"] IN
            \/ /\ tracker.running
               /\ vmt' = "safe" /\ tracker' = rested /\ calibrating' = FALSE /\ UNCHANGED late
            \/ /\ tracker' = [rested EXCEPT !.running = FALSE]
               /\ Late("tracker") /\ UNCHANGED <<vmt, calibrating>>
       ELSE UNCHANGED <<tracker, vmt, calibrating, late>>
    /\ To("stop_bridge")
    /\ UNCHANGED <<http, asked, player, bridgeVars, macVars, linkVars>>

\* The bridge thread is told; the connection it has by now is closed for it.
StopBridge ==
    /\ main = "stop_bridge"
    /\ halting' = TRUE
    /\ link' = IF bridge \in {"none", "waiting", "dialing"} THEN link ELSE "cut"
    /\ To(IF bridge = "none" THEN "rest_pose" ELSE "join_bridge")
    /\ UNCHANGED <<late, http, asked, calibrating, calibrationClosed, deviceVars, bridge, message,
                   macVars, net>>

\* Faulty: a bridge that is too late ends the shutdown.
JoinBridgeOrGiveUp ==
    /\ main = "join_bridge"
    /\ \/ bridge = "done" /\ To("rest_pose") /\ UNCHANGED late
       \/ bridge # "done" /\ To("exit") /\ Late("thread")
    /\ UNCHANGED <<http, asked, calibrating, calibrationClosed, deviceVars, bridgeVars, macVars, linkVars>>

JoinBridge ==
    /\ main = "join_bridge"
    /\ To("rest_pose")
    /\ IF bridge = "done" THEN UNCHANGED late ELSE Late("thread")
    /\ UNCHANGED <<http, asked, calibrating, calibrationClosed, deviceVars, bridgeVars, macVars, linkVars>>

\* WindowsDeviceSink.close: the pose, the voice, and then the trackers for good.
RestPose ==
    /\ main = "rest_pose"
    /\ tracker' = Rest /\ To("write_rest")
    /\ UNCHANGED <<late, http, asked, calibrating, calibrationClosed, vmt, player, bridgeVars, macVars,
                   linkVars>>

WriteRestPose ==
    /\ main = "write_rest"
    /\ WriteRest /\ To("rest_voice")
    /\ UNCHANGED <<http, asked, calibrating, calibrationClosed, player, bridgeVars, macVars, linkVars>>

StopPlayer == player' = IF player = "idle" THEN "idle" ELSE "stopping"

RestVoice ==
    /\ main = "rest_voice"
    /\ StopPlayer /\ To("join_player")
    /\ UNCHANGED <<late, http, asked, calibrating, calibrationClosed, tracker, vmt, bridgeVars, macVars,
                   linkVars>>

JoinPlayer ==
    /\ main = "join_player"
    /\ To("close_tracker")
    /\ IF player = "idle" THEN UNCHANGED late ELSE Late("thread")
    /\ UNCHANGED <<http, asked, calibrating, calibrationClosed, deviceVars, bridgeVars, macVars, linkVars>>

CloseTracker ==
    /\ main = "close_tracker"
    /\ tracker' = [tracker EXCEPT !.closed = TRUE] /\ To("join_tracker")
    /\ UNCHANGED <<late, http, asked, calibrating, calibrationClosed, vmt, player, bridgeVars, macVars,
                   linkVars>>

\* Once the loop has ended the trackers are switched off, even if the controller
\* had failed; a loop that has not ended keeps them.
JoinTracker ==
    /\ main = "join_tracker"
    /\ \/ /\ tracker.loop # "run"
          /\ \/ vmt' = "off" /\ UNCHANGED late
             \/ Late("tracker") /\ UNCHANGED vmt
          /\ tracker' = [tracker EXCEPT !.running = FALSE]
       \/ tracker.loop = "run" /\ Late("tracker") /\ UNCHANGED <<tracker, vmt>>
    /\ To("exit")
    /\ UNCHANGED <<http, asked, calibrating, calibrationClosed, player, bridgeVars, macVars, linkVars>>

\* All threads end with the program.
Exit ==
    /\ main = "exit" /\ To("over")
    /\ tracker' = NewTracker /\ player' = "idle" /\ bridge' = "none" /\ message' = "none"
    /\ http' = "down" /\ asked' = FALSE /\ calibrating' = FALSE
    /\ link' = "none" /\ net' = <<>>
    /\ UNCHANGED <<late, calibrationClosed, vmt, halting, macVars>>

----------------------------------------------------------------------------
(***************************************************************************)
(* Calibration, as far as the programs' lives go.  A request is handled by *)
(* a thread of its own, which the end of the server does not wait for.     *)
(***************************************************************************)
AskCalibration ==
    /\ http = "up" /\ ~asked
    /\ asked' = TRUE
    /\ UNCHANGED <<main, late, http, calibrating, calibrationClosed, deviceVars, bridgeVars, macVars,
                   linkVars>>

InSession == bridge \notin {"none", "waiting", "dialing", "done"}

StartCalibration ==
    /\ asked /\ ~calibrationClosed /\ ~calibrating /\ ~InSession
    /\ tracker.running /\ tracker.target = "safe"
    /\ calibrating' = TRUE
    /\ tracker' = [tracker EXCEPT !.target = "action"] /\ vmt' = "action"
    /\ UNCHANGED <<main, late, http, asked, calibrationClosed, player, bridgeVars, macVars, linkVars>>

EndCalibration ==
    /\ calibrating /\ tracker.running
    /\ calibrating' = FALSE
    /\ tracker' = [tracker EXCEPT !.target = "safe"] /\ vmt' = "safe"
    /\ UNCHANGED <<main, late, http, asked, calibrationClosed, player, bridgeVars, macVars, linkVars>>

----------------------------------------------------------------------------
(***************************************************************************)
(* The bridge thread: WindowsBridgeClient._run and _run_connection.        *)
(***************************************************************************)
Goes(pc) == bridge' = pc

Dial ==
    /\ bridge = "waiting" /\ Goes(IF halting THEN "done" ELSE "dialing")
    /\ UNCHANGED <<windowsVars, deviceVars, halting, message, macVars, linkVars>>

Reaches == server /\ link' = "open" /\ net' = <<>>

\* A calibration keeps the devices to itself: the session is refused.
Connect ==
    /\ bridge = "dialing"
    /\ \/ Reaches /\ ~calibrating /\ Goes("session")
       \/ Goes("waiting") /\ UNCHANGED linkVars
    /\ UNCHANGED <<windowsVars, deviceVars, halting, message, macVars>>

\* Told to stop, or cut off: what has come in already is not handled.
EndSession ==
    /\ bridge = "session" /\ (halting \/ link = "cut")
    /\ Goes("rest") /\ net' = <<>>
    /\ UNCHANGED <<windowsVars, deviceVars, halting, message, macVars, link>>

TakeMessage ==
    /\ bridge = "session" /\ ~halting /\ net # <<>>
    /\ message' = Head(net) /\ net' = Tail(net) /\ Goes("handling")
    /\ UNCHANGED <<windowsVars, deviceVars, halting, macVars, link>>

\* A pose or a speech that the device refuses changes nothing.
Handle ==
    /\ bridge = "handling"
    /\ CASE message = "pose" ->
              /\ tracker' = IF tracker.running /\ ~tracker.closed
                            THEN [tracker EXCEPT !.target = "action"] ELSE tracker
              /\ Goes("session") /\ UNCHANGED player
         [] message = "say" ->
              /\ player' = IF player = "idle" THEN "playing" ELSE player
              /\ Goes("session") /\ UNCHANGED tracker
         [] message = "rest" ->
              Goes("rest_then_go_on") /\ UNCHANGED <<tracker, player>>
    /\ message' = "none"
    /\ UNCHANGED <<windowsVars, vmt, halting, macVars, linkVars>>

\* Faulty: the end of a session leaves the devices alone.
RestSessionSkipped ==
    /\ bridge \in {"rest", "rest_then_go_on"}
    /\ IF bridge = "rest" THEN Goes("hushed") /\ UNCHANGED tracker
                          ELSE tracker' = Rest /\ Goes("write_then_go_on")
    /\ UNCHANGED <<windowsVars, vmt, player, halting, message, macVars, linkVars>>

\* The end of a session, like a fence, brings the devices to rest: what it does
\* not own is at rest already.
RestSession ==
    /\ bridge \in {"rest", "rest_then_go_on"}
    /\ tracker' = Rest
    /\ Goes(IF bridge = "rest" THEN "write" ELSE "write_then_go_on")
    /\ UNCHANGED <<windowsVars, vmt, player, halting, message, macVars, linkVars>>

WriteSession ==
    /\ bridge \in {"write", "write_then_go_on"}
    /\ WriteRest
    /\ StopPlayer
    /\ Goes(IF bridge = "write" THEN "hushed" ELSE "hushed_then_go_on")
    /\ UNCHANGED <<main, http, asked, calibrating, calibrationClosed, halting, message, macVars, linkVars>>

\* It waits for the player, and then dials again unless it is to stop.
Hushed ==
    /\ bridge \in {"hushed", "hushed_then_go_on"}
    /\ IF player = "idle" THEN UNCHANGED late ELSE Late("thread")
    /\ IF bridge = "hushed" THEN Goes("waiting") /\ link' = "none" /\ net' = <<>>
                            ELSE Goes("session") /\ UNCHANGED linkVars
    /\ UNCHANGED <<main, http, asked, calibrating, calibrationClosed, deviceVars, halting, message, macVars>>

PlayerEnds ==
    /\ player # "idle"
    /\ player' = "idle"
    /\ UNCHANGED <<windowsVars, tracker, vmt, bridgeVars, macVars, linkVars>>

----------------------------------------------------------------------------
(***************************************************************************)
(* The Mac program.                                                        *)
(***************************************************************************)
\* The motions, the bridge and the control, in this order; as soon as one fails
\* the program is taken down, what has not been started included: it has nothing
\* to stop.
Starts(component, next) ==
    /\ mac = component
    /\ mac' \in {next, "halt"}
    /\ UNCHANGED <<windowsVars, deviceVars, bridgeVars, sentInAll, linkVars>>

StartMotion == Starts("motion", "bridge") /\ UNCHANGED server
StartBridgeServer == Starts("bridge", "control") /\ server' = (mac' = "control")
StartMacControl == Starts("control", "loop") /\ UNCHANGED server

\* The bridge's server ends by itself: the connection it had goes on.
BridgeServerEnds ==
    /\ server /\ server' = FALSE
    /\ UNCHANGED <<windowsVars, deviceVars, bridgeVars, mac, sentInAll, linkVars>>

\* Until its bridge is stopped someone may still send something.
MacSends ==
    /\ mac # "over" /\ link = "open" /\ sentInAll < MaxMessages
    /\ \E m \in {"pose", "say"} : net' = Append(net, m)
    /\ sentInAll' = sentInAll + 1
    /\ UNCHANGED <<windowsVars, deviceVars, bridgeVars, mac, server, link>>

\* Interrupted, or without its bridge or its control.
MacLeavesLoop ==
    /\ mac = "loop"
    /\ mac' = "halt"
    /\ UNCHANGED <<windowsVars, deviceVars, bridgeVars, server, sentInAll, linkVars>>

\* Each step of the shutdown is tried, and what it raises is kept for later: the
\* control is stopped and the pipeline closed; the halt sends its fences while
\* there is a connection to send them over, and so does the motion director, after
\* a limited wait for the supervisor;
MacHalts ==
    /\ mac \in {"halt", "stop_motion"}
    /\ mac' = IF mac = "halt" THEN "stop_motion" ELSE "stop_bridge"
    /\ net' = IF link = "open" THEN Append(net, "rest") ELSE net
    /\ UNCHANGED <<windowsVars, deviceVars, bridgeVars, server, sentInAll, link>>

Hangs == link' = IF link = "open" THEN "cut" ELSE link

\* the bridge is stopped if it was started.  Whatever is left of the connection
\* ends with the program.
MacStopsBridge ==
    /\ mac = "stop_bridge"
    /\ mac' = "over" /\ server' = FALSE /\ Hangs
    /\ UNCHANGED <<windowsVars, deviceVars, bridgeVars, sentInAll, net>>

MacKilled ==
    /\ mac # "over"
    /\ mac' = "over" /\ server' = FALSE /\ Hangs
    /\ UNCHANGED <<windowsVars, deviceVars, bridgeVars, sentInAll, net>>

LinkLost ==
    /\ link = "open" /\ link' = "cut"
    /\ UNCHANGED <<windowsVars, deviceVars, bridgeVars, macVars, net>>

----------------------------------------------------------------------------
ProgramsInit ==
    /\ main = "devices" /\ late = {} /\ http = "down" /\ asked = FALSE
    /\ tracker = NewTracker /\ vmt = "nothing" /\ player = "idle"
    /\ bridge = "none" /\ halting = FALSE /\ message = "none"
    /\ calibrating = FALSE /\ calibrationClosed = FALSE
    /\ mac = "motion" /\ server = FALSE /\ sentInAll = 0
    /\ link = "none" /\ net = <<>>

MainNext ==
    \/ StartTracker \/ StartBridge \/ StartSensors \/ StartControl \/ LeaveLoop
    \/ StopControl \/ StopSensors \/ CloseCalibration \/ StopBridge \/ JoinBridge
    \/ RestPose \/ WriteRestPose \/ RestVoice \/ JoinPlayer \/ CloseTracker \/ JoinTracker \/ Exit

BridgeNext ==
    \/ Dial \/ Connect \/ EndSession \/ TakeMessage \/ Handle
    \/ RestSession \/ WriteSession \/ Hushed

MacNext ==
    \/ StartMotion \/ StartBridgeServer \/ StartMacControl \/ BridgeServerEnds
    \/ MacSends \/ MacLeavesLoop \/ MacHalts \/ MacStopsBridge

ProgramsNext ==
    \/ MainNext \/ BridgeNext \/ MacNext
    \/ TrackerTick \/ TrackerFails \/ TrackerLoopEnds \/ PlayerEnds
    \/ AskCalibration \/ StartCalibration \/ EndCalibration
    \/ MacKilled \/ LinkLost

\* The threads of the Windows program run.
ProgramsFair == WF_programVars(BridgeNext) /\ WF_programVars(PlayerEnds) /\ WF_programVars(TrackerTick)

----------------------------------------------------------------------------
\* Property: the Windows program never ends with the avatar in an action's pose,
\* walking on, or on trackers that nobody moves any more: however far it had got
\* and whichever of its parts raised or did not stop in time, it has switched the
\* trackers off; unless they could not be written, or the control server raised.
EndsAtRest ==
    main = "over" => vmt = "off" \/ late \cap {"tracker", "control"} # {}

\* Property: once the Mac program is gone, stopped or killed, the devices come to
\* rest from what it had them do; unless a write failed or a stop came too late.
GoneIsQuiet ==
    mac = "over" ~> \/ (vmt = "action" => calibrating) /\ player = "idle"
                    \/ late # {}
================================================================================
