------------------------------ MODULE PoseOutput ------------------------------
(***************************************************************************)
(* SixPointUdpSink: what one program has told the avatar's head, trackers, *)
(* axes and face, packet by packet.  Nothing it sends is answered, and     *)
(* what was sent stays in force until something else is: a face parameter  *)
(* or an axis that a frame does not mention goes on as an earlier one left *)
(* it.  A packet that cannot be sent ends the call it belongs to.          *)
(*                                                                         *)
(* A channel is "driven" or at "rest": an axis or a face parameter at 0, a *)
(* tracker that is not enabled.                                            *)
(***************************************************************************)
EXTENDS Naturals, Sequences, FiniteSets

CONSTANTS
    Hand, Body,     \* the virtual trackers
    Axis, Face      \* the axes of locomotion; the face parameters of the avatar

ASSUME PoseAssumption == \A names \in {Hand, Body, Axis, Face} : IsFiniteSet(names)

Tracker == Hand \cup Body
Channel == ({"opentrack"} \X {"head"}) \cup ({"vmt"} \X Tracker)
    \cup ({"osc"} \X (Body \cup {"head"})) \cup ({"axis"} \X Axis) \cup ({"face"} \X Face)

VARIABLES
    options,    \* how the sink was set up
    remembered, \* the face parameters that have been driven once
    closed,
    shown,      \* what was last sent to each channel, or "none"
    told        \* the one set of inputs, and of trackers, that are to be driven as
                \* far as the program knows; none if a call failed midway

poseVars == <<options, remembered, closed, shown, told>>

\* The sinks the programs set up: the companion's; live motion's; follow's; the
\* two of the command line; and one that sends nothing.
Uses ==
    {{"face", "lock_head"} \cup o : o \in SUBSET {"locomotion", "osc_body"}}
        \cup SUBSET {"locomotion", "park_head"}
        \cup {{"lock_head"}, {"lock_head", "disable_on_close"}, {"disable_on_close"}, {"dry_run", "face"}}

Has(o) == o \in options

Frame == [active : SUBSET Tracker, moves : SUBSET (Axis \cup Face)]

\* Some order, the same each time: the tracker table's, the axes', the names'.
InOrder(names) ==
    CHOOSE order \in [1..Cardinality(names) -> names] :
        \A n \in names : n \in {order[i] : i \in DOMAIN order}

Packets(kind, names, driven) ==
    LET order == InOrder(names)
    IN [i \in DOMAIN order |->
            <<<<kind, order[i]>>, IF order[i] \in driven THEN "driven" ELSE "rest">>]

----------------------------------------------------------------------------
\* The packets of a frame.  The trackers of the body are switched off when the
\* body goes by OSC, where what is not active is not mentioned.
Enabled(active) == IF Has("osc_body") THEN active \cap Hand ELSE active

PosePackets(active) ==
    <<<<<<"opentrack", "head">>, IF Has("lock_head") THEN "level" ELSE "driven">>>>
        \o Packets("vmt", Tracker, Enabled(active))
        \o LET names == IF Has("osc_body") THEN (active \cap Body) \cup {"head"} ELSE {}
           IN Packets("osc", names, names)

AxisPackets(moves) == IF Has("locomotion") THEN Packets("axis", Axis, moves) ELSE <<>>
FacePackets(known, moves) == IF Has("face") THEN Packets("face", known, moves) ELSE <<>>

\* Faulty: only the face parameters of this frame.
RememberedForgets(moves) == IF Has("face") THEN moves \cap Face ELSE remembered

\* Each face parameter ever driven gets a value, 0 when the frame omits it.
Remembered(moves) == IF Has("face") THEN remembered \cup (moves \cap Face) ELSE remembered

InputRest == FacePackets(remembered, {}) \o AxisPackets({})
HeadRest == Packets("opentrack", {"head"}, {})
PoseRest == InputRest \o HeadRest \o Packets("vmt", Tracker, {})

\* The packets are sent one by one, all of them or until one fails; then what the
\* call was about is known no longer.
Sends(packets, whole, parts) ==
    \E n \in 0..Len(packets) :
        /\ LET sent == {packets[i] : i \in 1..n}
           IN shown' = [c \in Channel |-> IF \E p \in sent : p[1] = c THEN (CHOOSE p \in sent : p[1] = c)[2]
                                          ELSE shown[c]]
        /\ told' = IF n = Len(packets) THEN whole
                    ELSE [inputs |-> IF "inputs" \in parts THEN {} ELSE told.inputs,
                          pose   |-> IF "pose" \in parts THEN {} ELSE told.pose]

AllAtRest == [inputs |-> {{}}, pose |-> {{}}]
Silent == closed \/ Has("dry_run")

----------------------------------------------------------------------------
SendFrame(frame) ==
    /\ ~Silent
    /\ remembered' = Remembered(frame.moves)
    /\ Sends(FacePackets(Remembered(frame.moves), frame.moves) \o PosePackets(frame.active) \o AxisPackets(frame.moves),
             [inputs |-> {frame.moves}, pose |-> {frame.active}], {"inputs", "pose"})
    /\ UNCHANGED <<options, closed>>

NeutralizeInputs ==
    /\ ~Silent
    /\ Sends(InputRest, [told EXCEPT !.inputs = {{}}], {"inputs"})
    /\ UNCHANGED <<options, remembered, closed>>

NeutralizePose ==
    /\ ~Silent
    /\ Sends(PoseRest, AllAtRest, {"inputs", "pose"})
    /\ UNCHANGED <<options, remembered, closed>>

\* It is closed whatever happens to the last packets.
Close ==
    /\ ~closed
    /\ closed' = TRUE
    /\ IF Has("dry_run") THEN UNCHANGED <<shown, told>>
       ELSE IF Has("disable_on_close")
       THEN Sends(PoseRest, AllAtRest, {"inputs", "pose"})
       ELSE Sends(InputRest \o IF Has("park_head") THEN HeadRest ELSE <<>>,
                  [told EXCEPT !.inputs = {{}}], {"inputs"})
    /\ UNCHANGED <<options, remembered>>

PoseInit ==
    /\ options \in Uses
    /\ remembered = {} /\ closed = FALSE
    /\ shown = [c \in Channel |-> "none"]
    /\ told = AllAtRest

PoseNext == (\E frame \in Frame : SendFrame(frame)) \/ NeutralizeInputs \/ NeutralizePose \/ Close

----------------------------------------------------------------------------
\* Property: whatever was driven before, by calls that went through or that failed
\* midway, once a call has gone through the inputs and the pose are what it asked
\* for and nothing else: no face parameter and no axis of an earlier frame goes on,
\* and no tracker that is inactive stays enabled.
OutputIsAsAsked ==
    /\ \A moves \in told.inputs :
           /\ \A a \in Axis : shown[<<"axis", a>>] = "driven" <=> Has("locomotion") /\ a \in moves
           /\ \A f \in Face : shown[<<"face", f>>] = "driven" <=> Has("face") /\ f \in moves
    /\ \A active \in told.pose :
           \A t \in Tracker : shown[<<"vmt", t>>] = "driven" <=> t \in Enabled(active)
================================================================================
