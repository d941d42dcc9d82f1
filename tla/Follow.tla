------------------------------- MODULE Follow -------------------------------
(***************************************************************************)
(* Following a player: observations arrive by UDP and the newest is kept,  *)
(* a thread decides at a fixed rate what to do about it, and a sink shows  *)
(* the decision to VRChat as axes and as pulses of its turn buttons.  The  *)
(* main thread stops the decision thread, for which it waits only so long, *)
(* and then closes the sink.                                               *)
(*                                                                         *)
(* Time is counted in units.  Of where the player is seen the side is      *)
(* kept: -1 left, 1 right, 0 ahead.  How far to that side and how near is  *)
(* smoothed floating point: any approach may result.                       *)
(***************************************************************************)
EXTENDS Integers

CONSTANTS
    None,                       \* Python's None
    Session,                    \* the perception processes that ever send
    MaxSequence, MaxNow,        \* bounds on sequence numbers and on time
    \* FollowConfig and the takeover time of the store
    Takeover, Stale, Delay, Sweep, RelocateTurn, RelocateForward,
    PulseInterval

ASSUME ConfigAssumption ==
    /\ {Takeover, Stale, Sweep, RelocateTurn, RelocateForward, PulseInterval} \subseteq Nat \ {0}
    /\ Delay \in Nat

VARIABLES
    now,            \* time.monotonic
    latest,         \* LatestObservationStore
    \* FollowController
    state, lostSince, pausedSince, paused, side,
    \* FollowDecisionLoop: its thread, what that has decided and not yet sent,
    \* the main thread; _stop_event and _stopped_neutralized
    loop, decision, main, stop, neutralized,
    \* the sink: what VRChat shows, the pulse, whether it is closed
    shown, pulse, closed,
    \* history: whether the controller has searched for Delay, how long so far,
    \* whether VRChat missed the last thing it was sent
    searched, missed

storeVars == <<now, latest>>
controlVars == <<state, lostSince, pausedSince, paused, side, searched>>
sinkVars == <<shown, pulse, closed, missed>>
vars == <<storeVars, controlVars, loop, decision, main, stop, neutralized, sinkVars>>

Side == {-1, 0, 1}

Observations == [session : Session, sequence : 0..MaxSequence, seen : Side \cup {None},
                 scan : BOOLEAN, at : 0..MaxNow]

ASSUME NoneAssumption ==
    /\ {MaxSequence, MaxNow} \subseteq Nat
    /\ None \notin Int \cup Observations

Decision(s, forward, turn) == [state |-> s, forward |-> forward, turn |-> turn]

Neutral(s) == Decision(s, FALSE, 0)

Axes(d) == [forward |-> d.forward, button |-> 0]

----------------------------------------------------------------------------
Init ==
    /\ now = 0 /\ latest = None
    /\ state = "lost"
    /\ lostSince = None /\ pausedSince = None /\ paused = 0 /\ side = 1
    /\ loop = "top" /\ main = "run"
    /\ decision = Neutral("lost")
    /\ stop = FALSE /\ neutralized = FALSE
    /\ shown = Axes(Neutral("lost")) /\ pulse = [pressed |-> FALSE, direction |-> 0, next |-> 0]
    /\ closed = FALSE
    /\ searched = 0 /\ missed = FALSE

Fresh(observation) == observation # None /\ now - observation.at <= Stale

\* What a stale observation showed is not asked any more, nor when exactly a
\* pulse became due.
Forgotten == IF latest = None THEN None ELSE [latest EXCEPT !.seen = None, !.scan = FALSE]

\* The player is lost, and the last answer was not to wait for a scan.
Searches == lostSince # None /\ state # "observe"

Passes ==
    /\ now < MaxNow /\ loop # "gone"
    /\ now' = now + 1
    /\ searched' = IF Searches /\ searched < Delay THEN searched + 1 ELSE searched
    /\ latest' = IF Fresh(latest) THEN latest ELSE Forgotten
    /\ pulse' = [pulse EXCEPT !.next = IF @ > now THEN @ ELSE now']
    /\ UNCHANGED <<state, lostSince, pausedSince, paused, side, loop, decision, main,
                   stop, neutralized, shown, closed, missed>>

----------------------------------------------------------------------------
\* LatestObservationStore.accept.  Any packet of any session may arrive at any
\* time: lost, late, twice or after newer ones.  Nobody reads what comes once
\* the loop is stopped.

Accepts(session, sequence) ==
    latest # None =>
      IF latest.session = session
        THEN sequence > latest.sequence
        ELSE now - latest.at >= Takeover

Receive ==
    \E session \in Session, sequence \in 0..MaxSequence, seen \in Side \cup {None},
       scan \in BOOLEAN :
      /\ ~stop /\ Accepts(session, sequence)
      /\ latest' = [session |-> session, sequence |-> sequence, seen |-> seen,
                    scan |-> scan, at |-> now]
      /\ UNCHANGED <<now, controlVars, loop, decision, main, stop, neutralized, sinkVars>>

----------------------------------------------------------------------------
\* FollowController.step.

\* Aligned with the player by turning, followed, or near enough.
Approaches == {Decision("align", FALSE, -1), Decision("align", FALSE, 1),
               Decision("follow", TRUE, 0), Neutral("hold")}

Decides(d) == decision' = d /\ state' = d.state

\* _reset_loss_timeline.
StepVisible(observation) ==
    /\ lostSince' = None /\ pausedSince' = None /\ paused' = 0
    /\ side' = IF observation.seen = 0 THEN side ELSE observation.seen
    /\ \E d \in Approaches : Decides(d)
    /\ searched' = 0

\* _prepare_for_missing_target, and what it leaves of the loss before.
Lost == IF lostSince = None THEN now ELSE lostSince

PausedBefore == IF lostSince = None THEN 0 ELSE paused

PausedSince == IF lostSince = None THEN None ELSE pausedSince

PausedNotAdded == PausedBefore

PausedInAll == PausedBefore + IF PausedSince = None THEN 0 ELSE now - PausedSince

\* One cycle of the search after another, to either side in turn.
Search(elapsed) ==
    LET cycle == Sweep + RelocateTurn + RelocateForward
        phase == (elapsed - Delay) % cycle
        turn  == IF ((elapsed - Delay) \div cycle) % 2 = 0 THEN side ELSE -side
    IN IF elapsed < Delay THEN Neutral("lost")
       ELSE IF phase < Sweep THEN Decision("search", FALSE, turn)
       ELSE IF phase < Sweep + RelocateTurn THEN Decision("relocate", FALSE, turn)
       ELSE Decision("relocate", TRUE, 0)

Searched == IF lostSince = None THEN 0 ELSE searched

StepLost ==
    /\ lostSince' = Lost
    /\ paused' = PausedInAll /\ pausedSince' = None
    /\ Decides(Search(now - Lost - PausedInAll))
    /\ searched' = Searched
    /\ UNCHANGED side

StepScanned ==
    /\ lostSince' = Lost
    /\ paused' = PausedBefore
    /\ pausedSince' = IF PausedSince = None THEN now ELSE PausedSince
    /\ Decides(Neutral("observe"))
    /\ searched' = Searched
    /\ UNCHANGED side

Step ==
    \/ ~Fresh(latest) /\ StepLost
    \/ Fresh(latest) /\ latest.seen # None /\ StepVisible(latest)
    \/ Fresh(latest) /\ latest.seen = None /\ latest.scan /\ StepScanned
    \/ Fresh(latest) /\ latest.seen = None /\ ~latest.scan /\ StepLost

----------------------------------------------------------------------------
\* _TurnPulse.next_direction: what it presses and becomes.

Pressed(turn) ==
    LET due == IF turn # pulse.direction THEN now ELSE pulse.next
    IN IF turn # 0 /\ ~pulse.pressed /\ now >= due THEN turn ELSE 0

NextPulse(turn) ==
    IF turn = 0 THEN [pressed |-> FALSE, direction |-> 0, next |-> now]
    ELSE [pressed |-> Pressed(turn) # 0,
          direction |-> turn,
          next |-> IF Pressed(turn) # 0 THEN now + PulseInterval
                   ELSE IF turn # pulse.direction THEN now ELSE pulse.next]

\* _send_axes: the packets go one by one and the network may refuse any.
Sends(d) ==
    /\ ~closed
    /\ shown' = [forward |-> d.forward, button |-> Pressed(d.turn)]
    /\ pulse' = NextPulse(d.turn)
    /\ missed' = FALSE
    /\ UNCHANGED closed

SendRaises(d) ==
    \/ /\ closed
       /\ UNCHANGED sinkVars
    \/ /\ ~closed
       /\ shown' \in {shown, [shown EXCEPT !.forward = d.forward]}
       /\ pulse' = NextPulse(d.turn)
       /\ missed' = TRUE
       /\ UNCHANGED closed

----------------------------------------------------------------------------
\* FollowDecisionLoop, its thread: tick until it is stopped or a tick raises.

TickDecides ==
    /\ loop = "top" /\ ~stop
    /\ Step
    /\ loop' = "send"
    /\ UNCHANGED <<storeVars, main, stop, neutralized, sinkVars>>

TickSends ==
    /\ loop = "send"
    /\ \/ /\ Sends(decision)
          /\ loop' = "record"
          /\ UNCHANGED stop
       \/ /\ SendRaises(decision)
          /\ stop' = TRUE
          /\ loop' = "finally"
    /\ decision' = Neutral("lost")
    /\ UNCHANGED <<storeVars, controlVars, main, neutralized>>

RecordsNothing == UNCHANGED neutralized

Records == neutralized' = FALSE

TickRecords ==
    /\ loop = "record"
    /\ Records
    /\ loop' = "top"
    /\ UNCHANGED <<storeVars, controlVars, decision, main, stop, sinkVars>>

LoopStops ==
    /\ loop = "top" /\ stop
    /\ loop' = "finally"
    /\ UNCHANGED <<storeVars, controlVars, decision, main, stop, neutralized, sinkVars>>

\* _emit_stop_neutral, by either thread: the first goes on to send.
Claims(here, sends, done) ==
    /\ neutralized' = TRUE
    /\ here' = IF neutralized THEN done ELSE sends

NeutralSent == Sends(Neutral("lost")) \/ SendRaises(Neutral("lost"))

LoopClaims ==
    /\ loop = "finally"
    /\ Claims(loop, "emit", "gone")
    /\ UNCHANGED <<storeVars, controlVars, decision, main, stop, sinkVars>>

LoopNeutral ==
    /\ loop = "emit"
    /\ NeutralSent
    /\ loop' = "gone"
    /\ UNCHANGED <<storeVars, controlVars, decision, main, stop, neutralized>>

----------------------------------------------------------------------------
\* The main thread: run_follow's finally.

Stop ==
    /\ main = "run"
    /\ stop' = TRUE
    /\ main' = "join"
    /\ UNCHANGED <<storeVars, controlVars, loop, decision, neutralized, sinkVars>>

\* The join ends with the thread, or after a second.
MainClaims ==
    /\ main = "join"
    /\ Claims(main, "emit", "close")
    /\ UNCHANGED <<storeVars, controlVars, loop, decision, stop, sinkVars>>

MainNeutral ==
    /\ main = "emit"
    /\ NeutralSent
    /\ main' = "close"
    /\ UNCHANGED <<storeVars, controlVars, loop, decision, stop, neutralized>>

\* VrchatLocomotionSink.close sends the neutral axes and buttons itself.
CloseSink ==
    /\ main = "close"
    /\ \/ shown' = Axes(Neutral("lost")) /\ missed' = FALSE
       \/ shown' \in {shown, [shown EXCEPT !.forward = FALSE]} /\ missed' = TRUE
    /\ closed' = TRUE
    /\ main' = "done"
    /\ UNCHANGED <<storeVars, controlVars, loop, decision, stop, neutralized, pulse>>

----------------------------------------------------------------------------
Loop ==
    \/ TickDecides \/ TickSends \/ TickRecords
    \/ LoopStops \/ LoopClaims \/ LoopNeutral

Main == Stop \/ MainClaims \/ MainNeutral \/ CloseSink

Next == Passes \/ Receive \/ Loop \/ Main

Spec == Init /\ [][Next]_vars

----------------------------------------------------------------------------
\* Besides the types: a button that VRChat shows as held is one that the pulse
\* will release.
TypeOK ==
    /\ now \in 0..MaxNow
    /\ latest \in Observations \cup {None} /\ (latest # None => latest.at \in 0..now)
    /\ state \in {"lost", "observe", "search", "relocate", "align", "follow", "hold"}
    /\ lostSince \in 0..now \cup {None} /\ pausedSince \in 0..now \cup {None} /\ paused \in 0..now
    /\ loop \in {"top", "send", "record", "finally", "emit", "gone"}
    /\ main \in {"run", "join", "emit", "close", "done"}
    /\ shown.forward \in BOOLEAN /\ shown.button \in Side
    /\ shown.button # 0 /\ ~missed => pulse.pressed /\ shown.button = pulse.direction
    /\ pulse.direction \in Side /\ pulse.next \in 0..(now + PulseInterval)

\* The avatar looks around or walks off only after it has really searched for
\* its player that long: the time in which the answer was awaited of a scan for
\* the name does not count, however often scans interrupt the loss, and nothing
\* counts that was before the player was seen.
SearchIsEarned ==
    state \in {"search", "relocate"} => searched >= Delay

\* With the decision thread gone, by a stop or by an error, whichever of the two
\* threads had to see to it, the avatar stands still: unless VRChat could not be
\* reached with that.
StopStandsStill ==
    loop = "gone" /\ main \in {"run", "join", "close", "done"} =>
      shown = Axes(Neutral("lost")) \/ missed
=============================================================================
