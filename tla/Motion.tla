------------------------------- MODULE Motion -------------------------------
(***************************************************************************)
(* The motion director and the stream it owns.  It runs on                 *)
(*   - callers, which submit a cue, halt, or stop the director;            *)
(*   - the manager thread, which starts a stream, finishes one that ended, *)
(*     and fails or sends back to idle the cue whose time is over;         *)
(*   - the playback thread of the stream, which sends a pose per frame;    *)
(*   - the producer thread of the stream, which generates frames with the  *)
(*     one resident model;                                                 *)
(*   - the bridge's connection thread, which attaches and detaches output. *)
(* The director's condition orders the first two and the callbacks of the  *)
(* third; the session's condition orders a pose with a change of prompt.   *)
(* Authorizing and neutralizing the device happen outside both.            *)
(* The device is the gateway's FULL_BODY_POSE (module DeviceGateway), here *)
(* the little of it that a stream can tell apart.                          *)
(***************************************************************************)
EXTENDS Naturals

CONSTANTS
    None,           \* Python's None
    CueKind,        \* the kinds of cue submitted
    MaxCues,        \* bound on the cues submitted
    MaxHalts,       \* bound on halt and stop
    MaxSessions     \* bound on the output sessions

\* What a prompt asks for: generated motion, a registered clip with an end,
\* a registered behaviour without one.
Kinds == {"ardy", "finite", "hold"}

\* The values of the objects below: a cue, the session of a stream, what its
\* producer works on, what _start_stream holds, and why a playback stops.
Cues == [id : Nat, kind : Kinds, phase : {"PREPARING", "PLAYING", "RETURNING_IDLE"},
         rev : Nat, idleRev : Nat]
Sessions == [stream : Nat, rev : Nat, kind : Kinds \cup {"idle"}, playing : Nat, done : BOOLEAN,
             buffered : BOOLEAN, broken : BOOLEAN, started : BOOLEAN, stopped : BOOLEAN]
Producers == [stream : Nat, rev : Nat]
Starts == [out : Nat, kind : Kinds \cup {"idle"}, cue : Nat]
Playbacks == {"alive", "halted", "failed", "output_detached", "shutdown"}

ASSUME MotionAssumption ==
    /\ CueKind \subseteq Kinds
    /\ {MaxCues, MaxHalts, MaxSessions} \subseteq Nat
    /\ None \notin Nat /\ None \notin Playbacks
    /\ None \notin Cues /\ None \notin Sessions /\ None \notin Producers /\ None \notin Starts

VARIABLES
    \* MotionDirector, under its condition
    state,      \* MotionDirectorState
    enabled,    \* _enabled
    token,      \* _lease_token
    lease,      \* the token of _stream_lease, 0 for None
    fence,      \* _stream_fence_token, 0 for None
    play,       \* _playback, as its stop reason; "alive" before one, or None
    cue,        \* _cue
    out,        \* _output_session_id
    ending,     \* _stop_event
    \* the manager thread, and what _start_stream holds
    mgr, start,
    \* AnchoredMotionSession of the stream, its two threads
    sess, pb, event, gen,
    \* callers: a submit that failed its stream, a halt, stop
    sub, hal,
    \* the connection, and the pose device behind it
    link, sid, dev,
    \* history
    cues, halts,
    dark        \* a halt has fenced the stream, and nobody has asked for motion since

directorVars == <<state, enabled, token, lease, fence, play, cue, out, ending>>
managerVars == <<mgr, start>>
streamVars == <<sess, pb, event, gen>>
callerVars == <<sub, hal>>
linkVars == <<link, sid>>
historyVars == <<cues, halts, dark>>
vars == <<directorVars, managerVars, streamVars, callerVars, linkVars, dev, historyVars>>

----------------------------------------------------------------------------
\* MotionCue

NewCue(id, k) == [id |-> id, kind |-> k, phase |-> "PREPARING", rev |-> 0, idleRev |-> 0]

BindRevision(c, r) == [c EXCEPT !.phase = "PREPARING", !.rev = r, !.idleRev = 0]

CueStarted(c, r) == c # None /\ c.phase = "PREPARING" /\ r = c.rev

IdleStarted(c, r) == c # None /\ c.phase = "RETURNING_IDLE" /\ r = c.idleRev

\* The deadlines that can be over: a prepared cue's once it has a revision, and
\* the way back to idle.  Which of them is over is for time to say.
CueTimesOut(c) == c.phase = "RETURNING_IDLE" \/ (c.phase = "PREPARING" /\ c.rev # 0)

CueExpires(c) == c.phase = "PLAYING" /\ c.kind # "finite"

----------------------------------------------------------------------------
\* AnchoredMotionSession

Prompt(c) == IF c = None THEN "idle" ELSE c.kind

CueId(c) == IF c = None THEN 0 ELSE c.id

NewSession(k) ==
    [stream |-> lease, rev |-> 1, kind |-> k, playing |-> 0, done |-> FALSE,
     buffered |-> FALSE, broken |-> FALSE, started |-> TRUE, stopped |-> FALSE]

\* A new revision invalidates what was generated, and the error it ended in.
Prompted(s, k) ==
    [s EXCEPT !.rev = @ + 1, !.kind = k, !.done = FALSE, !.buffered = FALSE, !.broken = FALSE]

Stopped(s) == IF s = None THEN None ELSE [s EXCEPT !.stopped = TRUE]

\* request_stop under the director's condition: it waits for a pose that is
\* being sent, and keeps the first reason.
StopStream(reason) ==
    /\ play' = IF play = "alive" THEN reason ELSE play
    /\ sess' = IF play = None THEN sess ELSE Stopped(sess)

----------------------------------------------------------------------------
\* The pose device.  A request is answered, or its answer is lost whether or
\* not it had its effect.

Reaches == link \in {"open", "up"}

Authorized(n) == [dev EXCEPT !.high = n, !.owner = n]

Neutralized(n) == [dev EXCEPT !.high = n, !.owner = 0, !.shown = 0]

Authorize(n, ok) ==
    \/ Reaches /\ n > dev.high /\ dev' = Authorized(n)
    \/ ~ok /\ UNCHANGED dev

Neutralize(n, ok) ==
    \/ Reaches /\ n >= dev.high /\ dev' = Neutralized(n)
    \/ ~ok /\ UNCHANGED dev

\* A pose is only sent, so it is lost without a word; the one of another
\* stream is refused.  The gateway's watchdog and the end of its session only
\* make it darker, and are left to module DeviceGateway.
SendPose(n) ==
    dev' = IF Reaches /\ dev.owner = n THEN [dev EXCEPT !.shown = n] ELSE dev

NewDevice == [high |-> 0, owner |-> 0, shown |-> 0]

----------------------------------------------------------------------------
Init ==
    /\ state = "WAITING_OUTPUT" /\ enabled = TRUE
    /\ token = 0 /\ lease = 0 /\ fence = 0
    /\ play = None /\ cue = None /\ out = None /\ ending = FALSE
    /\ mgr = [at |-> "loop", fence |-> 0] /\ start = None
    /\ sess = None /\ pb = "none" /\ event = 0 /\ gen = None
    /\ sub = [at |-> "idle", fence |-> 0]
    /\ hal = [at |-> "idle", fence |-> 0, stop |-> FALSE]
    /\ link = "down" /\ sid = 0 /\ dev = NewDevice
    /\ cues = 0 /\ halts = 0 /\ dark = FALSE

----------------------------------------------------------------------------
\* Whether the manager, in a turn that finished a stream, holds the condition.
Unlocked == mgr.at # "locked"

\* Fencing a stream, for halt and _fail_stream: once, under a newer token.

Fences == lease # 0 /\ fence = 0

NewFence == IF token > lease THEN token + 1 ELSE lease + 1

Fence ==
    IF Fences
      THEN token' = NewFence /\ fence' = NewFence
      ELSE UNCHANGED <<token, fence>>

Fail ==
    /\ enabled' = FALSE
    /\ cue' = None
    /\ Fence
    /\ play' = IF play = "alive" THEN "failed" ELSE play
    /\ sess' = IF play = None THEN sess ELSE Stopped(sess)
    /\ state' = "STOPPING"

\* submit_cue.  A stream that is up takes the new prompt at once; the others
\* find the cue when they start.  A session that has ended by itself refuses.
Steerable ==
    /\ play # None
    /\ fence = 0
    /\ out # None
    /\ state \in {"IDLE", "PREPARING_CUE", "CUE", "RETURNING_IDLE"}

SubmitCue(k) ==
    /\ Unlocked
    /\ sub.at = "idle"
    /\ cues < MaxCues
    /\ hal.at # "gone"
    /\ cues' = cues + 1
    /\ enabled' = TRUE
    /\ dark' = FALSE
    /\ LET c == NewCue(cues + 1, k) IN
       \/ /\ Steerable /\ sess.started
          /\ sess' = Prompted(sess, k)
          /\ cue' = BindRevision(c, sess.rev + 1)
          /\ state' = "PREPARING_CUE"
          /\ UNCHANGED sub
       \/ /\ Steerable /\ ~sess.started
          /\ sub' = [sub EXCEPT !.at = "failing"]
          /\ cue' = c
          /\ state' = "PREPARING_CUE"
          /\ UNCHANGED sess
       \/ /\ ~Steerable
          /\ cue' = c
          /\ state' = IF play # None THEN "STOPPING"
                      ELSE IF out # None THEN "STARTING" ELSE "WAITING_OUTPUT"
          /\ UNCHANGED <<sess, sub>>
    /\ UNCHANGED <<token, lease, fence, play, out, ending, managerVars, pb, event, gen,
                   hal, linkVars, dev, halts>>

\* The idle policy's cue, which gives way to everything else.
SubmitIdleCue ==
    /\ enabled /\ out # None /\ state = "IDLE" /\ cue = None
    /\ \E k \in CueKind \cap {"finite", "hold"} : SubmitCue(k)

\* The rest of a submit whose prompt was refused: _fail_stream.
SubmitFails ==
    /\ Unlocked
    /\ sub.at = "failing"
    /\ Fail
    /\ sub' = IF Fences THEN [at |-> "neutral", fence |-> NewFence] ELSE [sub EXCEPT !.at = "idle"]
    /\ UNCHANGED <<lease, out, ending, managerVars, pb, event, gen, hal, linkVars, dev, historyVars>>

SubmitNeutralizes ==
    /\ sub.at = "neutral"
    /\ \E ok \in BOOLEAN : Neutralize(sub.fence, ok)
    /\ sub' = [at |-> "idle", fence |-> 0]
    /\ UNCHANGED <<directorVars, managerVars, streamVars, hal, linkVars, historyVars>>

\* halt, by itself or as the beginning of stop.
Halt(stop) ==
    /\ Unlocked
    /\ hal.at = "idle" /\ ~hal.stop
    /\ halts < MaxHalts
    /\ halts' = halts + 1
    /\ enabled' = FALSE
    /\ cue' = None
    /\ Fence
    /\ StopStream("halted")
    /\ state' = IF lease # 0 THEN "STOPPING" ELSE "HALTED"
    /\ hal' = [at |-> IF Fences THEN "neutral" ELSE IF stop THEN "set" ELSE "idle",
               fence |-> IF Fences THEN NewFence ELSE 0, stop |-> stop]
    /\ UNCHANGED <<lease, out, ending, managerVars, pb, event, gen, sub, linkVars, dev,
                   cues, dark>>

\* Its neutralization is answered, or raises; a stop that raises has not
\* stopped anything else.
HaltNeutralizes ==
    /\ hal.at = "neutral"
    /\ \E ok \in BOOLEAN :
         /\ Neutralize(hal.fence, ok)
         /\ dark' = (dark \/ (ok /\ ~enabled))
         /\ hal' = [at |-> IF hal.stop /\ ok THEN "set" ELSE "idle", fence |-> 0, stop |-> hal.stop]
    /\ UNCHANGED <<directorVars, managerVars, streamVars, sub, linkVars, cues, halts>>

StopSets ==
    /\ Unlocked
    /\ hal.at = "set"
    /\ ending' = TRUE
    /\ StopStream("shutdown")
    /\ hal' = [hal EXCEPT !.at = "join"]
    /\ UNCHANGED <<state, enabled, token, lease, fence, cue, out, managerVars, pb, event, gen,
                   sub, linkVars, dev, historyVars>>

StopJoins ==
    /\ hal.at = "join" /\ mgr.at = "gone"
    /\ hal' = [hal EXCEPT !.at = "gone"]
    /\ UNCHANGED <<directorVars, managerVars, streamVars, sub, linkVars, dev, historyVars>>

----------------------------------------------------------------------------
\* The manager thread.  One turn of its loop, under the condition throughout:
\* it finishes a stream that ended, then does the first thing that is due.

Ended == play # None /\ pb = "dead"

\* A stream nobody told to stop, or told to because it failed, is a failure;
\* what a submit asked for meanwhile is disabled with it.
EndedBadly == play \in {"alive", "failed"}

LoopFinishes ==
    /\ mgr.at = "loop" /\ Ended
    /\ mgr' = [mgr EXCEPT !.at = "locked"]
    /\ play' = None /\ lease' = 0 /\ fence' = 0
    /\ sess' = None /\ pb' = "none"
    /\ IF ending
         THEN UNCHANGED <<state, enabled>>
         ELSE /\ enabled' = (enabled /\ ~EndedBadly)
              /\ state' = IF EndedBadly THEN "FAILED"
                          ELSE IF enabled THEN "WAITING_OUTPUT" ELSE "HALTED"
    /\ UNCHANGED <<token, cue, out, ending, start, event, gen, callerVars, linkVars, dev,
                   cues, halts, dark>>

\* The manager is in its turn, with nothing left to finish.
Turns == mgr.at = "locked" \/ (mgr.at = "loop" /\ ~Ended)

LoopExits ==
    /\ Turns
    /\ ending /\ play = None
    /\ mgr' = [mgr EXCEPT !.at = "gone"]
    /\ state' = "STOPPED"
    /\ UNCHANGED <<enabled, token, lease, fence, play, cue, out, ending, start, streamVars,
                   callerVars, linkVars, dev, historyVars>>

Goes == Turns /\ ~(ending /\ play = None)

\* What begin_return needs: a clip's last frame was sent, or time is up.
CueIsOverByTime == cue # None /\ CueExpires(cue)

CueIsOver ==
    /\ cue # None
    /\ \/ CueExpires(cue)
       \/ /\ cue.phase = "PLAYING" /\ cue.kind = "finite"
          /\ play # None /\ sess.done

CanReturn == play # None /\ fence = 0 /\ sess.started

\* The way back to idle is one more prompt of the same stream.
LoopReturns ==
    /\ Goes
    /\ CueIsOver /\ CanReturn
    /\ sess' = Prompted(sess, "idle")
    /\ cue' = [cue EXCEPT !.phase = "RETURNING_IDLE", !.idleRev = sess.rev + 1]
    /\ state' = "RETURNING_IDLE"
    /\ mgr' = [mgr EXCEPT !.at = "loop"]
    /\ UNCHANGED <<enabled, token, lease, fence, play, out, ending, start, pb, event, gen,
                   callerVars, linkVars, dev, historyVars>>

\* A cue that did not start, or a way back that did not, in time; or no stream
\* to go back on.  _fail_stream follows once the condition was released.
LoopFails ==
    /\ Goes
    /\ \/ cue # None /\ CueTimesOut(cue)
       \/ CueIsOver /\ ~CanReturn
    /\ mgr' = [mgr EXCEPT !.at = "fail"]
    /\ UNCHANGED <<directorVars, start, streamVars, callerVars, linkVars, dev, historyVars>>

\* A new stream, when there is none, motion is wanted and output attached.
LoopStarts ==
    /\ Goes
    /\ play = None /\ enabled /\ out # None
    /\ token' = token + 1
    /\ lease' = token + 1 /\ fence' = 0
    /\ start' = [out |-> out, kind |-> Prompt(cue), cue |-> CueId(cue)]
    /\ state' = "STARTING"
    /\ mgr' = [mgr EXCEPT !.at = "authorize"]
    /\ UNCHANGED <<enabled, play, cue, out, ending, streamVars, callerVars, linkVars, dev,
                   historyVars>>

LoopWaits ==
    /\ mgr.at = "locked"
    /\ ~(ending /\ play = None)
    /\ ~(enabled /\ out # None)
    /\ mgr' = [mgr EXCEPT !.at = "loop"]
    /\ UNCHANGED <<directorVars, start, streamVars, callerVars, linkVars, dev, historyVars>>

FailStream ==
    /\ mgr.at = "fail"
    /\ Fail
    /\ mgr' = IF Fences THEN [at |-> "neutral", fence |-> NewFence] ELSE [mgr EXCEPT !.at = "loop"]
    /\ UNCHANGED <<lease, out, ending, start, pb, event, gen, callerVars, linkVars, dev,
                   historyVars>>

FailNeutralizes ==
    /\ mgr.at = "neutral"
    /\ \E ok \in BOOLEAN : Neutralize(mgr.fence, ok)
    /\ mgr' = [at |-> "loop", fence |-> 0]
    /\ UNCHANGED <<directorVars, start, streamVars, callerVars, linkVars, historyVars>>

----------------------------------------------------------------------------
\* _start_stream, on the manager thread.  The condition is released for the
\* authorization, for the making of the session, and for each change of its
\* prompt; after each the world is looked at again.

StillCurrentOutput == ~ending /\ out = start.out

StillCurrent == enabled /\ ~ending /\ out = start.out /\ fence = 0

StartAuthorizes ==
    /\ mgr.at = "authorize"
    /\ \E ok \in BOOLEAN :
         /\ Authorize(lease, ok)
         /\ mgr' = [mgr EXCEPT !.at = IF ok THEN "recheck" ELSE "raise"]
    /\ UNCHANGED <<directorVars, start, streamVars, callerVars, linkVars, historyVars>>

\* Giving the stream up: its lease goes, without a fence.
GiveUp ==
    /\ lease' = 0 /\ fence' = 0
    /\ start' = None
    /\ mgr' = [mgr EXCEPT !.at = "loop"]

StartRechecks ==
    /\ mgr.at = "recheck"
    /\ \/ /\ StillCurrent
          /\ mgr' = [mgr EXCEPT !.at = "create"]
          /\ UNCHANGED <<state, lease, fence, start>>
       \/ /\ ~StillCurrent
          /\ GiveUp
          /\ state' = IF enabled THEN "WAITING_OUTPUT" ELSE "HALTED"
    /\ UNCHANGED <<enabled, token, play, cue, out, ending, streamVars, callerVars, linkVars,
                   dev, historyVars>>

\* The session is made and prompted, and its producer set to work; or its
\* mapper, its assets or the model refuse.
StartCreates ==
    /\ mgr.at = "create"
    /\ \/ /\ sess' = NewSession(start.kind)
          /\ gen' = [stream |-> lease, rev |-> 0]
          /\ mgr' = [mgr EXCEPT !.at = "reconcile"]
       \/ /\ mgr' = [mgr EXCEPT !.at = "raise"]
          /\ UNCHANGED <<sess, gen>>
    /\ UNCHANGED <<directorVars, start, pb, event, callerVars, linkVars, dev, historyVars>>

\* The cue may have changed while the session was made: playback starts with
\* the prompt that is wanted now.
StartReconciles ==
    /\ mgr.at = "reconcile"
    /\ \/ /\ StillCurrent
          /\ Prompt(cue) = start.kind /\ CueId(cue) = start.cue
          /\ cue' = IF cue = None THEN None ELSE BindRevision(cue, sess.rev)
          /\ play' = "alive" /\ pb' = "run"
          /\ state' = IF cue = None THEN "IDLE" ELSE "PREPARING_CUE"
          /\ start' = None
          /\ mgr' = [mgr EXCEPT !.at = "loop"]
          /\ UNCHANGED sess
       \/ /\ StillCurrent
          /\ ~(Prompt(cue) = start.kind /\ CueId(cue) = start.cue)
          /\ start' = [start EXCEPT !.kind = Prompt(cue), !.cue = CueId(cue)]
          /\ mgr' = [mgr EXCEPT !.at = "prompt"]
          /\ UNCHANGED <<cue, play, pb, state, sess>>
       \/ /\ ~StillCurrent
          /\ mgr' = [mgr EXCEPT !.at = "overtaken"]
          /\ sess' = Stopped(sess)
          /\ UNCHANGED <<cue, play, pb, state, start>>
    /\ UNCHANGED <<enabled, token, lease, fence, out, ending, event, gen, callerVars, linkVars,
                   dev, historyVars>>

StartPrompts ==
    /\ mgr.at = "prompt"
    /\ sess' = Prompted(sess, start.kind)
    /\ mgr' = [mgr EXCEPT !.at = "reconcile"]
    /\ UNCHANGED <<directorVars, start, pb, event, gen, callerVars, linkVars, dev, historyVars>>

\* The overtaken session is stopped, which joins its producer.
StartAbandons ==
    /\ mgr.at = "overtaken"
    /\ gen = None
    /\ sess' = None
    /\ GiveUp
    /\ state' = IF enabled THEN "WAITING_OUTPUT" ELSE "HALTED"
    /\ UNCHANGED <<enabled, token, play, cue, out, ending, pb, event, gen, callerVars, linkVars,
                   dev, historyVars>>

\* A start that raised before there was a session.  It fails the director only
\* when its stream is still wanted.
StartRaises ==
    /\ mgr.at = "raise"
    /\ GiveUp
    /\ LET wanted == enabled /\ out = start.out /\ ~ending IN
         /\ enabled' = (enabled /\ ~wanted)
         /\ cue' = IF wanted THEN None ELSE cue
         /\ state' = IF wanted THEN "FAILED"
                     ELSE IF ~enabled THEN "HALTED"
                     ELSE IF out = None THEN "WAITING_OUTPUT" ELSE state
    /\ UNCHANGED <<token, play, out, ending, streamVars, callerVars, linkVars, dev, historyVars>>

----------------------------------------------------------------------------
\* The playback thread.

\* _select_locked: the frame counts as the requested prompt's when its way in
\* (or, for idle, back) is over; until then, and while generated motion is
\* late, the stream holds on under the prompt it played last.
Counts == sess.kind = "ardy" => sess.buffered

\* One step of run_started: send_next, under the session's condition.
SendNext(counts, clipEnds) ==
    /\ pb = "run" /\ ~sess.stopped
    /\ ~(sess.broken)
    /\ counts => Counts
    /\ clipEnds => counts /\ sess.kind = "finite" /\ ~sess.done
    /\ link # "down"
    /\ SendPose(lease)
    /\ LET seen == IF counts THEN sess.rev ELSE sess.playing IN
         /\ \E more \in IF counts THEN {FALSE, sess.buffered} ELSE {sess.buffered} :
              sess' = [sess EXCEPT !.playing = seen, !.done = @ \/ clipEnds, !.buffered = more]
         /\ IF seen # sess.playing
              THEN pb' = "event" /\ event' = seen
              ELSE UNCHANGED <<pb, event>>
    /\ UNCHANGED <<directorVars, managerVars, gen, callerVars, linkVars, cues, halts, dark>>

\* The generation failed, the transport refused, or somebody asked to stop.
PlaybackEnds ==
    /\ pb = "run"
    /\ sess.stopped \/ sess.broken \/ link \in {"down", "lost"}
    /\ pb' = "stop"
    /\ sess' = Stopped(sess)
    /\ UNCHANGED <<directorVars, managerVars, event, gen, callerVars, linkVars, dev, historyVars>>

\* LiveArdySession.stop: generation cannot be cancelled, so its thread is
\* waited for before anybody may use the model again.
JoinsNobody == TRUE

JoinsProducer == gen = None

PlaybackStops ==
    /\ pb = "stop"
    /\ JoinsProducer
    /\ pb' = "dead"
    /\ sess' = [sess EXCEPT !.started = FALSE]
    /\ UNCHANGED <<directorVars, managerVars, event, gen, callerVars, linkVars, dev, historyVars>>

\* _on_prompt_playback_started, under the director's condition.
PromptStarted ==
    /\ pb = "event"
    /\ Unlocked
    /\ pb' = "run" /\ event' = 0
    /\ \/ /\ CueStarted(cue, event)
          /\ cue' = [cue EXCEPT !.phase = "PLAYING"]
          /\ state' = "CUE"
       \/ /\ IdleStarted(cue, event)
          /\ cue' = None
          /\ state' = "IDLE"
       \/ /\ ~CueStarted(cue, event) /\ ~IdleStarted(cue, event)
          /\ UNCHANGED <<cue, state>>
    /\ UNCHANGED <<enabled, token, lease, fence, play, out, ending, managerVars, sess, gen,
                   callerVars, linkVars, dev, historyVars>>

----------------------------------------------------------------------------
\* The producer thread: gen.rev is the revision it generates for, 0 while it
\* waits.

Generates ==
    /\ gen # None /\ gen.rev = 0
    /\ sess # None /\ ~sess.stopped
    /\ sess.kind = "ardy" /\ ~sess.broken /\ ~sess.buffered
    /\ gen' = [gen EXCEPT !.rev = sess.rev]
    /\ UNCHANGED <<directorVars, managerVars, sess, pb, event, callerVars, linkVars, dev,
                   historyVars>>

\* A horizon, or an error, counts when the prompt is still the one asked for.
Generated ==
    /\ gen # None /\ gen.rev # 0
    /\ gen' = [gen EXCEPT !.rev = 0]
    /\ IF sess # None /\ gen.rev = sess.rev
         THEN \/ sess' = [sess EXCEPT !.buffered = TRUE]
              \/ sess' = [sess EXCEPT !.broken = TRUE]
         ELSE UNCHANGED sess
    /\ UNCHANGED <<directorVars, managerVars, pb, event, callerVars, linkVars, dev, historyVars>>

ProducerExits ==
    /\ gen # None /\ gen.rev = 0
    /\ sess = None \/ sess.stopped
    /\ gen' = None
    /\ UNCHANGED <<directorVars, managerVars, sess, pb, event, callerVars, linkVars, dev,
                   historyVars>>

----------------------------------------------------------------------------
\* The bridge: _handle_connection opens the output, then attaches it; on the
\* way out it detaches, and closes what is no use any more.

LinkOpens ==
    /\ link = "down" /\ sid < MaxSessions
    /\ link' = "open" /\ sid' = sid + 1
    /\ dev' = NewDevice
    /\ UNCHANGED <<directorVars, managerVars, streamVars, callerVars, historyVars>>

AttachOutput ==
    /\ link = "open"
    /\ Unlocked /\ hal.at # "gone"
    /\ link' = "up"
    /\ out' = sid
    /\ state' = IF enabled THEN "STARTING" ELSE "HALTED"
    /\ UNCHANGED <<enabled, token, lease, fence, play, cue, ending, managerVars, streamVars,
                   callerVars, sid, dev, historyVars>>

LinkLost ==
    /\ link \in {"open", "up"}
    /\ link' = "lost"
    /\ UNCHANGED <<directorVars, managerVars, streamVars, callerVars, sid, dev, historyVars>>

DetachOutput ==
    /\ link = "lost"
    /\ Unlocked
    /\ link' = "down"
    /\ \/ /\ out = sid
          /\ out' = None
          /\ cue' = None
          /\ StopStream("output_detached")
          /\ state' = IF lease # 0 THEN "STOPPING"
                      ELSE IF enabled THEN "WAITING_OUTPUT" ELSE "HALTED"
       \/ /\ out # sid
          /\ UNCHANGED <<out, cue, play, sess, state>>
    /\ UNCHANGED <<enabled, token, lease, fence, ending, managerVars, pb, event, gen, callerVars,
                   sid, dev, historyVars>>

----------------------------------------------------------------------------
Manager ==
    \/ LoopFinishes \/ LoopExits \/ LoopReturns \/ LoopFails \/ LoopStarts \/ LoopWaits
    \/ FailStream \/ FailNeutralizes
    \/ StartAuthorizes \/ StartRechecks \/ StartCreates \/ StartReconciles
    \/ StartPrompts \/ StartAbandons \/ StartRaises

Playback ==
    \/ \E counts, clipEnds \in BOOLEAN : SendNext(counts, clipEnds)
    \/ PlaybackEnds \/ PlaybackStops \/ PromptStarted

Producer == Generates \/ Generated \/ ProducerExits

Callers ==
    \/ \E k \in CueKind : SubmitCue(k)
    \/ SubmitIdleCue \/ SubmitFails \/ SubmitNeutralizes
    \/ \E stop \in BOOLEAN : Halt(stop)
    \/ HaltNeutralizes \/ StopSets \/ StopJoins

Bridge ==
    LinkOpens \/ AttachOutput \/ LinkLost \/ DetachOutput

Next == Manager \/ Playback \/ Producer \/ Callers \/ Bridge

\* Threads run; a clip that is played reaches its end; everything else, and
\* whether time is up, may happen or not.
Fairness ==
    /\ WF_vars(Manager)
    /\ WF_vars(PlaybackEnds \/ PlaybackStops \/ PromptStarted)
    /\ SF_vars(SendNext(TRUE, FALSE))
    /\ SF_vars(SendNext(TRUE, TRUE))
    /\ WF_vars(Generates) /\ WF_vars(Generated) /\ WF_vars(ProducerExits)

Spec == Init /\ [][Next]_vars /\ Fairness

----------------------------------------------------------------------------
\* Besides the types: a fence is newer than the lease it fences, and the
\* newest token there is; the cue's phase says which revisions it knows.  A cue
\* counts as started, and its time begins to run, once a frame of its own
\* prompt was sent: neither the frame of the cue it replaced, whose callback
\* may come late, nor a blend on the way in.
TypeOK ==
    /\ state \in {"STOPPED", "WAITING_OUTPUT", "STARTING", "IDLE", "PREPARING_CUE", "CUE",
                  "RETURNING_IDLE", "STOPPING", "HALTED", "FAILED"}
    /\ enabled \in BOOLEAN /\ ending \in BOOLEAN /\ dark \in BOOLEAN
    /\ lease \in 0..token
    /\ fence # 0 => lease # 0 /\ fence > lease /\ fence = token
    /\ play \in Playbacks \cup {None}
    /\ play # None => sess # None /\ lease # 0 /\ pb # "none"
    /\ out \in {None} \cup 1..MaxSessions
    /\ mgr.at \in {"loop", "locked", "gone", "fail", "neutral", "authorize", "recheck",
                   "create", "reconcile", "prompt", "overtaken", "raise"}
    /\ pb \in {"none", "run", "event", "stop", "dead"}
    /\ cue # None =>
         /\ cue.phase \in {"PREPARING", "PLAYING", "RETURNING_IDLE"}
         /\ cue.phase # "PREPARING" => cue.rev # 0
         /\ cue.idleRev # 0 <=> cue.phase = "RETURNING_IDLE"
         /\ cue.phase # "PREPARING" /\ play # None => cue.rev <= sess.playing
    /\ dev.owner \in 0..dev.high /\ dev.shown \in 0..token

\* After a halt, a failure or a stop, until somebody asks for motion, no
\* stream sends poses, and a device whose stream halt has fenced stays dark;
\* though the fence is sent outside the condition, past an authorization, a
\* pose and a new connection on their way.
HaltSilences ==
    /\ ~enabled => ~(pb = "run" /\ ~sess.stopped)
    /\ dark => dev.shown = 0

\* The resident model is used by the producer of one stream at a time, though
\* generation cannot be cancelled and streams follow one another at once.
ModelHasOneUser ==
    gen # None => sess # None /\ gen.stream = sess.stream

\* A cue does not stay on a stream for ever: it is played and left, or failed.
CueEnds == <>[](cue = None \/ play = None)
=============================================================================
