------------------------------ MODULE Sensors ------------------------------
(***************************************************************************)
(* The senses on the Windows side: a supervisor that attaches one capture  *)
(* session after another to whichever VRChat runs, the hub between them    *)
(* and the bridge, the helper process that delivers VRChat's sound, and    *)
(* the screenshots the Mac asks for.  It runs on                           *)
(*   - the supervisor's thread, which starts, watches and stops sessions;  *)
(*   - three threads per helper process (its status, its sound, and one    *)
(*     that watches both), which a close waits for only so long;           *)
(*   - the capture library's thread, which delivers frames;                *)
(*   - the bridge's thread, which serves screenshots;                      *)
(*   - a thread on the Mac that waits for one, and the main thread, which  *)
(*     starts and stops it all.                                            *)
(* An attempt is one session: each has a capture, a helper and threads of  *)
(* its own, so what an earlier one left behind meets its successor here.   *)
(***************************************************************************)
EXTENDS Naturals, Sequences

CONSTANTS
    Nothing,        \* Python's None
    MaxGames,       \* bound on the VRChat processes started
    MaxAttempts,    \* bound on the sessions attempted
    MaxAsks         \* bound on the screenshots asked for

ASSUME SensorsAssumption ==
    /\ {MaxGames, MaxAttempts, MaxAsks} \subseteq Nat
    /\ Nothing \notin Nat \cup (Nat \X Nat) \cup [ask : Nat, of : Nat]

Attempt == 1..MaxAttempts

VARIABLES
    game, games,    \* the VRChat that runs, 0 for none; how many there were
    \* WindowsCompanionSupervisor and WindowsCompanionRuntime
    stop,           \* _stop_event
    sup,            \* the supervisor's thread: where it is, and whether the
                    \* session it starts or undoes is attached
    epoch,          \* the sessions that got as far as RUNNING
    attempt,        \* the session at hand
    \* VrchatSensorSession: its id, its capture and its sound
    id, capture, frame, audio,
    \* WindowsInputHub
    sensor, provider, lock,
    \* screenshots: the Mac's, on the way, the one being taken, on the way back
    asked, pending, requests, shot, replies

gameVars == <<game, games>>
supVars == <<stop, sup, epoch, attempt>>
sessionVars == <<id, capture, frame, audio>>
hubVars == <<sensor, provider, lock>>
shotVars == <<asked, pending, requests, shot, replies>>
sensorsVars == <<gameVars, supVars, sessionVars, hubVars, shotVars>>

----------------------------------------------------------------------------
\* NativeProcessAudioSource: the helper, what is known of it, its threads.

NewAudio ==
    [helper |-> "none", format |-> FALSE, failed |-> FALSE, running |-> FALSE, closed |-> FALSE,
     reader |-> "none"]

\* _fail: whatever comes after the first failure changes nothing.  The helper
\* is told to terminate, which it does in its own time (HelperDies).
Failed(s) == [s EXCEPT !.failed = TRUE, !.running = FALSE]

\* Exited, or never there; one that survives its kill for a while is neither
\* dead nor alive, but dying.
Dead(s) == s.helper \in {"none", "dead"}

\* The attempt at hand: its source becomes s.
Audio(s) == audio' = [audio EXCEPT ![attempt] = s]

Goes(to) == sup' = [sup EXCEPT !.at = to]

----------------------------------------------------------------------------
SensorsInit ==
    /\ game = 0 /\ games = 0
    /\ stop = FALSE
    /\ sup = [at |-> "resolve", attached |-> FALSE]
    /\ epoch = 0 /\ attempt = 0
    /\ id = [a \in Attempt |-> Nothing]
    /\ capture = [a \in Attempt |-> "none"]
    /\ frame = [a \in Attempt |-> Nothing]
    /\ audio = [a \in Attempt |-> NewAudio]
    /\ sensor = Nothing /\ provider = 0 /\ lock = FALSE
    /\ asked = 0 /\ pending = 0 /\ requests = <<>> /\ shot = Nothing /\ replies = <<>>

----------------------------------------------------------------------------
\* VRChat starts and exits as its user likes.

GameStarts ==
    /\ game = 0 /\ games < MaxGames
    /\ games' = games + 1 /\ game' = games + 1
    /\ UNCHANGED <<supVars, sessionVars, hubVars, shotVars>>

GameExits ==
    /\ game # 0
    /\ game' = 0
    /\ UNCHANGED <<games, supVars, sessionVars, hubVars, shotVars>>

----------------------------------------------------------------------------
\* The main thread stops the supervisor; it waits for its thread, but not for
\* ever, and takes the device plane down either way.
Stop ==
    /\ ~stop
    /\ stop' = TRUE
    /\ UNCHANGED <<gameVars, sup, epoch, attempt, sessionVars, hubVars, shotVars>>

----------------------------------------------------------------------------
\* The supervisor's thread: finding a VRChat.  A look that finds none, or two,
\* or that fails is followed by another.

Resolve ==
    /\ sup.at = "resolve" /\ ~stop
    /\ game # 0 /\ attempt < MaxAttempts
    /\ attempt' = attempt + 1
    /\ id' = [id EXCEPT ![attempt + 1] = <<game, epoch + 1>>]
    /\ Goes("capture")
    /\ UNCHANGED <<gameVars, stop, epoch, capture, frame, audio, hubVars, shotVars>>

SupervisorEnds ==
    /\ sup.at = "resolve" /\ stop
    /\ Goes("gone")
    /\ UNCHANGED <<gameVars, stop, epoch, attempt, sessionVars, hubVars, shotVars>>

\* VrchatSensorSession.start: capture, then the hub, then sound.
StartCapture ==
    /\ sup.at = "capture"
    /\ \/ /\ capture' = [capture EXCEPT ![attempt] = "on"]
          /\ Goes("attach")
       \/ /\ Goes("closeCapture")
          /\ UNCHANGED capture
    /\ UNCHANGED <<gameVars, stop, epoch, attempt, id, frame, audio, hubVars,
                   shotVars>>

AttachSensor ==
    /\ sup.at = "attach" /\ ~lock
    /\ sensor' = id[attempt] /\ provider' = attempt
    /\ sup' = [sup EXCEPT !.at = "spawn", !.attached = TRUE]
    /\ UNCHANGED <<gameVars, stop, epoch, attempt, sessionVars, lock, shotVars>>

SpawnHelper ==
    /\ sup.at = "spawn"
    /\ \/ /\ Audio([audio[attempt] EXCEPT !.helper = "alive"])
          /\ Goes("startup")
       \/ /\ Goes("detach")
          /\ UNCHANGED audio
    /\ UNCHANGED <<gameVars, stop, epoch, attempt, id, capture, frame, hubVars,
                   shotVars>>

\* The wait for the helper's format, or its failure, or too long.  What fails
\* here closes the source within its own start.
Startup ==
    /\ sup.at = "startup"
    /\ LET s == audio[attempt] IN
       \/ /\ s.format /\ ~s.failed
          /\ Goes("verify")
          /\ UNCHANGED audio
       \/ /\ s.failed
          /\ Goes("closeAudio")
          /\ UNCHANGED audio
       \/ /\ ~s.format /\ ~s.failed
          /\ Audio(Failed(s))
          /\ Goes("closeAudio")
    /\ UNCHANGED <<gameVars, stop, epoch, attempt, id, capture, frame, hubVars,
                   shotVars>>

\* A session that runs is a new epoch, so the next one has another id.
SameEpoch == epoch

NextEpoch == epoch + 1

\* A helper that has not exited counts as started, whatever was recorded of it
\* since the look at its failure.
Verify ==
    /\ sup.at = "verify"
    /\ LET s == audio[attempt] IN
       \/ /\ ~Dead(s)
          /\ Audio([s EXCEPT !.running = TRUE, !.reader = "run"])
          /\ Goes("watch")
                /\ epoch' = NextEpoch
       \/ /\ Dead(s)
          /\ Audio(Failed(s))
          /\ Goes("closeAudio")
          /\ UNCHANGED epoch
    /\ UNCHANGED <<gameVars, stop, attempt, id, capture, frame, hubVars, shotVars>>

\* _run_epoch's watch: until it is told to stop, VRChat was replaced, or the
\* session is not healthy any more.
HealthyWhateverTheSound(s) == TRUE

Healthy(s) == s.running

Watch ==
    /\ sup.at = "watch"
    /\ \/ stop /\ Goes("detach")
       \/ ~stop /\ id[attempt][1] # game /\ Goes("detach")
       \/ ~stop /\ ~Healthy(audio[attempt]) /\ Goes("detach")
    /\ UNCHANGED <<gameVars, stop, epoch, attempt, sessionVars, hubVars, shotVars>>

\* VrchatSensorSession._shutdown: off the hub, then sound, then capture, past
\* whatever raises.  A source is closed once, here or in its start.
DetachSensor ==
    /\ sup.at = "detach" /\ ~lock
    /\ IF sensor = id[attempt]
         THEN sensor' = Nothing /\ provider' = 0
         ELSE UNCHANGED <<sensor, provider>>
    /\ sup' = [sup EXCEPT !.attached = FALSE,
                          !.at = IF audio[attempt].closed THEN "closeCapture" ELSE "closeAudio"]
    /\ UNCHANGED <<gameVars, stop, epoch, attempt, sessionVars, lock, shotVars>>

\* A helper that lives is terminated, then killed, and each time waited for; one
\* that is still there after that makes close raise in the end.  From then on
\* nobody asks what the source is.
CloseAudio ==
    /\ sup.at = "closeAudio"
    /\ \E helper \in IF Dead(audio[attempt]) THEN {audio[attempt].helper} ELSE {"dead", "dying"} :
         Audio([audio[attempt] EXCEPT !.closed = TRUE, !.helper = helper,
                                      !.format = FALSE, !.failed = FALSE, !.running = FALSE])
    /\ Goes("join")
    /\ UNCHANGED <<gameVars, stop, epoch, attempt, id, capture, frame, hubVars,
                   shotVars>>

AfterAudioUnlessRaised(raised) ==
    IF sup.attached THEN "detach" ELSE IF raised THEN "after" ELSE "closeCapture"

AfterAudio(raised) == IF sup.attached THEN "detach" ELSE "closeCapture"

\* The threads are waited for.  close raises when that wait was too long, or the
\* one for the helper.  The threads of the status and of the monitor change
\* nothing any more, but may be late too.
JoinAudio ==
    /\ sup.at = "join"
    /\ \E raised \in BOOLEAN :
         /\ ~raised => audio[attempt].reader \in {"none", "done"} /\ Dead(audio[attempt])
         /\ Goes(AfterAudio(raised))
    /\ UNCHANGED <<gameVars, stop, epoch, attempt, sessionVars, hubVars, shotVars>>

CloseCapture ==
    /\ sup.at = "closeCapture"
    /\ capture' = [capture EXCEPT ![attempt] = "off"]
    /\ frame' = [frame EXCEPT ![attempt] = Nothing]
    /\ Goes("after")
    /\ UNCHANGED <<gameVars, stop, epoch, attempt, id, audio, hubVars, shotVars>>

SessionEnds ==
    /\ sup.at = "after"
    /\ Goes("resolve")
    /\ UNCHANGED <<gameVars, stop, epoch, attempt, sessionVars, hubVars, shotVars>>

----------------------------------------------------------------------------
\* The helper of attempt a, and the threads that listen to it.

Becomes(a, s) ==
    /\ audio' = [audio EXCEPT ![a] = s]
    /\ UNCHANGED <<gameVars, supVars, id, capture, frame, shotVars>>

\* It dies by itself, or as it was told.
HelperDies(a) ==
    /\ ~Dead(audio[a])
    /\ Becomes(a, [audio[a] EXCEPT !.helper = "dead"])
    /\ UNCHANGED hubVars

\* _read_status: the format; or an error, a line that makes no sense, or the
\* end of the stream.
HelperStarted(a) ==
    /\ audio[a].helper # "none" /\ ~audio[a].closed /\ ~audio[a].failed
    /\ Becomes(a, [audio[a] EXCEPT !.format = TRUE])
    /\ UNCHANGED hubVars

StatusFails(a) ==
    /\ audio[a].helper # "none" /\ ~audio[a].closed
    /\ Becomes(a, Failed(audio[a]))
    /\ UNCHANGED hubVars

\* _read_audio: some sound that makes a frame, or that cannot be converted.
ReadSound(a) ==
    /\ audio[a].reader = "run" /\ ~audio[a].closed
    /\ \/ Becomes(a, [audio[a] EXCEPT !.reader = "publish"])
       \/ Becomes(a, [Failed(audio[a]) EXCEPT !.reader = "done"])
    /\ UNCHANGED hubVars

\* WindowsInputHub.publish_audio, under the hub's lock until it is sent.
\* What passes has no effect the other end could undo: see SensesAreTheAttached.
Passes(a) == id[a] = sensor

PublishAudio(a) ==
    /\ audio[a].reader = "publish" /\ ~lock
    /\ Becomes(a, [audio[a] EXCEPT !.reader = "run"])
    /\ UNCHANGED hubVars

ReaderEnds(a) ==
    /\ audio[a].reader = "run" /\ (audio[a].closed \/ Dead(audio[a]))
    /\ Becomes(a, [audio[a] EXCEPT !.reader = "done"])
    /\ UNCHANGED hubVars

\* _monitor: the helper has exited, or has not been heard of for too long.
MonitorFails(a) ==
    /\ audio[a].reader # "none" /\ ~audio[a].closed
    /\ Becomes(a, Failed(audio[a]))
    /\ UNCHANGED hubVars

\* LatestFrameQueue.publish: the newest frame replaces the one not yet read.
\* A frame remembers the screenshots asked for before it was captured.
FrameArrives(a) ==
    /\ capture[a] = "on" /\ game # 0
    /\ frame' = [frame EXCEPT ![a] = [stamp |-> asked, new |-> TRUE]]
    /\ UNCHANGED <<gameVars, supVars, id, capture, audio, hubVars, shotVars>>

----------------------------------------------------------------------------
\* A screenshot.  The Mac waits for one answer at a time; the bridge's thread
\* serves the requests in turn.

RequestScreenshot ==
    /\ pending = 0 /\ asked < MaxAsks
    /\ asked' = asked + 1 /\ pending' = asked + 1
    /\ requests' = Append(requests, asked + 1)
    /\ UNCHANGED <<gameVars, supVars, sessionVars, hubVars, shot, replies>>

\* Too long, or the connection went: nobody waits any more.
RequestEnds ==
    /\ pending # 0
    /\ pending' = 0
    /\ \/ UNCHANGED <<requests, replies>>
       \/ requests' = <<>> /\ replies' = <<>>
    /\ UNCHANGED <<gameVars, supVars, sessionVars, hubVars, asked, shot>>

\* _capture_screenshot: the hub is locked as long as the provider reads, and
\* what was captured before that is too old.
TakeLock == lock' = TRUE

ShotBegins ==
    /\ shot = Nothing /\ requests # <<>> /\ ~lock /\ provider # 0
    /\ TakeLock
    /\ shot' = [ask |-> Head(requests), of |-> provider]
    /\ requests' = Tail(requests)
    /\ frame' = IF frame[provider] = Nothing THEN frame
                ELSE [frame EXCEPT ![provider].new = FALSE]
    /\ UNCHANGED <<gameVars, supVars, id, capture, audio, sensor, provider, asked,
                   pending, replies>>

Reply(ask, stamp) == replies' = Append(replies, [ask |-> ask, stamp |-> stamp])

ReadsAnyFrame(f) == f # Nothing

ReadsFrame(f) == f # Nothing /\ f.new

\* WindowsJpegScreenshotProvider, read_after.
ShotEnds ==
    /\ shot # Nothing
    /\ ReadsFrame(frame[shot.of])
    /\ Reply(shot.ask, frame[shot.of].stamp)
    /\ frame' = [frame EXCEPT ![shot.of] = Nothing]
    /\ shot' = Nothing /\ lock' = FALSE
    /\ UNCHANGED <<gameVars, supVars, id, capture, audio, sensor, provider, asked,
                   pending, requests>>

\* No frame in time, or the capture is over; and a request without a sensor.
ShotFails ==
    /\ shot # Nothing
    /\ Reply(shot.ask, Nothing)
    /\ shot' = Nothing /\ lock' = FALSE
    /\ UNCHANGED <<gameVars, supVars, sessionVars, sensor, provider, asked,
                   pending, requests>>

ShotRefused ==
    /\ shot = Nothing /\ requests # <<>> /\ ~lock /\ provider = 0
    /\ Reply(Head(requests), Nothing)
    /\ requests' = Tail(requests)
    /\ UNCHANGED <<gameVars, supVars, sessionVars, hubVars, asked, pending, shot>>

\* MacInputTransport._receive_screenshot: an answer nobody waits for is stale.
ReceiveScreenshot ==
    /\ replies # <<>>
    /\ replies' = Tail(replies)
    /\ IF Head(replies).ask = pending
         THEN pending' = 0
         ELSE UNCHANGED pending
    /\ UNCHANGED <<gameVars, supVars, sessionVars, hubVars, asked, requests, shot>>

----------------------------------------------------------------------------
Supervisor ==
    \/ Resolve \/ SupervisorEnds
    \/ StartCapture \/ AttachSensor \/ SpawnHelper \/ Startup \/ Verify
    \/ Watch
    \/ DetachSensor \/ CloseAudio \/ JoinAudio \/ CloseCapture \/ SessionEnds

Helper(a) ==
    \/ HelperDies(a) \/ HelperStarted(a) \/ StatusFails(a)
    \/ ReadSound(a) \/ PublishAudio(a) \/ ReaderEnds(a)
    \/ MonitorFails(a)

Screenshot ==
    \/ RequestScreenshot \/ RequestEnds \/ ReceiveScreenshot
    \/ ShotBegins \/ ShotEnds \/ ShotFails \/ ShotRefused

SensorsNext ==
    \/ GameStarts \/ GameExits
    \/ Stop
    \/ Supervisor
    \/ \E a \in Attempt : Helper(a) \/ FrameArrives(a)
    \/ Screenshot

\* The supervisor's thread runs (a look that finds nothing changes nothing);
\* the monitor's timer fires; a capture that brings no frame times out.
SensorsFairness ==
    /\ WF_sensorsVars(Supervisor)
    /\ \A a \in Attempt : WF_sensorsVars(Dead(audio[a]) /\ MonitorFails(a))
    /\ WF_sensorsVars(ShotFails)

SensorsSpec == SensorsInit /\ [][SensorsNext]_sensorsVars /\ SensorsFairness

----------------------------------------------------------------------------
\* Besides the types: what the hub holds is one session, whole.
SensorsTypeOK ==
    /\ game \in 0..games /\ games \in 0..MaxGames
    /\ stop \in BOOLEAN
    /\ sup.at \in {"resolve", "capture", "attach", "spawn", "startup", "verify", "watch",
                   "detach", "closeAudio", "join", "closeCapture", "after", "gone"}
    /\ epoch \in 0..attempt /\ attempt \in 0..MaxAttempts
    /\ \A a \in Attempt :
         /\ capture[a] \in {"none", "on", "off"}
         /\ audio[a].helper \in {"none", "alive", "dying", "dead"}
         /\ audio[a].running => audio[a].format
    /\ sensor = IF provider = 0 THEN Nothing ELSE id[provider]
    /\ sup.at = "watch" => provider = attempt
    /\ lock <=> shot # Nothing

\* Only the attached session is heard, and a screenshot reads a capture that
\* is open: not that of a session whose threads outlived the wait for them,
\* nor of one that is being taken down meanwhile.
SensesAreTheAttached ==
    /\ \A a \in Attempt : audio[a].reader = "publish" /\ Passes(a) => a = provider
    /\ shot # Nothing => capture[shot.of] = "on"

\* When a session is over, so that the next may start, it has left no capture,
\* no place in the hub and no helper, however it ended and whatever raised; save
\* a helper that was killed and has not gone yet, for which nobody waits again.
SessionLeavesNothing ==
    sup.at \in {"resolve", "gone"} =>
      /\ provider = 0
      /\ \A a \in Attempt : audio[a].helper # "alive" /\ capture[a] # "on"

\* A screenshot shows the world after it was asked for, though answers to
\* requests that were given up come late and the last frame waits to be read.
ScreenshotIsFresh ==
    \A i \in DOMAIN replies :
      replies[i].ask = pending /\ replies[i].stamp # Nothing => replies[i].stamp >= pending

\* A session whose helper has died is given up, also when the failure was
\* recorded while it started; and a stop ends the supervisor.
DeadSensorIsReplaced ==
    []<>(sup.at = "gone" \/ ~(stop \/ (sup.at = "watch" /\ Dead(audio[attempt]))))
=============================================================================
