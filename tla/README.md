# vrc-agent: a TLA+ model of the companion

The repository drives a VRChat avatar from an agent. One program, the
*companion*, runs on the agent's machine (macOS in the docs): it listens, asks a
brain what to do, and turns the answer into speech and motion. A second program,
the *Windows companion*, runs beside VRChat; it captures what the avatar hears
and sees, and is the only one that writes the avatar's devices: tracker poses,
OSC, the voice. They talk over one websocket. Around them stand a follower that
walks after a player, a runner that keeps the services running, and a set-up
that installs the motion model. This directory models how these parts decide
**who may do what, and when that ends**, and checks it with TLC. The safety of the
gateway, the supervisor, the voice between them, the turns, the motion director,
the calibration, the runner and the follower is proved with TLAPS, for any number
of devices, sessions, actions, turns, streams and starts.

Paths such as `device_gateway.py:250` are below `src/vrc_ardy_agent/`.

## The system

| component | state it keeps | operations | hard because |
|---|---|---|---|
| character supervisor (`character_supervisor.py`, `control_resources.py`) | per resource: token, owner, running action, waiting action; per action: state, cancel event | `apply_bundle`, `halt_all`, an executor's `mark_running` and end | one thread per action beside the request threads; output calls that time out |
| voice output (`speech_executor.py`, `mac_output_transport.py`, `mac_bridge_server.py`) | output session, calls waiting for an answer, playbacks waiting for a completion | `authorize`, `neutralize`, `play_wav`, `receive`, session open and close | three kinds of thread; state read outside the lock; connections that are replaced |
| bridge client (`windows_bridge_client.py`, `windows_output_controller.py`, `windows_wave_player.py`, `windows_device_sink.py`) | connection, its sender, the playing voice | one handler per message, watchdog, reconnection | the player's own thread; messages of a dead session |
| device gateway (`device_gateway.py`) | session, exclusive claim; per resource: token, owner, sequence, deadline | open, claim, release, close, authorize, neutralize, apply, poll | stale and repeated messages, expiry, sinks that fail |
| message contracts (`stream_protocol.py`, `device_payloads.py`) | none | encode and decode per message | two directions with limits of their own |
| interaction runtime (`interaction_runtime.py`, `dialogue_turns.py`, `idle_behavior_policy.py`, `fast_stop.py`) | turn version, active turns, idle clock | reserve and handle an utterance, dispatch, halt, idle tick | answers that come back late; locks held over network calls |
| observation loop (`observation_loop.py`) | slots, deadline | capture, ask, give up | calls that cannot be killed |
| audio pipeline (`audio_interaction_pipeline.py`, `energy_vad.py`) | the gate's buffers, one job per utterance | accept audio, transcribe, supersede, close | results out of order; three locks |
| plans (`action_contracts.py`, `providers/decision.py`, `hermes_brain.py`) | none | decode and validate the brain's answer | what one stage lets through, the next may refuse |
| motion director (`motion_director*.py`, `motion_stream.py`, `motion_cue.py`, `motion_session.py`, `anchored_motion.py`, `live_session.py`) | persistent pose stream, its lease and fence token, the current cue; the stream's buffer | cues, start and end of a stream, halt, stop, output attach and detach | a second owner of leases, with calls outside its lock; three threads per stream |
| Windows senses (`windows_companion_supervisor.py`, `windows_sensor_session.py`, `windows_process_audio.py`, `windows_capture.py`, `windows_input_hub.py`, `*_input_transport.py`) | the attached session, the helper process, the last frame, pending screenshots | attach, watch, retry, stop; publish sound, take a screenshot | the game restarts at any time; threads that outlive the wait for them |
| VRChat identity (`windows_vrchat_identity.py`) | logs by size | resolve, is_current | processes, logs and names that change while they are read |
| calibration (`calibration_session.py`, `tracker_device_controller.py`) | calibration record, deadline, sequence; target frame | start, update, heartbeat, finish, expiry | watchdog against client; two writers of one device |
| pose output (`live_sink.py`) | what face parameters it ever drove | send a frame, neutralize | nothing is answered, and what was sent stays in force |
| the programs (`windows_device_plane.py`, `companion_app.py`, `companion_http_runtime.py`, `scripts/run_*.py`) | what was started | start, shutdown | any step may raise; threads that do not end |
| perception (`windows_perception.py`, `nameplate.py`, `target_fusion.py`) | the reader's frame and answer, the look of the plate, the number of the body followed | capture, read, relocate, select | a reader that is seconds behind; bodies that are lost and renumbered |
| follow (`follow_*.py`) | newest observation, search clock, axes and pulses | submit, tick, stop | perception that restarts; stop against a tick |
| service runner (`runner/`) | a record file per service, the profile | start, stop, observe, supervise, commit | two processes that write one file; either may be killed |
| motion model set-up (`runner/runtime_setup/`) | a job record, locks, files | start, resume, cancel, build, verify | workers and tasks that outlive whoever started them |

`PROJECT.json` lists every component with its files, the unmodelled ones too, and
the hazards of this code with the properties that cover them.

How they interact: sound from Windows is cut into utterances, an utterance
becomes a turn, a turn becomes a bundle of actions; speech goes to the character
supervisor and motion to the motion director. Each of the two takes a *lease*
(resource, token, action) and tells the gateway through the bridge: `authorize`
gives the lease the device, `neutralize` with a newer token takes it away and
silences the device. Both wait for an answer; data (poses, speech) is sent
without one. The gateway checks every message against the session, the token,
the action, the sequence number and the time. So the two ends hold copies of the
same fact, *who owns the device*, that differ while messages are under way; most
of the safety of the system is in how the copies may differ.

What makes each component correct, in the order of the table: the newest request
owns its resource and nothing else is heard; a lost answer or connection leaves
neither a stale owner nor a stuck thread; only accepted data of the owner
reaches a device and everything else leaves it neutral; what one end sends the
other takes; an answer to an old turn changes nothing and every turn ends; slots
are bounded; the newest utterance wins; a plan that was accepted can be carried
out; a halted stream shows nothing; only the attached VRChat is sensed, and it is
the one asked for; a calibration is exclusive and ends in a safe pose; the avatar
is told exactly what the last call asked; programs end with the devices at rest;
neutral is the last output of a follower that was stopped; a service is started
once and a stop stops it; an installation is built by one at a time and is called
complete when it was verified.

## Modules

| module | models |
|---|---|
| `FencedOutput` | nothing in the code: the abstract promise of the gateway, devices that only their present grant writes and grants that never come back |
| `NewestOwner` | nothing in the code either: the abstract promise of the supervisor, resources that only their newest request owns and requests that never own again |
| `DeviceGateway` | `device_gateway.py`, every state-changing method |
| `CharacterSupervisor` | `character_supervisor.py` and `control_resources.py`, every state-changing method |
| `VoiceBridge` | one resource, the voice, through all processes and threads; it instantiates `DeviceGateway` for the Windows end |
| `Calibration` | `calibration_session.py`, `tracker_device_controller.py` and the calibration part of `windows_companion_api.py`; it instantiates `DeviceGateway` too |
| `EnergyVad` | `energy_vad.py` as operators on its buffers |
| `Interaction` | `audio_interaction_pipeline.py`, `interaction_runtime.py`, `dialogue_turns.py`, `observation_loop.py`, `idle_behavior_policy.py`; it extends `EnergyVad` |
| `Motion` | the motion director and the stream it owns |
| `Sensors` | the Windows senses and the screenshots of the Mac |
| `Follow` | the follower |
| `Perception` | the process that tells the follower where its player is: `windows_perception.py`, the name reader of `nameplate.py`, `target_fusion.py` |
| `Runner` | one service of the runner |
| `Wire` | the messages of the bridge at both ends |
| `Decision` | the brain's answer from response to dispatch |
| `Setup` | one installation of the motion model |
| `Programs` | the two programs from start to end |
| `PoseOutput` | `SixPointUdpSink` |
| `Identity` | `windows_vrchat_identity.py` |
| `MC*` | symmetry sets and constant functions for TLC; `MCContracts` puts `Wire`, `Decision`, `Programs`, `PoseOutput` and `Setup` side by side, `MCSensors` `Sensors` and `Identity`, `MCFollow` `Follow` and `Perception` |
| `DeviceGatewayProofs`, `CharacterSupervisorProofs`, `VoiceBridgeProofs`, `CalibrationProofs`, `InteractionProofs`, `MotionProofs`, `RunnerProofs`, `FollowProofs` | theorems; `FollowProofs` is about `Perception` too, `RunnerProofs` about `Setup`, `Wire` and `Decision`, `DeviceGatewayProofs` about `Sensors` and `Identity`, `MotionProofs` about `PoseOutput`, `CalibrationProofs` about `Programs` |

### DeviceGateway

The variables are the fields of the class: `session`, `exclusive`, `resources`
(one `_ResourceState` each) and `device`, what the sink did last, where `None` is
neutral. Each public method holds the lock throughout, so each is an action.
Callers are several threads that may pass anything, so the arguments range over
whole sets. `...Verdict` operators are the chains of early returns, in their
order; an action is a call whose verdict is "accepted". Refused calls count and
touch the heartbeat only: no decision reads those, so they are stuttering steps.
The clock is read before the lock is taken (`received`, `at` are any times up to
now). A sink in `Faulty` may raise when asked to go neutral; the code then
revokes the lease all the same. `opened` and `revoked` are history: ids are
`uuid4`, so none is used twice.

### CharacterSupervisor

Every method holds the condition's re-entrant lock, its output calls included,
so each is an action and the intermediate states are left to `VoiceBridge`.
`Reassign` is what all of them share: fence some owners (a new token, no owner,
output neutral), start some actions (a new token, the new owner, output
authorized), and take back those the output refuses. `refused`, `mute` and `late`
are the ways an output call may fail: refused outright, a neutralize that never
arrives, an authorization that took effect although its answer was lost.
`mute` is a subset of the constant `Lossy`, so that properties can be stated
for reliable and unreliable outputs alike. `latest` is history.

### VoiceBridge

Here a supervisor method is split at its output call: `call` is the call that the
holder of the condition is in, and every other thread that needs the condition
waits for `call = None`. `Request`, `Halt` and `FinishHandle` run up to the call;
`CallRead` and `CallSend` are the two critical sections of
`MacOutputTransport`; `MacReceive`, `MacEnds` or `CallTimeout` ends it; a
`Return...` action is the rest of the method. Executor threads go through
`Synthesize`, `MarkRunning`, `PlayRead`, `PlaySend`, `PlayWait` without the
condition, except where the code takes it. The wire is two FIFO sequences that
`Break` may cut: what is on it may still be read or be lost. `Win...` actions are
the client's handlers, each with the gateway action it calls and what the player
does under it; `PlayerEnds` and `PlayerIdle` are the last two steps of the
playback thread, with the window between them.

### Calibration

A wizard shows poses on the real device while a user looks at them, under the
gateway's exclusive claim. `op` is the method that holds `CalibrationSession`'s
lock, with the stage it has reached; `request` is the HTTP call that holds the
`_calibration_lock` of the API in front of it, with the VRChat target it read
before it waits for the other lock; `io` is who is inside `flush_target` and with
which frame. Every call a method makes to the gateway or to the tracker is a
step of its own, and between them the output thread, the watchdog, VRChat and
the agent's client go on. All methods start with `poll`: `Poll` is that and the
watchdog's at once, and no method begins while it is due. A frame is who sent it
and its revision. A device that fails to write is out for good (`running`).
`Claim` ... `Release` are the steps of `start`, `_apply` and `_restore`; the agent
uses the gateway as `VoiceBridge`'s client does. The wizard always presents the
current token and revision: with others a call is refused before it changes
anything, or returns the old record. An output of the calibration lives 6
seconds in the gateway, which polls only while an agent is connected; so it is
never taken away there, and the model has no such step. `begun`, `confirmedOn`
and `seen` are history.

### Interaction

The threads: the bridge's connection thread, which pushes audio (`conn`), one per
turn (`at[t]` is the line it has reached, in the pipeline's job, the observation
loop or the dispatch), one per external call (`call`, and `orphans` for calls
nobody waits for any more), the idle tick, and whoever halts. The locks: the
ingest lock is `conn` or `tick` being busy, `activity` is who holds the activity
lock, and an action whose code takes a lock has it free as its guard. `doing` is
the output call the holder of the activity lock waits for: it ends with an
answer, which takes a connection thread that is not itself waiting for the lock,
or by its time-out. `vad` is the gate's buffers, where a frame is loud or not.
Speech is at most one that is heard, one that is being stopped and one that
waits. A posted plan (`ApplyPayload`) is a turn without a job.

### Motion

`state`, `token`, `lease`, `fence`, `play`, `cue` are the director's fields. The
manager thread is `mgr`, with every call it makes outside the condition a place
of its own; what it is about to start is `start`. The stream is `sess` (the
prompts asked for, entered and played), its playback thread `pb`, its producer
`gen`. `sub` and `hal` are callers inside `submit_cue`, `halt` and `stop`. `link`
is where the connection thread is with attaching or detaching output session
`sid`, `out` the session the director knows of, and `dev` the little of the
gateway a stream can tell: highest token, owner, what is shown.
Frames are not counted: what matters of one is the prompt it belongs to and
whether it ends a clip. Time-outs may come at any moment.

### Sensors

`sup` is the supervisor's thread between two calls that may raise or take time;
`attempt` numbers sessions, and `audio[a]`, `capture[a]`, `frame[a]` are what the
threads of session `a` have made, also after it is over: a thread that outlives
its join meets the next session here. `sensor`, `provider`, `lock` are the hub's.
A screenshot goes through `asked`, `pending` (the Mac), `requests` (the wire),
`shot` (the bridge thread, with the hub's lock) and `replies`; each may time out,
be given up or come late.

### Follow

`loop` is the tick thread between its reads, the decision and the two writes;
`main` the thread that stops it and waits one second. `latest` is the store of
the receiver, `state` ... `side` the controller, `shown` and `pulse` what the sink
told VRChat, which may miss a write. Time is counted in units, seven durations
of the configuration are constants, and smoothing is left to any approach.

### Perception

`runner` is the capture loop between its calls: a frame is taken, its bodies are
found (`bodies`), the plate is relocated in it (`plate`), somebody is chosen and
shown (`observed`). `reader` is the thread that reads names, with the frame it
has; its answer waits in `anchor`, with that frame, until `Locate` takes it and
cuts the look of the plate out of it (`look`). A frame is who stands where. What
the model takes from the image libraries is in the module's header, and the
property rests on it. `MCFollow` checks it beside the follower: whatever packets
`Follow` hears, in any order, are more than this process sends, and nothing goes
back, so the two need not move in one behaviour.

### Runner and Setup

A start is known by its ticket, as in the code, and worker `t` and child `t`
belong to it. Every system call that other processes can see (spawning, reading
or replacing a record, a lock) is a step; between two steps any client or worker
may be killed. `unnoticed` and `lost` are history: processes of which no record
tells because a kill fell between `Popen` and the record. `unseen` is too: an edit,
after the verification loaded the files, of files of which it takes no fingerprints
(`verify.py:72-89` takes those of the interpreter, of ardy's sources and of the
models, but not of the other packages' code). `Setup` has the tasks a
worker runs one after another, what each has made of the files (`part`), and the
evidence the verification left (`loaded`, `evidence`).

### Wire, Decision, Programs, PoseOutput, Identity

`Wire` writes both tables of the protocol down, encoder and decoder apart, and
sends every message that some component constructs through them; a value stands
for its class (a text that is padded or too long, a size in MiB around the
limits). `Decision` follows one turn's data through `decode_decision`, the
acquisition policy, the observations with their age, `validate_action_bundle` and
the dispatch. Each submission may fail: the supervisor's call may raise, and
`submit_cue` refuses by its own look (`Objection`), finds the director not running,
or has placed its cue (`cue`) when the stream raises on the prompt (`raising`) and
takes it back (`PromptFails`). What the validator and the director know of
registered motions are two operands (`Catalogue` and `behaviors`), as they are two
arguments in `scripts/run_companion.py:225` and `:240`. A replayed image is the
benchmark's, and its plans are recorded. `Programs` has the main threads of both programs (`main`, `mac`)
with their start and shutdown sequences, in which any step may raise or time out
(`late`), over the tracker, the bridge thread, the player and the calibration.
`PoseOutput` sends a frame's packets one by one, each of which may fail, and keeps
what the avatar was last told. `Identity` has a machine (clients that start,
quit, log in as somebody else) and the resolver reading it in three steps.

## Runs

| run | question | bounds | result |
|---|---|---|---|
| `gateway` | does any order of calls leave output that nobody owns or that never expires, and is `FencedOutput` implemented? | 2 devices, one that may fail; 2 sessions, 1 action, tokens 0 to 2, sequence numbers 0 and 1, one clock step | 117 312 states, holds |
| `supervisor` | newest wins, fence first, nobody waits idly, and is `NewestOwner` implemented? | 3 requests for the voice, 1 for the pose; voice calls may fail | 30 130 states, holds |
| `voice_bridge` | do the two ends agree once things settle? | 2 actions, 2 connections, 1 halt, a player that may hang | about 1.6 million states, holds |
| `voice_liveness` | does everything end, and is `NewestOwner` implemented while calls wait for Windows? | 2 actions, 1 connection, a clock step | about 104 000 states, holds |
| `voice_late_speech` | is late speech discarded? | as `voice_bridge` | violated |
| `calibration` | is what is active what is shown, is the output safe before anyone else gets it, and does every calibration end? | 2 calibrations, 1 agent, 3 calls, a VRChat that comes and goes | about 363 000 states, holds |
| `interaction` | does only the newest turn act, is a halt final, is idle motion idle, does every job end? | 2 turns, 1 halt, 1 external call at a time, 1 observation | about 698 000 states, holds |
| `motion` | does a halt silence, has the model one user, does a cue end? | 2 cues (generated, finite), 1 halt or stop, 1 output session and its loss | about 592 000 states, holds |
| `sensors` | is only the attached session sensed, is nothing left behind, is a screenshot fresh, and is the VRChat found the one that was asked for? | 1 VRChat, 2 sessions on it, 2 screenshots; for the search 2 starts, 2 lines per log, 4 instants | about 938 000 states, holds |
| `follow` | is a search earned, does a stop stand still, and is the one shown the one who bears the name? | 2 perception processes with 2 packets each, 6 instants; 2 people, 2 places, given up when missed twice | about 2.3 million states, holds |
| `runner` | does a service run once, stop when told, run the profile? | 2 clients, 2 starts, 1 commit, 2 kills | about 321 000 states, holds |
| `contracts` | the five small parts, one per behaviour | see below | about 638 000 states, holds |

Why the bounds suffice. *Gateway*: a stale lease needs two tokens and a refused
one needs a third; replacement needs two sessions; two devices show that one
call touches one device, and a faulty one beside a working one that failure of
one does not spare the other; a second action adds nothing the token does not
tell apart. *Supervisor*: a third request for one resource is the first that
displaces a waiting one; the pose makes bundles of two. *Voice*: two actions give
replacement, waiting and the late message of the first; the second connection
gives messages and threads that outlive theirs. Tokens reach 4 (start, fence,
start, fence, and the refused start's). `Horizon` 0 in `voice_bridge` turns the
watchdog off, which `voice_liveness` has on. *Calibration*: three calls are a
start, an update and an end, or a start that comes after the first calibration
expired and meets what it has left. *Interaction*: a stale turn needs a newer one;
one slot is exhausted by one call that never returns, and one observation is the
first of which one more is refused; an utterance of two loud frames opens, counts
and closes within four. *Motion*: the second cue replaces the first in every phase
of it; a clip without an end begins like the finite one and is left like a
generated one.
*Sensors*: what a session leaves behind is met by the next; the second screenshot
meets the late answer to the first; two starts of VRChat and two lines per
log come within four instants (six hold too). *Follow*: a takeover needs two
processes and a reordering two packets; six instants are a delay, a scan within it,
one cycle of the search and the beginning of the next. *Perception*: the second person is whom
the first may be taken for, the second place is where they change while the name
is read; two misses are the first and the last. *Runner*: the second start meets the
remains of the first; the second kill takes the client after the worker.
*Contracts*: sizes of 11, 12, 16 and 17 MiB lie around both the payload's limit and
the message's after base64; two peers, of this version and of the one before;
three heartbeats or chunks; two images per turn, and a director without assets or
with either, both or none of the two motions; two set-up jobs with one kill and
one edit of the files (two kills hold too); one message of the Mac (two hold too);
a hand, a foot, an axis and two face parameters, of which one is driven and then omitted.

Deadlock is checked in `gateway`, `supervisor`, `interaction` and `runner`. In the
others the bounds, or the end of what is modelled, let the system come to rest: no
session is left, the service is closed, a turn or a program is over.

The fairness. A thread that can move moves; nothing else has to happen: no
message has to arrive, no connection has to be made, no peer and no brain has to
answer, nobody has to ask for anything.

* `voice_liveness`: `CallStep` and `ExecutorStep(a)` are weakly fair. The code
  justifies it by its time-outs: an output call returns after its time-out
  (`mac_output_transport.py:307`), `play_wav` has a deadline (225-249), and a
  synthesis request has the HTTP client's. A `MarkRunning` that waits for the
  condition is enabled again and again only, but the condition is released for
  ever once the requests are used up.
* `calibration`: the clock (`TimePasses`), the watchdog, which looks five times a
  second (`Poll`), and the output thread are weakly fair, and the method that
  holds the calibration's lock is strongly so (`Continue`): it may wait for the
  I/O lock, which the output thread holds for one write at a time and leaves idle
  for most of its period.
* `interaction`: weak fairness of the connection thread, of the end of an output
  call (it has a time-out), of the idle tick and of each job. An external call
  need not return: the loop's own deadline gives it up.
* `motion`: weak fairness of the manager, of the playback thread's end and its
  callbacks, and of the producer; strong fairness of sending a frame of the
  present prompt and of the last frame of a clip, since sending is disabled
  whenever the session's condition is taken or a frame is not ready, and enabled
  again. A clip has an end, so its last frame is reached.
* `sensors`: weak fairness of the supervisor's thread, of the monitor of a dead
  helper (a timer), and of the time-out of a capture.
* `runner`: weak fairness of each worker that lives.
* `contracts` (`GoneIsQuiet` only): weak fairness of the bridge thread, the player
  and the tracker's tick.

The properties about endings hold in the presence of the faults the code handles.
Each is stated so that its exemptions are explicit: a device that cannot be
written, a process no record tells of, a shutdown call that raised.

### What the violation shows

`voice_late_speech`. `speech_executor.py` looks at the cancel event (139) and
then calls `mark_running` (141). That waits for the supervisor's lock, which a
halt or a replacement holds for a whole exchange with Windows; when it returns,
the action is fenced and cancelled, and `play_wav` (142) sends its speech. The
comment at 137 promises that a late result is discarded. The gateway refuses the
speech, so nobody hears it (`AcknowledgedFenceSilences` holds), but the refusal
ends the whole connection (`windows_output_controller.py:46`).

Three more statements of the repository are written down as properties and do not
hold; no run lists them, and each can be seen by adding the definition to the cfg
named here.

* `SessionOpensFirst` (`VoiceBridge.cfg`, INVARIANT). `_handle_connection` lets
  other threads send (`mac_bridge_server.py:239`) before it sends `session.open`
  (260). A request in between is the first message Windows reads, and Windows
  drops the connection (`windows_bridge_client.py:230`).
* `ConfirmedOnItsTarget` (`Calibration.cfg`, INVARIANT, with `MaxEpoch = 2`).
  `calibrate` remembers the VRChat target after each `start`
  (`windows_companion_api.py:77`), and a `start` with the request id of the active
  calibration only returns it (`calibration_session.py:49`). When VRChat is
  replaced and the start repeated, the running calibration is bound to the new
  VRChat, against `src/docs/avatar-settings.md:45`.
* `ClosedPipelineBeginsNothing` (`Interaction.cfg`, PROPERTY). `accept_audio` looks
  at `closed` and then launches (`audio_interaction_pipeline.py:114`); a `close` in
  between does not stop it, against the comment at `companion_app.py:90`.

### What writing the models turned up besides

These are consequences of the code that the models have as it is; the properties
exempt them by name.

* Wire. A WAV of 12 to 16 MiB passes `encode_wav_payload`, but its message exceeds
  the limit after base64. An error of the wave player longer than 1000 characters
  makes `encode_message` raise in the player's thread, and the companion learns of
  the end by its time-out. A screenshot of more than 8 MiB is refused by the
  encoder and ends the connection (`windows_input_transport.py:161`).
* Decision. A turn may fail when the speech of its bundle is already on its way, and
  nothing takes the speech back (`interaction_runtime.py:368`). `submit_cue` raises
  on a generated motion whose prompt begins with `preset:` or `idle:`, which the
  validator passes (`motion_director_actions.py:31`), when the director does not run
  (45), and when the running stream refuses the prompt (74, 110); a speech whose
  thread cannot start raises too. Of these only the stream's refusal comes after the
  cue was placed, and `_fail_stream` takes that back. The director's other refusals,
  of a registered motion without assets or unknown to them (20, 25), do not happen:
  both look at the same assets, and that is what the property says. The probe of the brain
  (`runner/diagnostics.py:141`) accepts extra fields which production rejects.
* Motion. A stream that ends by itself keeps its cue; when the cue's time is over
  the director enters `STOPPING` and stays (`motion_director.py:407`). A cue
  submitted meanwhile is accepted and never played (386). If the neutralizing call
  of `stop` raises, the manager is never told to end (117).
* Sensors. The hub's lock is held while a screenshot is captured (up to 2 s), and
  the bridge thread that serves it answers no `neutralize` meanwhile. A helper that
  survives its kill for two seconds makes `close` raise
  (`windows_process_audio.py:322`), and nobody waits for it again: it may still be
  there when the next session starts, and `SessionLeavesNothing` exempts it.
* Follow. After perception was taken over twice, an older packet of the first
  process is taken as new (`follow_receiver.py:28`).
* Perception. The reader's thread ends at its first error and is not started again
  (`nameplate.py:319`); when the name is lost after that, it stays lost. A name
  read at a place too small for the template raises in the capture loop and ends
  the whole process (`nameplate_visual.py:63`). The age of an anchor counts from
  the end of the reading, not from the frame (`nameplate.py:306`). A plate within
  one and a half of its widths of somebody else's body is given that body when
  its own was missed (`target_fusion.py:167`): the property excludes it by keeping
  people apart.
* Interaction. A dispatch holds the activity lock while it waits for an answer
  that the connection thread delivers; if that thread is at the start of a new
  utterance, it waits for the same lock, and the call times out
  (`interaction_runtime.py:366`). Everything ends all the same (`JobsEnd`).
* Runner and Setup. A kill between `Popen` and the record leaves a process that no
  record tells of; a later start may start another beside it. An installation is
  still shown as complete after an edit of a file of which the verification took no
  fingerprint (`verify.py:72`).
* Programs. If the control server's stop raises (a second Ctrl-C, say),
  `runtime.stop` is skipped and the devices stay as they were
  (`scripts/run_windows_companion.py:453`). A tracker that does not stop in time
  is not neutralized. The root loop does not notice a dead bridge thread.
* Identity. Two clients started within the lag of a log's name of each other, or
  VRChat restarted under another account before its new log names it, are told
  apart wrongly: `IdentityAssumption` (starts at least two lags apart) and "names an
  account at all" in the property exclude them. So does a log named later than
  `maximum_start_delta_seconds` after its client's start: with two clients of the
  account asked for, one would be passed over.

## Proofs

Each theorem holds for every value of the constants: any number of actions,
sessions, turns, cues, clients, starts, calibrations, times. The bounds of the
models (`MaxTurns`, `MaxCues`, `MaxStarts`, ...) are constants like the others, so
a theorem is about executions of any length.

What is assumed are the modules' named assumptions, which TLC evaluates in every
run, and each is what the code has:

* `None` (`Nothing`, `Nobody`, `NoCaller`, `Halter`, `Autonomy`) is none of the values it stands beside: in
  all modules.
* `GatewayAssumption`: tokens, sequence numbers and lifetimes are integers.
  `SupervisorAssumption`: each action has one resource.
* `VoiceAssumption`, `MotionAssumption`, `InteractionAssumption`, `BoundAssumption`,
  `SetupAssumption`, `SensorsAssumption` and `NoneAssumption` (`Follow`): the bounds are
  numbers; a cue has one of the
  kinds; a turn may look at least once, and one call may run
  (`observation_loop.py` refuses less).
* `VadAssumption`: the detector's lengths are positive, and the longest utterance
  is long enough for one to begin.
* `ConfigAssumption`: the follower's durations are positive, but the delay of a
  search, which may be zero. `PerceptionAssumption`: the one sought is a person,
  and a body is given up after one miss at least.
* `PoseAssumption`: the trackers, axes and face parameters are finitely many.
  `IdentityAssumption`: so are the process identifiers; clients start at least two
  lags of a log's name apart, and the lag is within the resolver's tolerance. That
  is about VRChat, not about this code (see the limits above).
* `WireAssumption`: the largest chunk and the bound on sequence numbers are numbers.
* `CalibrationAssumption`: a calibration and an agent never have the same session,
  since both sides draw `uuid4`.

Every proof has the same plan: an inductive invariant of named parts, one lemma per
part with one step per action, and the properties from the invariant. TLC
checked each invariant on the runs' instances before it was proved. What follows
says what each invariant adds to the properties, and why.

| module | theorem | property of a run |
|---|---|---|
| `DeviceGatewayProofs` | `OutputIsSafe`, `GatewayIsFenced` | `OutputIsAccountedFor`, `Fenced` |
| | `FramesStayInOrder`, `CalibrationIsExclusive`, and the parts of `OutputIsSafe` | proved only |
| | `OnlyTheAttachedIsSensed`, `NothingIsLeft`, `ScreenshotsAreFresh` | `SensesAreTheAttached`, `SessionLeavesNothing`, `ScreenshotIsFresh` |
| | `TheSelectedIsFound` | `FindsTheSelected` |
| | `SensorsTypeCorrect` | proved only |
| `CharacterSupervisorProofs` | `SupervisorIsSafe` | `SupervisorIsSound` |
| | `NewestOwnerImplemented` | `OneNewestOwner` |
| | `NewestOwnerPromises`, `ActionsEndOnce`, and the parts of `SupervisorIsSafe` | proved only |
| `VoiceBridgeProofs` | `FencedStaysSilent`, `SpeechHasItsLease`, `PlayerIsFree`, `CompletedMeansPlayed`, `RestingBridgeAgrees` | `AcknowledgedFenceSilences`, `SpeechIsOwned`, `AcceptedSpeechFindsPlayerFree`, `CompletedWasPlayed`, `IdleBridgeAgrees` |
| | `VoiceOwnerImplemented` | `VoiceHasOneOwner` |
| | `GatewayIsUsedAsSpecified`, `TypeCorrect` | proved only |
| `InteractionProofs` | `HaltIsKept`, `OnlyTheNewestActs`, `IdleIsEarned` | `HaltIsFinal`, `StaleTurnNeverActs`, `IdleOnlyInLastingQuiet` |
| | `TypeCorrect` | proved only |
| `MotionProofs` | `HaltIsSilent`, `OneUser` | `HaltSilences`, `ModelHasOneUser` |
| | `OutputIsTheLast` | `OutputIsAsAsked` |
| | `UserIsWaitedFor`, `TypeCorrect` | proved only |
| `CalibrationProofs` | `WhatIsRecordedIsShown`, `AgentIsLetInSafely` | `ShownAsRecorded`, `AgentFindsRestored` |
| | `ProgramEndsAtRest` | `EndsAtRest` |
| | `GatewayIsUsedAsSpecified`, `NobodyDisplacesIt`, `TypeCorrect` | proved only |
| `RunnerProofs` | `RunsOnce`, `StopIsStopped`, `ProfileIsKept` | `ServiceRunsOnce`, `StoppedIsStopped`, `RunsTheProfile` |
| | `OneTask`, `CompleteWasVerified` | `OneTaskAtATime`, `CompleteIsVerified` |
| | `SentIsTaken`, `TurnStartsItsPlan` | `WhatIsSentIsTaken`, `StartsWhatItPlanned` |
| | `OthersRecordIsLeft`, `TypeCorrect` | proved only |
| `FollowProofs` | `EveryWaitIsWaited`, `StandsStill`, `ShowsTheSame` | `SearchIsEarned`, `StopStandsStill`, `ShowsWhomItFollows` |
| | `TypeCorrect` | proved only |

### The gateway and the supervisor

`DeviceGatewayProofs` proves both properties of the `gateway` run, their parts by
themselves, and two that are not run any more because they are proved: no device
goes back to an earlier frame (`FramesStayInOrder`), and no agent displaces a
calibration (`CalibrationIsExclusive`). The invariant is

    TypeInv /\ SessionInv /\ WriterInv /\ RevokedInv
            /\ UnownedIsNeutral /\ WatchdogCoversOwner

`UnownedIsNeutral` alone is not inductive: that an accepted frame leaves the
device with a writer no newer than the owner needs the session's id to be among
the opened ones (`SessionInv`), and that a replaced session leaves nothing that
looks like the new one needs the writers' sessions to be opened before
(`WriterInv`). `RevokedInv` is the heart of the refinement: every lease that
lost a device and belongs to the open session has a token no larger than the
device's, strictly smaller if the device is owned. Since `authorize` wants a
larger token, no revoked lease comes back (`GatewayIsFenced`).

`CharacterSupervisorProofs`: the invariant adds to the five state properties
`Placed` (what runs or waits on a resource needs that resource, and is in a state
that says so) and `StopInv` (an action told to stop is stopping or has ended
otherwise than completed). They are mutually dependent: that `acquire` finds a
resource free when a waiting action starts follows from `OwnerRunsUnstopped`; that
fencing makes the old lease older follows from the lease part of it; that a
bundle's action which has to wait waits behind a stopping one is
`WaitsBehindStopping`, which is what makes `OwnerRunsUnstopped` survive the end of
an action. The proof goes one method at a time, and for each, one resource at a
time: untouched, fenced, started, refused.

### One newest owner

`NewestOwner` is what the rest of the agent may rely on, without leases, outputs
and threads: for each resource the newest request (`wanted`) and the one that owns it,
the requests whose time is over (`spent`) and those that were told so (`told`). In
a step a resource stays as it is, is asked for by a new request, is taken by the
newest one, or is given up; no request passes it to another directly. A request
that was replaced, halted, refused or has ended is spent, and a spent one never
owns again (`NewestOwnerPromises` draws that conclusion from the abstract
specification alone).

Two models implement it. In `CharacterSupervisor` the newest request is the one that
waits or else owns, and an action is spent when it has ended or has a lease without
its resource. In `VoiceBridge` the same methods wait for
Windows between an output call and its answer, while executors, the connection and
the player go on; the mapping is the same for the one resource, so that a start that
waits for its authorization owns already, and one that failed has lost the voice for good.

Both proofs need one fact that no property of a run had asked for: a lease is given
to an action when its turn comes and not before, so what waits has none and is not
spent (`Leased` of the supervisor, `Turns` of the bridge). From it, and from the
invariants of the earlier theorems, follow that the newest request is never spent
(`Fresh`) and that whoever was told to stop is. The steps of the bridge are then
sorted by what they do to the voice (a request taken in or waiting, a halt, a stop, a
start that succeeds or fails, an end), and all the others leave the abstract state
alone. `Motion` has no such mapping: its leases are those of streams, which the
director makes and ends itself, and not of requests.

### The voice, from end to end

`VoiceBridgeProofs` follows the voice through the supervisor, the wire, the gateway
and the player, over any number of connections. None of the five properties says
anything about messages, and all of them rest on what the messages say:

* That an acknowledged fence silences (`FencedStaysSilent`) needs `Ids`, that an
  answer with the id of the call that waits was given to that call's own message,
  of this connection or an older one; and `Starts`, that an authorization still
  on the wire is for an action whose executor was not started. `Fences` then says
  of an answer still on its way what the property says of one that arrived.
* That a bridge at rest agrees (`RestingBridgeAgrees`) is the case of an empty wire
  of `Claims`: who holds the voice on Windows, and who will once an
  authorization on the wire arrives, is the supervisor's owner under its present
  token, or the fence against it is behind on the wire, or the supervisor is
  about to send it.
* That the player is free for speech the gateway accepts (`PlayerIsFree`), and that
  what plays has its lease (`SpeechHasItsLease`), needs `Separated`: between two
  authorizations of a session there is a fence, which stops the player, so that
  none passes from one action to the next with the first one's speech playing;
  and `Plays`, that a lease has had its only envelope. Where messages are put
  at the end of the wire, `Connection` and `Tokens` say that they belong to this
  session and have a token nobody had before.
* `CompletedMeansPlayed` needs `Completes`, the same of the completion messages, the
  executor's result and the supervisor's state.

`GatewayIsUsedAsSpecified` is a refinement: whatever is on the wire, every step is a
step of `DeviceGateway` or leaves the gateway alone. The theorems of
`DeviceGatewayProofs` therefore hold of the gateway inside the bridge; the tool cannot
draw that conclusion, as it does not use theorems of a module that is
instantiated.

### Turns

`InteractionProofs`: of the three properties the first two need `TurnInv`. A turn
that dispatches has looked at `pending` before it waited for the activity lock and
looks again under it; so what is inductive says who holds that lock and what he is
still to do: `PendingIsNewest` (the one inside is the turn wanted), `ApplyHoldsLock`
and `CallHasHolder` (nobody else dispatches), `WantedIsUnhalted` and `HaltHolds` (a
halt under the lock leaves nothing that waits, and nobody enters as old as it).
`IdleInv` says why the tick's reading stays true while it waits for the activity
lock: it keeps the ingest lock, which whoever would end the quiet needs. The type
invariant needs the detector's lengths (`GateInv`): between two frames no buffer
has reached its limit, and an utterance that is cut leaves them so again.

### Motion

`MotionProofs`: that a halt silences is `Silence`, the wanted or stopped session,
and it is kept by places of the manager thread that hold no lock. So `Phases` says
for each of them what exists: while a stream is started there is no playback, and
a session only between its making and its handing over; otherwise a session is a
playback's. `Tokens` makes a fence newer than what it fences, though a second
owner of leases (`halt`) draws tokens while the manager waits for an answer.
`OneModel` ties the producer to the session there is. `Revisions` (a callback is
about a prompt that played, and a cue knows the revisions of its phase) is needed
by the callbacks, which come when the prompt may have been replaced.
`UserIsWaitedFor` is the action behind `OneUser`: the model passes from one stream
to another only by way of the end of the first one's generation.

### Calibration

`CalibrationProofs`: the parts of `ShownAsRecorded` are not inductive because the
device is written in two steps by either of two threads, under a lock that the
session's methods do not hold. `Aimed` and `Writing` speak of what is on the device
or in the hand of whoever is in the I/O lock: with no target, only the safe frame;
with an agent, only his. `Locking` says that one thread writes at a time, and none
after a failure; `Holders` ties the record to the session and the exclusive claim;
`Underway` says for what end the method under way was begun, since it ends the
record only after it has restored; `Seeing`, that the pose of an active record was
on the device before it can be confirmed.

`GatewayIsUsedAsSpecified` is the same refinement as the bridge's. It needs
`Counting`, that no call gives the gateway more than one frame, so that its
sequence number stays in the range. Of the gateway's own theorems
`NobodyDisplacesIt` matters most here, and is proved again from this invariant.

### The service runner and the set-up

`RunnerProofs`: two processes act on a record they read earlier, and either may be
killed between any two steps. `RecordTells` says that the record on disk tells of
the newest start, except while its client has yet to write the worker down;
`SeenTells` says the same of what a client has read and still goes by: he holds the
service's lock, so no other start replaces the record meanwhile, and a worker
writes only to its own (`OthersRecordIsLeft`); a worker killed with a service that
the reader has not read of is in `unnoticed`, which the properties exempt by name.
With `OnlyTheNewest`, an older start lives only if a kill kept it out of the record.
`MayCommit` and `ProfileKept` are about the profile, which is changed only by a
client that has seen the service stopped.

The set-up of the motion model is the same problem with two locks and with tasks
that outlive their workers. What makes two running tasks one is `Claimed` (a task
that runs is the record's child, or its worker is about to write it down) and
`Alone` (while the record's child runs, whoever holds the installation waits for
it). `Alone` survives the start of a new job because a start is refused while the
old child lives; and the child written down can only be a task of the record's own
ticket (`Children`), because the client that gave the ticket out keeps the record's
lock until its worker can be told (`Spawning`). A worker that finds another's ticket
leaves the record alone, and holds the installation until it has gone (`Rooted`).
`Verified` ties the evidence to the files: a verification that has run, and the
fingerprints it left, are of the files as they are, since what writes to them
would have to run beside it, and an edit either withdraws the fingerprints or is one
they do not cover (`unseen`).

### Messages and decisions

`RunnerProofs` also has the two parts of `contracts` that follow data. `SentIsTaken`
is about the two tables of the protocol, that of `encode_message` and that of
`decode_message`: for every message that a component constructs, `Carried` says that
it is refused exactly if it is one of the four kinds of `Lost`, and is otherwise
accepted and read as it was meant. There is one lemma per type of message, over every
sequence number and every chunk size; speech and screenshots have the sizes around
the limits that the model gives them. The invariant adds what the handlers look at:
`Sessions` says that in an open session no counter of a receiver has reached its
sender's, which is so because each end forgets its counts when the session opens, the
two sides at different times; and `Flight` that a counted message under way lies
between the two.

`TurnStartsItsPlan` needs these parts: that a plan is one or two validated actions
for as many devices (`PlanSound`), how far it has got at each stage (`Progress`),
that no time counts against an image once the plan came (`Sighted`), and whose the
cue is (`CueOfTheTurn`): that of a motion whose submission returned, or of one whose
stream is about to raise and to take it back. That the dispatch fails on no
registered motion (`Refusals`) rests on `OnlyReservedObjected`: what the validator
lets through for these behaviors the director's second look lets through, as both
have the same assets and `Parsed` keeps what the look needs. A speech that was
started under a turn that fails stays started; nothing here says otherwise.

### The senses

`DeviceGatewayProofs` holds them too, as the other direction of the bridge on
Windows. A session's threads outlive the wait for them, so all three properties
speak of every session there was. `Epochs` says why a late thread is not heard: two
sessions may have the same id, as it is made of the process and an epoch that only a
session which gets to run takes up, but a thread that reads sound exists only in
such a session, and every later one has a later epoch. `Leftovers` says for each
place of the supervisor's thread what the session at hand may still have, and that
the earlier ones have nothing; it goes through because every way out of a start or
an end, with or without an exception, passes `CloseAudio` and `CloseCapture` after
the helper and the capture exist. `Reading` is the hub's lock: while a screenshot
reads, its session stays attached and so its capture on. `Stamps` orders frames
and requests: the frame a shot returns was new after the shot began, and the
answers that wait carry it.

### The follower

`FollowProofs`: a search is earned by the history of a loss, and the controller
decides by its clock with the pauses taken off; `Reckoning` ties one to the other.
`Neutrals` says, for each place of the two threads, who has claimed the last output
and that he has sent it or will, with nothing after it. For `Perception`, `PInv` says
of every step between a frame and what is shown whose plate or body it is
(`Bears`), and without a name, that the bodies missed are as many as the frames in
which nobody was shown (`Follows`).

### The programs, the output and the search for VRChat

`EndsAtRest` needs little once it is seen where a shutdown turns: `ProgramsInv` says
that on the way out the trackers are off and the controller does not run, or
something went wrong, and `Onwards` that no step of any thread makes a controller
run that does not (only the start does) or switches on what a stopped controller
has switched off. That the bridge's thread handles only what a Mac can send
(`Letters`) is needed because the dispatch has no other branch.

`OutputIsAsAsked` is about calls that fail midway and frames that leave out what
earlier ones drove. `PoseInv` adds that a face parameter that is driven is remembered,
whatever became of the call that drove it, so that the next one sends it a 0. The
lemmas before it turn sequences of packets into sets: what `InOrder` enumerates, what
two sequences one after the other contain, and what a call shows (`CallShows`).

`FindsTheSelected`: `LogsApart` is what the spacing of the starts gives, that no log is
nearer to a client's start than the client's own (`NearestIsOwn`); `CacheHolds`, that
an account remembered for a log of this size is the one in it. A tie at the
boundary is possible, and is the error the code reports.

### Only model-checked

* Liveness (`EveryActionEnds`, `CalibrationEnds`, `JobsEnd`, `CueEnds`,
  `DeadSensorIsReplaced`, `WorkerObeys`, `GoneIsQuiet`): out of the prover's reach.

Every invariant that a run checks is proved, and so is every refinement.

## What the models leave out

* Wording, counters, snapshots, logs and the event history; payloads beyond the
  classes `Wire` tells apart.
* Geometry, tensors, images and sound: retargeting, calibration poses, motion
  generation, recognition of names and plates, the VAD's energy, smoothing in the follower.
  They are functions without shared state.
* One bridge that carries voice, poses and senses at once. `VoiceBridge`, `Motion`
  and `Sensors` each have their own traffic, and what one connection thread owes
  the others appears only as a delay (`Interaction`) or not at all.
* That the watchdog is polled: the client polls it when nothing arrived for a
  moment (`windows_bridge_client.py:260`), so a peer that sends all the time delays
  it. The models let it happen and never rely on it.
* A crash of the Windows program, after which the trackers keep their last frame.
* Runner: several services at once, drafts of a profile, logs, probes. Setup: two
  state directories, and edits of the files while a task runs.
* Identity: which of a client's windows is taken, display names that differ in
  case, and the diagnostics. Follow: the prompt router. Perception: the geometry
  that gives a plate its body (`target_fusion.py:151`), the search window of the
  template, the status record.
* The other sources of sound (microphone), replay and benchmark
  programs, `agentctl`, the terminal client, providers' requests and credentials.
* The branch of `_restore` which finds another state than it just wrote
  (`calibration_session.py:117`) is in the model but never taken.
* Requests at the supervisor are either for one or for two actions, on different
  resources, as `apply_bundle` insists (173-175).
* The constructors' argument checks, and errors in programming that the code
  answers with `TypeError` or `ValueError` before it changes anything.

## Plan

The modelling planned at the outset is done, and every invariant and refinement that
a run checks is proved. What could follow:

1. One bridge that carries voice, poses and senses at once, so that what one
   connection's thread owes to the others is more than a delay.
2. An abstract specification of `Motion` in terms of streams, as `NewestOwner` is one in
   terms of requests.
